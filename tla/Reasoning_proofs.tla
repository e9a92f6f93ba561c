--------------------------- MODULE Reasoning_proofs ---------------------------
(***************************************************************************)
(* Proofs about what the evidence is worth, for any items, patterns,       *)
(* scores, hypotheses and attributions.                                    *)
(*                                                                         *)
(* The grounding: a proposal of the Brain rests on all the evidence.  The  *)
(* server asks for an attribution of what was collected for a hypothesis   *)
(* when it grounds it, never again.  What is collected later cannot        *)
(* escape: an item enters, or enters again, with a window that no earlier  *)
(* snapshot has (Windowed), so a grounding that has the snapshot of now    *)
(* has seen everything (GroundingsComplete).  A final diagnosis has the    *)
(* snapshot of now (DiagnosisCurrent), and the permission compares the     *)
(* two.                                                                    *)
(*                                                                         *)
(* The candidates: state assertions name categories and lend them support, *)
(* and change nothing.  A candidate is the draft of a triggered pattern    *)
(* (CandidateIsDraft), and generation and verification, which compute      *)
(* different functions of different tables, agree about each of them       *)
(* (DraftIsVerified) when patterns are chains with a mechanism of theirs.  *)
(*                                                                         *)
(* The rounds: each loop of the choice keeps an invariant that the next    *)
(* one starts from (LoopKeeps), so that the choice stands for the          *)
(* evidence; an assertion is contradicted by the readings of one round and *)
(* keeps a normal reading in every later one.                              *)
(*                                                                         *)
(* The conversation: between two turns every call has its results right    *)
(* behind it (CallsAreTracked), so the units tile the history, and what a  *)
(* model is shown is its rest from some beginning (HistoryIs).             *)
(***************************************************************************)
EXTENDS CausalCandidates, EvidenceRounds, RecoveryGrounding, MessageHistory,
        FiniteSetTheorems, SequenceTheorems, WellFoundedInduction, TLAPS

-----------------------------------------------------------------------------
(* The grounding of a proposal *)

HypothesisFields == {"status", "admission", "needs", "validated"}

DiagnosisFields == {"revision", "snapshot", "cited", "provisional"}

\* A snapshot whose windows the clock has passed.
Passed(snapshot) == \A id \in DOMAIN snapshot : snapshot[id] \in Nat /\ snapshot[id] <= clock

Windowed ==
    /\ clock \in Nat
    /\ Passed(held)
    /\ \A r \in Grounded : Passed(groundings[r].snapshot)

GroundingsComplete ==
    \A r \in Grounded :
        groundings[r].snapshot = Snapshot => BoundEvidence(r) \subseteq Attributed(groundings[r])

NeedsAnswered ==
    \A r \in Grounded :
        groundings[r].level = "SUPPORTED" =>
            hypotheses[r].needs \subseteq FulfilledNeeds(r, groundings[r].supporting)

DiagnosisCurrent ==
    agentDiagnosis # NoConclusion =>
        /\ DOMAIN agentDiagnosis = DiagnosisFields
        /\ agentDiagnosis.revision \in Grounded
        /\ ~agentDiagnosis.provisional => agentDiagnosis.snapshot = Snapshot

\* What is known of evidence and hypotheses.
Knowledge ==
    /\ Windowed
    /\ DOMAIN hypotheses = Revision /\ DOMAIN groundings = Revision
    /\ \A r \in Born : DOMAIN hypotheses[r] = HypothesisFields
    /\ Grounded \subseteq Born
    /\ GroundingsComplete
    /\ NeedsAnswered

Interrupted == resumePhase \in {"INVESTIGATION", "DIAGNOSIS", "RECOVERY", "ESCALATION"}

IInv == Knowledge /\ Interrupted /\ DiagnosisCurrent /\ ProposalIsGrounded

-----------------------------------------------------------------------------
\* Initially nothing is held, born, grounded or concluded.
LEMMA GroundingInitially == GroundingInit => IInv
<1> SUFFICES ASSUME GroundingInit PROVE IInv
  OBVIOUS
<1>1. Grounded = {} /\ Born = {}
  BY DEF GroundingInit, Grounded, Born, NotBorn
<1>2. Windowed
  <2>1. DOMAIN held = {} /\ clock = 0
    BY DEF GroundingInit
  <2>2. QED
    BY <1>1, <2>1 DEF Windowed, Passed
<1>3. GroundingsComplete /\ NeedsAnswered
  BY <1>1 DEF GroundingsComplete, NeedsAnswered
<1>4. Knowledge /\ Interrupted
  BY <1>1, <1>2, <1>3 DEF Knowledge, Interrupted, GroundingInit
<1>5. DiagnosisCurrent /\ ProposalIsGrounded
  BY DEF DiagnosisCurrent, ProposalIsGrounded, GroundingInit
<1>6. QED
  BY <1>4, <1>5 DEF IInv

\* A collection gives the evidence a snapshot that no earlier one equals
\* (runBrainEvidenceTool, StableID, EvidenceSnapshotHash).
LEMMA CollectionIsNew ==
  ASSUME NEW ids, ids # {}, clock \in Nat, NEW old, Passed(old)
  PROVE  Merged(ids) # old
<1>1. PICK id \in ids : TRUE
  OBVIOUS
<1>2. id \in DOMAIN Merged(ids) /\ Merged(ids)[id] = clock + 1
  BY <1>1 DEF Merged
<1>3. QED
  BY <1>2 DEF Passed

\* The snapshot of now follows from what is held.
LEMMA SnapshotIsHeld == Snapshot = held
  BY DEF Snapshot, SnapshotOf

\* What the level says of the needs (Grounder.Validate).
LEMMA SupportedAnswersNeeds ==
  ASSUME NEW supporting, NEW contradicting, NEW needs, NEW fulfilled, NEW causal,
         LevelOf(supporting, contradicting, needs, fulfilled, causal) = "SUPPORTED"
  PROVE  needs \subseteq fulfilled
  BY DEF LevelOf

\* A grounding is never the absence of one.
LEMMA LevelsAreNamed ==
  ASSUME NEW supporting, NEW contradicting, NEW needs, NEW fulfilled, NEW causal
  PROVE  LevelOf(supporting, contradicting, needs, fulfilled, causal) # "NONE"
  BY DEF LevelOf

\* Every item cited is attributed one way (ValidateEvidenceAttributions).
LEMMA CitedIsAttributed ==
  ASSUME NEW r, NEW attribution \in Attributions
  PROVE  Cited(attribution) \subseteq Attributed(GroundingOf(r, attribution))
  BY AttributionsAssumption DEF Cited, Attributed, GroundingOf, Related, Relation

-----------------------------------------------------------------------------
\* What moves only the phase, the diagnosis or the plan leaves the knowledge.
LEMMA KnowledgeStands ==
  ASSUME Knowledge, UNCHANGED <<held, clock, executions, hypotheses, groundings>>
  PROVE  Knowledge'
  BY DEF Knowledge, Windowed, Passed, Born, Grounded, GroundingsComplete, NeedsAnswered, Snapshot,
         SnapshotOf, BoundEvidence, BoundTo, Attributed, FulfilledNeeds

\* A collection dates every grounding, and takes no answer away
\* (runBrainEvidenceTool).
LEMMA CollectKeepsKnowledge ==
  ASSUME Knowledge, NEW request \in Requests, Collect(request)
  PROVE  Knowledge'
<1> USE DEF Knowledge
<1>1. groundings' = groundings /\ held' = Merged(request.ids) /\ clock' = clock + 1
  BY DEF Collect
<1>2. executions \subseteq executions'
  BY DEF Collect
<1>3. hypotheses' = ObservedHypotheses(SnapshotOf(Merged(request.ids))) \/ hypotheses' = hypotheses
  BY DEF Collect
<1>4. /\ DOMAIN hypotheses' = Revision
      /\ \A r \in Revision :
           /\ hypotheses'[r].status = "NOT_BORN" => r \notin Born
           /\ r \in Born => /\ DOMAIN hypotheses'[r] = HypothesisFields
                            /\ hypotheses'[r].needs = hypotheses[r].needs
  BY <1>3 DEF ObservedHypotheses, Born, HypothesisFields
<1>5. Born \subseteq Born' /\ Born' \subseteq Born /\ Grounded' = Grounded
  <2>1. \A r \in Revision : r \notin Born => hypotheses'[r] = hypotheses[r]
    BY <1>3 DEF ObservedHypotheses, Born
  <2>2. QED
    BY <1>1, <1>4, <2>1 DEF Born, Grounded
<1>6. Windowed'
  <2>1. Passed(held)'
    BY <1>1 DEF Passed, Merged, Windowed
  <2>2. \A r \in Grounded' : Passed(groundings[r].snapshot)'
    BY <1>1, <1>5 DEF Passed, Windowed
  <2>3. QED
    BY <1>1, <2>1, <2>2 DEF Windowed
<1>7. GroundingsComplete'
  <2>1. \A r \in Grounded : groundings[r].snapshot # Merged(request.ids)
    BY RequestsAssumption, CollectionIsNew DEF Windowed
  <2>2. Snapshot' = Merged(request.ids)
    BY <1>1 DEF Snapshot, SnapshotOf
  <2>3. QED
    BY <1>1, <1>5, <2>1, <2>2 DEF GroundingsComplete
<1>8. NeedsAnswered'
  <2>1. ASSUME NEW r, NEW supporting
        PROVE  FulfilledNeeds(r, supporting) \subseteq FulfilledNeeds(r, supporting)'
    BY <1>2 DEF FulfilledNeeds, BoundTo
  <2>2. QED
    BY <1>1, <1>4, <1>5, <2>1 DEF NeedsAnswered, Grounded
<1>9. \A r \in Born' : DOMAIN hypotheses'[r] = HypothesisFields
  BY <1>4, <1>5 DEF Born
<1>10. QED
  BY <1>1, <1>4, <1>5, <1>6, <1>7, <1>8, <1>9

\* A new revision has no grounding, and its parents keep their needs
\* (runBrainSubmitHypotheses, runBrainReviseHypothesis).
LEMMA RevisionsKeepKnowledge ==
  ASSUME Knowledge,
         UNCHANGED <<held, clock, executions, groundings>>,
         DOMAIN hypotheses' = Revision,
         \A r \in Born : /\ hypotheses'[r].status # "NOT_BORN"
                         /\ hypotheses'[r].needs = hypotheses[r].needs,
         \A r \in Revision : hypotheses'[r].status # "NOT_BORN" =>
                                DOMAIN hypotheses'[r] = HypothesisFields
  PROVE  Knowledge'
<1> USE DEF Knowledge
<1>1. Grounded' = Grounded /\ Born \subseteq Born'
  BY DEF Grounded, Born
<1>2. Windowed'
  BY <1>1 DEF Windowed, Passed
<1>3. GroundingsComplete'
  BY <1>1 DEF GroundingsComplete, BoundEvidence, BoundTo, Attributed, Snapshot, SnapshotOf
<1>4. NeedsAnswered'
  BY <1>1 DEF NeedsAnswered, FulfilledNeeds, BoundTo
<1>5. QED
  BY <1>1, <1>2, <1>3, <1>4 DEF Born

\* runBrainSubmitHypotheses
LEMMA SubmissionKeepsKnowledge ==
  ASSUME Knowledge, NEW r \in Revision, NEW contract \in Contracts, SubmitHypothesis(r, contract)
  PROVE  Knowledge'
<1>1. hypotheses' = [hypotheses EXCEPT ![r] = NewRevision(contract)] /\ r \notin Born
  BY DEF SubmitHypothesis, IsNext
<1>2. QED
  BY <1>1, RevisionsKeepKnowledge
     DEF SubmitHypothesis, Knowledge, Born, NewRevision, HypothesisFields

\* runBrainReviseHypothesis
LEMMA RevisionKeepsKnowledge ==
  ASSUME Knowledge, NEW r \in Revision, NEW parent \in Revision, NEW contract \in Contracts,
         ReviseHypothesis(r, parent, contract)
  PROVE  Knowledge'
<1>1. PICK status \in {"REPLACED", "MERGED"} :
        hypotheses' = [hypotheses EXCEPT ![parent].status = status, ![r] = NewRevision(contract)]
  BY DEF ReviseHypothesis
<1>2. r \notin Born /\ parent \in Born
  BY DEF ReviseHypothesis, IsNext
<1>3. QED
  BY <1>1, <1>2, RevisionsKeepKnowledge
     DEF ReviseHypothesis, Knowledge, Born, NewRevision, HypothesisFields

\* A grounding takes in all that was collected for its hypothesis, and calls it
\* supported only when the needs are answered (runBrainValidateHypothesis).
LEMMA ValidationKeepsKnowledge ==
  ASSUME Knowledge, NEW r \in Revision, NEW attribution \in Attributions, ValidateHypothesis(r, attribution)
  PROVE  Knowledge' /\ Grounded \subseteq Grounded'
<1> USE DEF Knowledge
<1> DEFINE new == GroundingOf(r, attribution)
<1>1. groundings' = [groundings EXCEPT ![r] = new] /\ r \in Born
  BY DEF ValidateHypothesis, AdmittedRevisions
<1>2. UNCHANGED <<held, clock, executions>>
  BY DEF ValidateHypothesis
<1>3. new # Nothing /\ new.snapshot = held
  <2>1. new.level # "NONE"
    BY LevelsAreNamed DEF GroundingOf
  <2>2. QED
    BY <2>1, SnapshotIsHeld DEF Nothing, GroundingOf
<1>4. groundings'[r] = new /\ \A other \in Revision \ {r} : groundings'[other] = groundings[other]
  BY <1>1
<1>5. Grounded \subseteq Grounded' /\ Grounded' \subseteq Grounded \union {r}
  BY <1>1, <1>3, <1>4 DEF Grounded
<1>6. /\ DOMAIN hypotheses' = Revision
      /\ \A other \in Born :
           /\ hypotheses'[other].status # "NOT_BORN"
           /\ DOMAIN hypotheses'[other] = HypothesisFields
           /\ hypotheses'[other].needs = hypotheses[other].needs
      /\ \A other \in Revision \ Born : hypotheses'[other] = hypotheses[other]
  BY <1>1 DEF ValidateHypothesis, GroundedAs, Born, HypothesisFields
<1>7. Born' = Born
  BY <1>6 DEF Born
<1>8. Windowed'
  <2>1. Passed(held)'
    BY <1>2 DEF Windowed, Passed
  <2>2. Passed(groundings[r].snapshot)'
    BY <1>2, <1>3, <1>4 DEF Windowed, Passed
  <2>3. \A other \in Grounded \ {r} : Passed(groundings[other].snapshot)'
    BY <1>2, <1>4 DEF Windowed, Passed, Grounded
  <2>4. QED
    BY <1>2, <1>5, <2>1, <2>2, <2>3 DEF Windowed
<1>9. GroundingsComplete'
  <2>1. BoundEvidence(r)' \subseteq Attributed(new)
    BY <1>2, CitedIsAttributed DEF ValidateHypothesis, BoundEvidence, BoundTo
  <2>2. Attributed(groundings'[r]) = Attributed(groundings[r])'
    BY DEF Attributed
  <2>3. \A other \in Grounded \ {r} :
          /\ BoundEvidence(other)' = BoundEvidence(other)
          /\ Attributed(groundings[other])' = Attributed(groundings[other])
    BY <1>2, <1>4 DEF BoundEvidence, BoundTo, Attributed, Grounded
  <2>4. Snapshot' = Snapshot
    BY <1>2 DEF Snapshot, SnapshotOf
  <2>5. QED
    BY <1>4, <1>5, <2>1, <2>2, <2>3, <2>4 DEF GroundingsComplete, Grounded
<1>10. NeedsAnswered'
  <2>1. new.level = "SUPPORTED" =>
          hypotheses[r].needs \subseteq FulfilledNeeds(r, new.supporting)
    BY SupportedAnswersNeeds DEF GroundingOf
  <2>2. \A other :
          FulfilledNeeds(other, groundings[other].supporting)'
            = FulfilledNeeds(other, groundings'[other].supporting)
    BY <1>2 DEF FulfilledNeeds, BoundTo
  <2>3. ASSUME NEW other \in Grounded', groundings'[other].level = "SUPPORTED"
        PROVE  hypotheses'[other].needs \subseteq
                 FulfilledNeeds(other, groundings'[other].supporting)
    <3>1. CASE other = r
      BY <3>1, <1>1, <1>4, <1>6, <2>1, <2>3
    <3>2. CASE other # r
      <4>1. other \in Grounded /\ other \in Born /\ groundings'[other] = groundings[other]
        BY <3>2, <1>4, <1>5 DEF Grounded
      <4>2. QED
        BY <4>1, <1>6, <2>3 DEF NeedsAnswered
    <3>3. QED
      BY <3>1, <3>2
  <2>4. QED
    BY <2>2, <2>3 DEF NeedsAnswered
<1>11. QED
  BY <1>1, <1>5, <1>6, <1>7, <1>8, <1>9, <1>10 DEF Grounded

-----------------------------------------------------------------------------
\* A diagnosis is final only on the snapshot of now: the observation node takes
\* the mark away with every new snapshot (observationUpdate), and only
\* runBrainValidateDiagnosis gives it.
LEMMA DiagnosisStaysCurrent ==
  ASSUME Knowledge, DiagnosisCurrent, GroundingNext
  PROVE  DiagnosisCurrent'
<1> USE DEF DiagnosisFields
<1>1. ASSUME UNCHANGED <<held, groundings, agentDiagnosis>>
      PROVE  DiagnosisCurrent'
  BY <1>1 DEF DiagnosisCurrent, Grounded, Snapshot, SnapshotOf
<1>2. ASSUME NEW request \in Requests, Collect(request)
      PROVE  DiagnosisCurrent'
  <2>1. Snapshot' = SnapshotOf(Merged(request.ids)) /\ Grounded' = Grounded
    BY <1>2 DEF Collect, Snapshot, SnapshotOf, Grounded
  <2>2. CASE UNCHANGED agentDiagnosis /\ agentDiagnosis = NoConclusion
    BY <2>2 DEF DiagnosisCurrent
  <2>3. CASE UNCHANGED agentDiagnosis /\ agentDiagnosis.snapshot = Snapshot'
    BY <2>1, <2>3 DEF DiagnosisCurrent
  <2>4. CASE UNCHANGED agentDiagnosis /\ Snapshot' = Snapshot
    BY <2>1, <2>4 DEF DiagnosisCurrent
  <2>5. CASE /\ agentDiagnosis # NoConclusion
             /\ agentDiagnosis' = [agentDiagnosis EXCEPT !.provisional = TRUE]
    BY <2>1, <2>5 DEF DiagnosisCurrent
  <2>6. QED
    BY <1>2, <2>1, <2>2, <2>3, <2>4, <2>5 DEF Collect, Outdated
<1>3. ASSUME NEW r \in Revision, NEW attribution \in Attributions, ValidateHypothesis(r, attribution)
      PROVE  DiagnosisCurrent'
  <2>1. Snapshot' = Snapshot /\ Grounded \subseteq Grounded'
    BY <1>3, ValidationKeepsKnowledge DEF ValidateHypothesis, Snapshot, SnapshotOf
  <2>2. \/ UNCHANGED agentDiagnosis
        \/ /\ agentDiagnosis # NoConclusion
           /\ agentDiagnosis' = [agentDiagnosis EXCEPT !.cited = FALSE]
    BY <1>3 DEF ValidateHypothesis, NoConclusion, Revision
  <2>3. QED
    BY <2>1, <2>2 DEF DiagnosisCurrent
<1>4. ASSUME NEW r \in Revision, SubmitDiagnosis(r)
      PROVE  DiagnosisCurrent'
  BY <1>4 DEF SubmitDiagnosis, DiagnosisCurrent, Grounded
<1>5. ASSUME ValidateDiagnosis
      PROVE  DiagnosisCurrent'
  <2>1. Snapshot' = Snapshot /\ Grounded' = Grounded
    BY <1>5 DEF ValidateDiagnosis, Snapshot, SnapshotOf, Grounded
  <2>2. PICK final \in BOOLEAN :
          /\ final => agentDiagnosis.snapshot = Snapshot
          /\ agentDiagnosis' = [agentDiagnosis EXCEPT !.provisional = ~final]
    BY <1>5 DEF ValidateDiagnosis, DiagnosisHolds
  <2>3. agentDiagnosis # NoConclusion
    BY <1>5 DEF ValidateDiagnosis
  <2>4. QED
    BY <2>1, <2>2, <2>3 DEF DiagnosisCurrent
<1>6. QED
  BY <1>1, <1>2, <1>3, <1>4, <1>5
     DEF GroundingNext, SubmitHypothesis, ReviseHypothesis, AdvancePhase, Reflect, Correct,
         RevisePlan, ToolBudgetSpent, SubmitRecovery, Finish, Propose, DryRunFails, Move

-----------------------------------------------------------------------------
\* The permission compares the grounding with the diagnosis and the diagnosis is
\* of now; so the grounding is (brainRecoveryPermissionNode, RecoveryAllowed).
LEMMA PermissionIsGrounded ==
  ASSUME Knowledge, DiagnosisCurrent, Propose
  PROVE  ProposalIsGrounded'
<1> DEFINE r == agentDiagnosis.revision
           grounding == groundings[r]
<1>1. /\ r \in Grounded
      /\ RecoveryAllowed(r)
      /\ agentDiagnosis # NoConclusion
      /\ UNCHANGED <<held, executions, hypotheses, groundings, agentDiagnosis>>
  BY DEF Propose, Move
<1>2. /\ agentDiagnosis.snapshot = grounding.snapshot /\ ~agentDiagnosis.provisional
      /\ grounding.level = "SUPPORTED"
      /\ "kubernetes" \in SourcesOf(grounding.supporting)
      /\ Cardinality(SourcesOf(grounding.supporting)) >= 2
  BY <1>1 DEF RecoveryAllowed
<1>3. grounding.snapshot = Snapshot
  BY <1>1, <1>2 DEF DiagnosisCurrent
<1>4. BoundEvidence(r) \subseteq Attributed(grounding)
  BY <1>1, <1>3 DEF Knowledge, GroundingsComplete
<1>5. \A need \in hypotheses[r].needs :
        \E request \in executions :
            /\ r \in request.bound /\ need \in request.needs
            /\ request.ids \intersect grounding.supporting # {}
  <2>1. hypotheses[r].needs \subseteq FulfilledNeeds(r, grounding.supporting)
    BY <1>1, <1>2 DEF Knowledge, NeedsAnswered
  <2>2. QED
    BY <2>1 DEF FulfilledNeeds, BoundTo
<1>6. QED
  BY <1>1, <1>2, <1>3, <1>4, <1>5
     DEF ProposalIsGrounded, Snapshot, SnapshotOf, BoundEvidence, BoundTo, Attributed, SourcesOf

\* No other step leads to a proposal, or changes what one rests on.
LEMMA OnlyPermissionProposes ==
  ASSUME Interrupted, GroundingNext, ~Propose
  PROVE  Interrupted' /\ brainPhase' # "PROPOSED"
<1> USE DEF Interrupted, Investigating, Resume, Move
<1>1. ASSUME NEW request \in Requests, Collect(request)
      PROVE  Interrupted' /\ brainPhase' # "PROPOSED"
  BY <1>1 DEF Collect
<1>2. ASSUME NEW r \in Revision, NEW contract \in Contracts, SubmitHypothesis(r, contract)
      PROVE  Interrupted' /\ brainPhase' # "PROPOSED"
  BY <1>2 DEF SubmitHypothesis
<1>3. ASSUME NEW r \in Revision, NEW parent \in Revision, NEW contract \in Contracts,
             ReviseHypothesis(r, parent, contract)
      PROVE  Interrupted' /\ brainPhase' # "PROPOSED"
  BY <1>3 DEF ReviseHypothesis
<1>4. ASSUME NEW r \in Revision, NEW attribution \in Attributions, ValidateHypothesis(r, attribution)
      PROVE  Interrupted' /\ brainPhase' # "PROPOSED"
  BY <1>4 DEF ValidateHypothesis
<1>5. ASSUME NEW r \in Revision, SubmitDiagnosis(r)
      PROVE  Interrupted' /\ brainPhase' # "PROPOSED"
  BY <1>5 DEF SubmitDiagnosis
<1>6. CASE ValidateDiagnosis
  <2>1. brainPhase = "DIAGNOSIS" /\ brainPhase' \in {"RECOVERY", "ESCALATION", brainPhase}
    BY <1>6 DEF ValidateDiagnosis
  <2>2. QED
    BY <1>6, <2>1 DEF ValidateDiagnosis
<1>7. CASE \/ AdvancePhase \/ Reflect \/ Correct \/ RevisePlan \/ ToolBudgetSpent
           \/ SubmitRecovery \/ Finish \/ DryRunFails
  BY <1>7 DEF AdvancePhase, Reflect, Correct, RevisePlan, ToolBudgetSpent, SubmitRecovery, Finish,
              DryRunFails
<1>8. QED
  BY <1>1, <1>2, <1>3, <1>4, <1>5, <1>6, <1>7 DEF GroundingNext

\* The invariant is inductive, action by action.
LEMMA GroundingStep == IInv /\ [GroundingNext]_groundingVars => IInv'
<1> SUFFICES ASSUME IInv, [GroundingNext]_groundingVars PROVE IInv'
  OBVIOUS
<1> USE DEF IInv
<1>1. CASE UNCHANGED groundingVars
  BY <1>1, KnowledgeStands
     DEF groundingVars, Interrupted, DiagnosisCurrent, Grounded, Snapshot, SnapshotOf,
         ProposalIsGrounded, BoundEvidence, BoundTo, Attributed, SourcesOf
<1>2. CASE GroundingNext
  <2>1. Knowledge'
    <3>1. CASE \E request \in Requests : Collect(request)
      BY <3>1, CollectKeepsKnowledge
    <3>2. CASE \E r \in Revision, contract \in Contracts : SubmitHypothesis(r, contract)
      BY <3>2, SubmissionKeepsKnowledge
    <3>3. CASE \E r, parent \in Revision, contract \in Contracts :
                 ReviseHypothesis(r, parent, contract)
      BY <3>3, RevisionKeepsKnowledge
    <3>4. CASE \E r \in Revision, attribution \in Attributions : ValidateHypothesis(r, attribution)
      BY <3>4, ValidationKeepsKnowledge
    <3>5. CASE \/ \E r \in Revision : SubmitDiagnosis(r)
               \/ AdvancePhase \/ Reflect \/ Correct \/ RevisePlan \/ ToolBudgetSpent
               \/ ValidateDiagnosis \/ SubmitRecovery \/ Finish \/ Propose \/ DryRunFails
      BY <3>5, KnowledgeStands
         DEF SubmitDiagnosis, AdvancePhase, Reflect, Correct, RevisePlan, ToolBudgetSpent,
             ValidateDiagnosis, SubmitRecovery, Finish, Propose, DryRunFails, Move
    <3>6. QED
      BY <1>2, <3>1, <3>2, <3>3, <3>4, <3>5 DEF GroundingNext
  <2>2. DiagnosisCurrent'
    BY <1>2, DiagnosisStaysCurrent
  <2>3. CASE Propose
    BY <2>1, <2>2, <2>3, PermissionIsGrounded DEF Propose, Interrupted
  <2>4. CASE ~Propose
    BY <1>2, <2>1, <2>2, <2>4, OnlyPermissionProposes DEF ProposalIsGrounded
  <2>5. QED
    BY <2>3, <2>4
<1>3. QED
  BY <1>1, <1>2

\* For every evidence, every hypothesis, every attribution and any number of
\* collections, what a proposal rests on was judged on all of the evidence
\* (brainRecoveryPermissionNode).
THEOREM ProposalsAreGrounded == GroundingSpec => []ProposalIsGrounded
<1>1. IInv => ProposalIsGrounded
  BY DEF IInv
<1>2. QED
  BY <1>1, GroundingInitially, GroundingStep, PTL DEF GroundingSpec

-----------------------------------------------------------------------------
(* The candidates of a round *)

TriggeredOf(patterns, items) == {p \in patterns : Triggers(p, items)}

\* The categories that get a candidate: those of the triggered patterns.
Admitted(patterns, items) == {Pattern[p].category : p \in TriggeredOf(patterns, items)}

\* Assertions add items to a category before a pattern is chosen for it
\* (candidates.go:60-79), but none that a triggered pattern of it does not claim.
LEMMA SupportIsClaimed ==
    ASSUME NEW patterns, NEW items, NEW stated, NEW category,
           NEW p \in Eligible(category, patterns, items, {})
    PROVE  Support(p, items) \intersect
               CategorySupport(category, TriggeredOf(patterns, items), items, stated)
           = Support(p, items)
<1>1. p \in TriggeredOf(patterns, items) /\ Pattern[p].category = category
    BY DEF Eligible, TriggeredOf
<1> DEFINE claimants == {q \in TriggeredOf(patterns, items) : Pattern[q].category = category}
           claimed == {Support(q, items) : q \in claimants}
           asserted == UNION {a.items : a \in {a \in stated : CategoryOf(a.property) = category}}
<1>2. CategorySupport(category, TriggeredOf(patterns, items), items, stated)
          = asserted \union UNION claimed
    BY DEF CategorySupport
<1>3. Support(p, items) \in claimed
    BY <1>1
<1> HIDE DEF claimed, asserted
<1>4. Support(p, items) \subseteq UNION claimed
    BY <1>3
<1> QED
    BY <1>2, <1>4

LEMMA StandingIsKept ==
    ASSUME NEW patterns, NEW items, NEW stated, NEW category
    PROVE  LET triggered == TriggeredOf(patterns, items)
           IN  Standing(Eligible(category, patterns, items, stated),
                        CategorySupport(category, triggered, items, stated), items)
               = Standing(Eligible(category, patterns, items, {}),
                          CategorySupport(category, triggered, items, {}), items)
<1> DEFINE eligible == Eligible(category, patterns, items, {})
           with == CategorySupport(category, TriggeredOf(patterns, items), items, stated)
           without == CategorySupport(category, TriggeredOf(patterns, items), items, {})
<1>1. Eligible(category, patterns, items, stated) = eligible
    BY DEF Eligible
<1>2. \A p \in eligible : Support(p, items) \intersect with = Support(p, items) \intersect without
    BY SupportIsClaimed
<1> HIDE DEF eligible, with, without
<1>3. Standing(eligible, with, items) = Standing(eligible, without, items)
    BY <1>2 DEF Standing
<1> QED
    BY <1>1, <1>3 DEF eligible, with, without

LEMMA OnlyAdmittedAreEligible ==
    ASSUME NEW patterns, NEW items, NEW stated, NEW category
    PROVE  Eligible(category, patterns, items, stated) # {}
               <=> category \in Admitted(patterns, items)
BY DEF Eligible, Admitted, TriggeredOf

\* The candidates are those of the admitted categories, whatever was asserted.
LEMMA CandidatesAreDraftsOf ==
    ASSUME NEW patterns, NEW items, NEW stated
    PROVE  Candidates(patterns, items, stated) = Candidates(patterns, items, {})
<1> DEFINE triggered == TriggeredOf(patterns, items)
           Cats(as) == {CategoryOf(a.property) : a \in as} \union Admitted(patterns, items)
           BestFor(c, as) == BestOf(Standing(Eligible(c, patterns, items, as),
                                        CategorySupport(c, triggered, items, as), items))
           DraftFor(p) == Draft(p, items, ObservedPath[p][Observed(p, items)])
           Named(as) == {c \in Cats(as) : Eligible(c, patterns, items, as) # {}}
<1>1. \A as : Candidates(patterns, items, as) = {DraftFor(BestFor(c, as)) : c \in Named(as)}
    BY DEF Candidates, DraftsOf, Admitted, TriggeredOf
<1>2. \A as : Named(as) = Admitted(patterns, items)
    BY OnlyAdmittedAreEligible
<1>3. \A c : BestFor(c, stated) = BestFor(c, {})
    BY StandingIsKept
<1> HIDE DEF BestFor, DraftFor, Named
<1>4. {DraftFor(BestFor(c, stated)) : c \in Named(stated)}
          = {DraftFor(BestFor(c, {})) : c \in Named({})}
    BY <1>2, <1>3
<1> QED
    BY <1>1, <1>4

\* Nothing triggers without evidence.
LEMMA NothingFromNothing ==
    ASSUME NEW patterns
    PROVE  Candidates(patterns, {}, {}) = {}
<1>1. \A p : ~Triggers(p, {})
    BY DEF Triggers, Observed
<1>2. Admitted(patterns, {}) = {}
    BY <1>1 DEF Admitted, TriggeredOf
<1>3. \A c : Eligible(c, patterns, {}, {}) = {}
    BY <1>2, OnlyAdmittedAreEligible
<1> QED
    BY <1>3 DEF Candidates, DraftsOf

\* THEOREM: for every knowledge store, the candidates of a round are those its
\* evidence makes alone (AssertionsAdmitNothing): GenerateDeterministicCandidates
\* (candidates.go:60-133) starts from the categories of assertions, counts their
\* items as support, and still neither admits nor changes anything for them.
THEOREM AssertionsAreObservations == CandidateSpec => []AssertionsAdmitNothing
<1>1. CandidateInit => AssertionsAdmitNothing
    BY NothingFromNothing DEF CandidateInit, AssertionsAdmitNothing
<1>2. AssertionsAdmitNothing /\ [CandidateNext]_candidateVars => AssertionsAdmitNothing'
    <2> SUFFICES ASSUME AssertionsAdmitNothing, [CandidateNext]_candidateVars
                 PROVE  AssertionsAdmitNothing'
        OBVIOUS
    <2>1. ASSUME NEW item \in DOMAIN Catalogue, Round(item) PROVE AssertionsAdmitNothing'
        <3> DEFINE patterns == Matched(active, evidence')
        <3>1. PICK stated \in Assertions(evidence') :
                  drafts' = Candidates(patterns, evidence', stated)
            BY <2>1 DEF Round
        <3>2. drafts' = Candidates(patterns, evidence', {})
            BY <3>1, CandidatesAreDraftsOf
        <3>3. active' = active
            BY <2>1 DEF Round
        <3> QED
            BY <3>2, <3>3 DEF AssertionsAdmitNothing
    <2>2. CASE UNCHANGED candidateVars
        BY <2>2 DEF candidateVars, AssertionsAdmitNothing
    <2> QED
        BY <2>1, <2>2 DEF CandidateNext
<1> QED
    BY <1>1, <1>2, PTL DEF CandidateSpec

-----------------------------------------------------------------------------
(* Loops *)

\* The library's least element of a well-founded relation is induction over the
\* numbers in a form that needs no operator for a parameter.
LEMMA LeastExists ==
    ASSUME NEW S, S \subseteq Nat, S # {}
    PROVE  \E n \in S : \A m \in S : n <= m
<1>1. PICK n \in S : \A m \in S : ~(<<m, n>> \in OpToRel(<, Nat))
    BY NatLessThanWellFounded, WFMin
<1>2. \A m \in S : ~(m < n)
    BY <1>1 DEF OpToRel
<1> QED
    BY <1>2

\* Up to n, after is what the loop computes.
LoopUpTo(after, step, start, s, n) ==
    after[0] = start /\ \A k \in 1..n : after[k] = step[s[k]][after[k - 1]]

\* The loop can be run to its end.
LEMMA LoopExists ==
    ASSUME NEW A, NEW B, NEW step \in [B -> [A -> A]], NEW start \in A, NEW s \in Seq(B)
    PROVE  \E after \in [0..Len(s) -> A] : LoopUpTo(after, step, start, s, Len(s))
<1> DEFINE missing == {n \in 0..Len(s) :
                          ~ \E after \in [0..n -> A] : LoopUpTo(after, step, start, s, n)}
<1>1. Len(s) \in Nat /\ \A k \in 1..Len(s) : s[k] \in B
    OBVIOUS
<1> SUFFICES ASSUME missing # {} PROVE FALSE
    BY <1>1
<1>2. PICK n \in missing : \A m \in missing : n <= m
    <2>1. missing \subseteq Nat
        BY <1>1
    <2> HIDE DEF missing
    <2> QED
        BY <2>1, LeastExists
<1>3. n # 0
    <2> SUFFICES ASSUME n = 0 PROVE FALSE
        OBVIOUS
    <2> DEFINE first == [k \in 0..0 |-> start]
    <2>1. first \in [0..0 -> A] /\ LoopUpTo(first, step, start, s, 0)
        BY DEF LoopUpTo
    <2> QED
        BY <2>1, <1>2
<1>4. n - 1 \in 0..Len(s) /\ n - 1 \notin missing /\ n \in 1..Len(s)
    BY <1>1, <1>2, <1>3
<1>5. PICK before \in [0..(n - 1) -> A] : LoopUpTo(before, step, start, s, n - 1)
    BY <1>4
<1> DEFINE next == [k \in 0..n |-> IF k = n THEN step[s[n]][before[n - 1]] ELSE before[k]]
<1>6. next \in [0..n -> A]
    <2>1. step[s[n]][before[n - 1]] \in A
        BY <1>1, <1>4, <1>5
    <2>2. \A k \in 0..n : k # n => before[k] \in A
        BY <1>1, <1>4, <1>5
    <2> QED
        BY <2>1, <2>2
<1>7. LoopUpTo(next, step, start, s, n)
    <2>1. next[0] = start
        BY <1>4, <1>5 DEF LoopUpTo
    <2>2. ASSUME NEW k \in 1..n PROVE next[k] = step[s[k]][next[k - 1]]
        <3>1. next[k - 1] = before[k - 1]
            BY <1>4
        <3>2. CASE k = n
            BY <3>1, <3>2, <1>4
        <3>3. CASE k # n
            BY <3>1, <3>3, <1>4, <1>5 DEF LoopUpTo
        <3> QED
            BY <3>2, <3>3
    <2> QED
        BY <2>1, <2>2 DEF LoopUpTo
<1> QED
    BY <1>2, <1>6, <1>7

Run(step, start, s) ==
    CHOOSE f : f = [k \in 0..Len(s) |-> IF k = 0 THEN start ELSE step[s[k]][f[k - 1]]]

\* The recursive function is such a run.
LEMMA LoopIs ==
    ASSUME NEW A, NEW B, NEW step \in [B -> [A -> A]], NEW start \in A, NEW s \in Seq(B)
    PROVE  /\ LoopUpTo(Run(step, start, s), step, start, s, Len(s))
           /\ Loop(step, start, s) = Run(step, start, s)[Len(s)]
<1> DEFINE Is(f) == f = [k \in 0..Len(s) |-> IF k = 0 THEN start ELSE step[s[k]][f[k - 1]]]
           after == CHOOSE f : Is(f)
<1>1. Loop(step, start, s) = after[Len(s)] /\ Run(step, start, s) = after
    BY DEF Loop, Run
<1>2. PICK f \in [0..Len(s) -> A] : LoopUpTo(f, step, start, s, Len(s))
    BY LoopExists
<1>3. Len(s) \in Nat
    OBVIOUS
<1>4. Is(f)
    BY <1>2, <1>3 DEF LoopUpTo
<1>5. Is(after)
    BY <1>4
<1> HIDE DEF after
<1>6. LoopUpTo(after, step, start, s, Len(s))
    BY <1>3, <1>5 DEF LoopUpTo
<1> QED
    BY <1>1, <1>6

\* Induction along a loop.
LEMMA LoopKeeps ==
    ASSUME NEW A, NEW B, NEW step \in [B -> [A -> A]], NEW start \in A, NEW s \in Seq(B),
           NEW Holds \in [0..Len(s) -> SUBSET A],
           start \in Holds[0],
           \A k \in 1..Len(s) : \A x \in Holds[k - 1] : step[s[k]][x] \in Holds[k]
    PROVE  Loop(step, start, s) \in Holds[Len(s)]
<1> DEFINE after == Run(step, start, s)
<1>1. LoopUpTo(after, step, start, s, Len(s)) /\ Loop(step, start, s) = after[Len(s)]
    BY LoopIs
<1> HIDE DEF after
<1> DEFINE failing == {n \in 0..Len(s) : after[n] \notin Holds[n]}
<1>2. Len(s) \in Nat
    OBVIOUS
<1> SUFFICES ASSUME failing # {} PROVE FALSE
    BY <1>1, <1>2
<1>3. PICK n \in failing : \A m \in failing : n <= m
    <2>1. failing \subseteq Nat
        BY <1>2
    <2> HIDE DEF failing
    <2> QED
        BY <2>1, LeastExists
<1>4. n # 0
    BY <1>1, <1>3 DEF LoopUpTo
<1>5. n - 1 \in 0..Len(s) /\ n - 1 \notin failing /\ n \in 1..Len(s)
    BY <1>2, <1>3, <1>4
<1>6. after[n] = step[s[n]][after[n - 1]]
    BY <1>1, <1>5 DEF LoopUpTo
<1> QED
    BY <1>3, <1>5, <1>6
-----------------------------------------------------------------------------
(* The choice of a context *)

\* What a choice is at any time: kinds that do not repeat each other, within the
\* limit.
Narrowed(kinds) ==
    {c \in SUBSET kinds :
        /\ Cardinality(c) <= MaxItems
        /\ \A k, l \in c : k # l => Kind[k].signature # Kind[l].signature}

LEMMA KindsAreFinite ==
    ASSUME NEW kinds, kinds \subseteq DOMAIN Kind
    PROVE  /\ IsFiniteSet(kinds) /\ Cardinality(kinds) \in Nat
           /\ \A c \in SUBSET kinds : IsFiniteSet(c) /\ Cardinality(c) \in Nat
<1>1. IsFiniteSet(DOMAIN Kind)
    <2>1. DOMAIN Kind = 1..Len(Kind) /\ Len(Kind) \in Nat
        <3>1. Kind \in Seq(Range(Kind))
            BY KindAssumption
        <3> QED
            BY <3>1
    <2> QED
        BY <2>1, FS_Interval
<1> QED
    BY <1>1, FS_Subset, FS_CardinalityType

LEMMA AddOK ==
    ASSUME NEW kinds, kinds \subseteq DOMAIN Kind, NEW c \in Narrowed(kinds), NEW kind \in kinds
    PROVE  /\ Add(c, kind) \in Narrowed(kinds) /\ c \subseteq Add(c, kind)
           /\ Add(c, kind) \subseteq c \union {kind}
           /\ Cardinality(Add(c, kind)) <= Cardinality(c) + 1
           /\ Cardinality(c) < MaxItems /\ Fresh(kind, c) => kind \in Add(c, kind)
           /\ ~(Cardinality(c) < MaxItems) => Add(c, kind) = c
<1>1. IsFiniteSet(c) /\ Cardinality(c) \in Nat /\ c \subseteq kinds /\ MaxItems \in Nat
    BY KindsAreFinite, RoundsAssumption DEF Narrowed
<1>2. CASE Cardinality(c) < MaxItems /\ Fresh(kind, c)
    <2>1. Add(c, kind) = c \union {kind}
        BY <1>2 DEF Add
    <2>2. kind \notin c
        BY <1>2 DEF Fresh
    <2>3. Cardinality(c \union {kind}) = Cardinality(c) + 1
        BY <1>1, <2>2, FS_AddElement
    <2>4. \A k, l \in c \union {kind} : k # l => Kind[k].signature # Kind[l].signature
        BY <1>2 DEF Fresh, Narrowed
    <2> QED
        BY <1>1, <1>2, <2>1, <2>3, <2>4 DEF Narrowed
<1>3. CASE ~(Cardinality(c) < MaxItems /\ Fresh(kind, c))
    <2>1. Add(c, kind) = c
        BY <1>3 DEF Add
    <2> QED
        BY <1>1, <1>3, <2>1
<1> QED
    BY <1>2, <1>3

LEMMA MinIsMember ==
    ASSUME NEW S, S \subseteq Nat, S # {}
    PROVE  Min(S) \in S /\ \A n \in S : Min(S) <= n
BY LeastExists DEF Min

LEMMA RankingOK ==
    ASSUME NEW kinds, kinds \subseteq DOMAIN Kind, NEW ranking \in Rankings(kinds)
    PROVE  /\ ranking \in Seq(DOMAIN Kind) /\ DOMAIN ranking = 1..Len(ranking)
           /\ Len(ranking) \in Nat
           /\ \A k \in 1..Len(ranking) : ranking[k] \in kinds
           /\ \A kind \in kinds : \E k \in 1..Len(ranking) : ranking[k] = kind
<1>1. Cardinality(kinds) \in Nat
    BY KindsAreFinite
<1>2. ranking \in [1..Cardinality(kinds) -> kinds] /\ Range(ranking) = kinds
    BY DEF Rankings
<1>3. Len(ranking) = Cardinality(kinds) /\ ranking \in Seq(DOMAIN Kind)
    BY <1>1, <1>2
<1> QED
    BY <1>1, <1>2, <1>3 DEF Range

\* appendBest: when no item of the modality was chosen before, and there is one
\* and room for it, one of them is chosen.
LEMMA BestOK ==
    ASSUME NEW kinds, kinds \subseteq DOMAIN Kind, NEW ranking \in Rankings(kinds),
           NEW c \in Narrowed(kinds), NEW modality
    PROVE  /\ Best(ranking, c, modality) \in Narrowed(kinds)
           /\ \/ Best(ranking, c, modality) = c
              \/ \E kind \in kinds :
                    /\ Kind[kind].modality = modality
                    /\ Best(ranking, c, modality) = Add(c, kind)
           /\ (/\ \E kind \in kinds : Kind[kind].modality = modality
               /\ \A kind \in c : Kind[kind].modality # modality
               /\ Cardinality(c) < MaxItems)
              => \E kind \in Best(ranking, c, modality) : Kind[kind].modality = modality
<1> DEFINE matching == {k \in DOMAIN ranking : /\ Kind[ranking[k]].modality = modality
                                               /\ Fresh(ranking[k], c)}
<1>1. matching \subseteq 1..Len(ranking) /\ c \subseteq DOMAIN Kind
    BY RankingOK DEF Narrowed
<1>2. CASE matching = {}
    <2>1. Best(ranking, c, modality) = c
        BY <1>2 DEF Best
    <2>2. ASSUME NEW kind \in kinds, Kind[kind].modality = modality,
                 \A other \in c : Kind[other].modality # modality
          PROVE  FALSE
        <3>1. PICK k \in 1..Len(ranking) : ranking[k] = kind
            BY RankingOK
        <3>2. Fresh(kind, c)
            BY <1>1, <2>2, KindAssumption DEF Fresh
        <3>3. k \in matching
            BY <2>2, <3>1, <3>2, RankingOK
        <3> QED
            BY <1>2, <3>3
    <2> QED
        BY <2>1, <2>2
<1>3. CASE matching # {}
    <2>1. Min(matching) \in matching
        <3>1. matching \subseteq Nat
            BY <1>1
        <3> HIDE DEF matching
        <3> QED
            BY <1>3, <3>1, MinIsMember
    <2> DEFINE kind == ranking[Min(matching)]
    <2>2. kind \in kinds /\ Kind[kind].modality = modality /\ Fresh(kind, c)
        BY <2>1, <1>1, RankingOK
    <2>3. Best(ranking, c, modality) = Add(c, kind)
        BY <1>3 DEF Best
    <2> HIDE DEF kind
    <2> QED
        BY <2>2, <2>3, AddOK
<1> QED
    BY <1>2, <1>3

\* The steps of the loops are tables of choices.
LEMMA StepsAreTables ==
    ASSUME NEW kinds, kinds \subseteq DOMAIN Kind, NEW ranking \in Rankings(kinds)
    PROVE  LET A == SUBSET DOMAIN Kind
           IN  /\ Require(ranking) \in [ToSet(Required) -> [A -> A]]
               /\ Represent \in [DOMAIN Kind -> [A -> A]]
               /\ Fill \in [DOMAIN Kind -> [A -> A]]
<1> DEFINE A == SUBSET DOMAIN Kind
<1>1. \A c \in A, kind \in DOMAIN Kind : Add(c, kind) \in A
    BY DEF Add
<1>2. ASSUME NEW c \in A, NEW modality PROVE Best(ranking, c, modality) \in A
    <2> DEFINE matching == {k \in DOMAIN ranking : /\ Kind[ranking[k]].modality = modality
                                                   /\ Fresh(ranking[k], c)}
    <2>1. CASE matching = {}
        BY <2>1 DEF Best
    <2>2. CASE matching # {}
        <3>1. matching \subseteq 1..Len(ranking)
            BY RankingOK
        <3>2. Min(matching) \in matching
            BY <2>2, <3>1, MinIsMember
        <3>3. ranking[Min(matching)] \in DOMAIN Kind
            BY <3>1, <3>2, RankingOK
        <3>4. Best(ranking, c, modality) = Add(c, ranking[Min(matching)])
            BY <2>2 DEF Best
        <3> QED
            BY <3>3, <3>4, <1>1
    <2> QED
        BY <2>1, <2>2
<1>3. Require(ranking) \in [ToSet(Required) -> [A -> A]]
    BY <1>2 DEF Require
<1>4. Represent \in [DOMAIN Kind -> [A -> A]]
    BY <1>1 DEF Represent
<1>5. Fill \in [DOMAIN Kind -> [A -> A]]
    BY <1>1 DEF Fill
<1> QED
    BY <1>3, <1>4, <1>5

\* The first loop: after i modalities there is at most one item of each of them;
\* each of the modalities that were observed is there while the limit allows it,
\* and one of telemetry in any case, for the limit is two at least.
Offers(kinds, modality) == \E kind \in kinds : Kind[kind].modality = modality

Telemetry == {"metric", "log", "trace"}

RequiredUpTo(kinds, i) ==
    {c \in Narrowed(kinds) :
        /\ Cardinality(c) <= i
        /\ \A kind \in c : \E j \in 1..i : Kind[kind].modality = Required[j]
        /\ \A k, l \in c : Kind[k].modality = Kind[l].modality => k = l
        /\ \A j \in 1..i : j <= MaxItems /\ Offers(kinds, Required[j]) => Offers(c, Required[j])
        /\ (\E j \in 2..i : Offers(kinds, Required[j])) => \E m \in Telemetry : Offers(c, m)}

LEMMA RequiredIs ==
    /\ Required \in Seq(ToSet(Required)) /\ Len(Required) = 4
    /\ Required[1] = "topology" /\ Required[2] = "metric"
    /\ Required[3] = "log" /\ Required[4] = "trace"
    /\ \A i, j \in 1..4 : i # j => Required[i] # Required[j]
BY DEF Required, ToSet

LEMMA RequireStep ==
    ASSUME NEW kinds, kinds \subseteq DOMAIN Kind, NEW ranking \in Rankings(kinds),
           NEW i \in 1..4, NEW c \in RequiredUpTo(kinds, i - 1)
    PROVE  Best(ranking, c, Required[i]) \in RequiredUpTo(kinds, i)
<1> DEFINE m == Required[i]
           best == Best(ranking, c, m)
<1>1. c \in Narrowed(kinds) /\ best \in Narrowed(kinds) /\ Cardinality(c) <= i - 1
    BY BestOK DEF RequiredUpTo
<1>2. \A kind \in c : Kind[kind].modality # m
    BY RequiredIs DEF RequiredUpTo
<1>3. /\ IsFiniteSet(c) /\ Cardinality(c) \in Nat
      /\ MaxItems \in Nat /\ MaxItems >= 2
    BY <1>1, KindsAreFinite, RoundsAssumption DEF Narrowed
<1>4. Offers(kinds, m) /\ Cardinality(c) < MaxItems => Offers(best, m)
    BY <1>1, <1>2, BestOK DEF Offers
<1> DEFINE new == best \ c
<1>5. /\ c \subseteq best /\ best = c \union new
      /\ Cardinality(best) <= Cardinality(c) + 1
      /\ \A k, l \in new : k = l
      /\ \A kind \in new : Kind[kind].modality = m
    <2>1. CASE best = c
        BY <2>1, <1>3
    <2>2. CASE best # c
        <3>1. PICK kind \in kinds : Kind[kind].modality = m /\ best = Add(c, kind)
            BY <2>2, <1>1, BestOK
        <3>2. /\ c \subseteq best /\ best \subseteq c \union {kind}
              /\ Cardinality(best) <= Cardinality(c) + 1
            BY <3>1, <1>1, AddOK
        <3> HIDE DEF best
        <3> QED
            BY <3>1, <3>2
    <2> QED
        BY <2>1, <2>2
<1> HIDE DEF best
<1>6. Cardinality(best) <= i /\ Cardinality(best) \in Nat
    BY <1>1, <1>3, <1>5, KindsAreFinite DEF Narrowed
<1>7. \A kind \in best : \E j \in 1..i : Kind[kind].modality = Required[j]
    BY <1>5 DEF RequiredUpTo
<1>8. \A k, l \in best : Kind[k].modality = Kind[l].modality => k = l
    BY <1>2, <1>5 DEF RequiredUpTo
<1>9. \A x : Offers(c, x) => Offers(best, x)
    BY <1>5 DEF Offers
<1>10. ASSUME NEW j \in 1..i, j <= MaxItems, Offers(kinds, Required[j])
       PROVE  Offers(best, Required[j])
    <2>1. CASE j = i
        BY <2>1, <1>1, <1>3, <1>4, <1>10
    <2>2. CASE j # i
        BY <2>2, <1>9, <1>10 DEF RequiredUpTo
    <2> QED
        BY <2>1, <2>2
<1>11. ASSUME NEW j \in 2..i, Offers(kinds, Required[j])
       PROVE  \E x \in Telemetry : Offers(best, x)
    <2>1. CASE \E x \in Telemetry : Offers(c, x)
        BY <2>1, <1>9
    <2>2. CASE ~ \E x \in Telemetry : Offers(c, x)
        <3>1. j = i
            BY <2>2, <1>11 DEF RequiredUpTo
        <3>2. \A kind \in c : Kind[kind].modality = "topology"
            BY <2>2, RequiredIs DEF RequiredUpTo, Telemetry, Offers
        <3>3. Cardinality(c) <= 1
            <4>1. CASE c = {}
                BY <4>1, FS_EmptySet
            <4>2. CASE c # {}
                <5>1. PICK kind \in c : c = {kind}
                    BY <4>2, <3>2 DEF RequiredUpTo
                <5>2. Cardinality({kind}) = 1
                    BY FS_Singleton
                <5> QED
                    BY <5>1, <5>2
            <4> QED
                BY <4>1, <4>2
        <3>4. Offers(best, m)
            BY <3>1, <3>3, <1>3, <1>4, <1>11
        <3> QED
            BY <3>1, <3>4, RequiredIs DEF Telemetry
    <2> QED
        BY <2>1, <2>2
<1> QED
    BY <1>1, <1>6, <1>7, <1>8, <1>10, <1>11 DEF RequiredUpTo, best

LEMMA RequiredLoop ==
    ASSUME NEW kinds, kinds \subseteq DOMAIN Kind, NEW ranking \in Rankings(kinds)
    PROVE  Loop(Require(ranking), {}, Required) \in RequiredUpTo(kinds, 4)
<1> DEFINE A == SUBSET DOMAIN Kind
           Holds == [i \in 0..Len(Required) |-> RequiredUpTo(kinds, i)]
<1>1. Require(ranking) \in [ToSet(Required) -> [A -> A]] /\ {} \in A
    BY StepsAreTables
<1>2. Holds \in [0..Len(Required) -> SUBSET A]
    <2>1. \A i : RequiredUpTo(kinds, i) \subseteq A
        BY DEF RequiredUpTo, Narrowed
    <2> QED
        BY <2>1
<1>3. {} \in Holds[0]
    <2>1. {} \in Narrowed(kinds)
        BY FS_EmptySet, RoundsAssumption DEF Narrowed
    <2>2. {} \in RequiredUpTo(kinds, 0)
        BY <2>1, FS_EmptySet DEF RequiredUpTo
    <2> QED
        BY <2>2, RequiredIs
<1>4. ASSUME NEW i \in 1..Len(Required), NEW c \in Holds[i - 1]
      PROVE  Require(ranking)[Required[i]][c] \in Holds[i]
    <2>1. i \in 1..4 /\ c \in RequiredUpTo(kinds, i - 1) /\ Holds[i] = RequiredUpTo(kinds, i)
        BY <1>4, RequiredIs
    <2>2. Required[i] \in ToSet(Required) /\ c \in A
        <3>1. Required[i] \in ToSet(Required)
            BY RequiredIs DEF ToSet
        <3> QED
            BY <3>1, <2>1 DEF RequiredUpTo, Narrowed
    <2>3. Require(ranking)[Required[i]][c] = Best(ranking, c, Required[i])
        BY <2>2 DEF Require
    <2> QED
        BY <2>1, <2>3, RequireStep
<1> HIDE DEF Holds, A
<1>5. Loop(Require(ranking), {}, Required) \in Holds[Len(Required)]
    BY <1>1, <1>2, <1>3, <1>4, RequiredIs, LoopKeeps
<1> QED
    BY <1>5, RequiredIs DEF Holds

\* The second loop: while there is room, the families of the items that were met
\* are represented, and no family is there twice.
OncePerFamily(c) ==
    \A k, l \in c : Kind[k].family # "" /\ Kind[k].family = Kind[l].family => k = l

RepresentedUpTo(kinds, required, ranking, i) ==
    {c \in Narrowed(kinds) :
        /\ required \subseteq c /\ OncePerFamily(c)
        /\ \/ ~(Cardinality(c) < MaxItems)
           \/ \A j \in 1..i : Kind[ranking[j]].family \in {""} \union Families(c)}

LEMMA RepresentStep ==
    ASSUME NEW kinds, kinds \subseteq DOMAIN Kind, NEW ranking \in Rankings(kinds),
           NEW required, NEW i \in 1..Len(ranking),
           NEW c \in RepresentedUpTo(kinds, required, ranking, i - 1)
    PROVE  Represent[ranking[i]][c] \in RepresentedUpTo(kinds, required, ranking, i)
<1> DEFINE kind == ranking[i]
           next == Represent[ranking[i]][c]
<1>1. /\ c \in Narrowed(kinds) /\ required \subseteq c /\ OncePerFamily(c)
      /\ kind \in kinds /\ kind \in DOMAIN Kind /\ c \in SUBSET DOMAIN Kind
    BY RankingOK DEF RepresentedUpTo, Narrowed
<1>2. next = IF Kind[kind].family \in {""} \union Families(c) THEN c ELSE Add(c, kind)
    BY <1>1 DEF Represent
<1>3. i - 1 \in Nat /\ \A j \in 1..i : j = i \/ j \in 1..(i - 1)
    BY RankingOK
<1> HIDE DEF next
<1>4. CASE Kind[kind].family \in {""} \union Families(c)
    <2>1. next = c
        BY <1>2, <1>4
    <2> QED
        BY <2>1, <1>1, <1>3, <1>4 DEF RepresentedUpTo, next
<1>5. CASE Kind[kind].family \notin {""} \union Families(c)
    <2>1. next = Add(c, kind)
        BY <1>2, <1>5
    <2>2. /\ next \in Narrowed(kinds) /\ c \subseteq next /\ next \subseteq c \union {kind}
          /\ Cardinality(c) < MaxItems /\ Fresh(kind, c) => kind \in next
          /\ ~(Cardinality(c) < MaxItems) => next = c
        BY <2>1, <1>1, AddOK
    <2>3. OncePerFamily(next)
        BY <2>2, <1>1, <1>5 DEF OncePerFamily, Families
    <2>4. Fresh(kind, c)
        <3>1. ASSUME NEW other \in c PROVE Kind[other].family # Kind[kind].family
            BY <1>5 DEF Families
        <3>2. \A other \in c : Kind[kind].signature # Kind[other].signature
            BY <3>1, <1>1, KindAssumption
        <3> QED
            BY <3>1, <3>2 DEF Fresh
    <2>5. CASE ~(Cardinality(c) < MaxItems)
        BY <2>2, <2>5, <1>1 DEF RepresentedUpTo, next
    <2>6. CASE Cardinality(c) < MaxItems
        <3>1. kind \in next
            BY <2>2, <2>4, <2>6
        <3>2. \A j \in 1..(i - 1) : Kind[ranking[j]].family \in {""} \union Families(c)
            BY <2>6 DEF RepresentedUpTo
        <3>3. Families(c) \subseteq Families(next) /\ Kind[kind].family \in Families(next)
            BY <2>2, <3>1 DEF Families
        <3>4. \A j \in 1..i : Kind[ranking[j]].family \in {""} \union Families(next)
            BY <3>2, <3>3, <1>3
        <3> QED
            BY <3>4, <2>2, <2>3, <1>1 DEF RepresentedUpTo, next
    <2> QED
        BY <2>5, <2>6
<1> QED
    BY <1>4, <1>5

LEMMA RepresentLoop ==
    ASSUME NEW kinds, kinds \subseteq DOMAIN Kind, NEW ranking \in Rankings(kinds),
           NEW required \in Narrowed(kinds), OncePerFamily(required)
    PROVE  Loop(Represent, required, ranking)
               \in RepresentedUpTo(kinds, required, ranking, Len(ranking))
<1> DEFINE A == SUBSET DOMAIN Kind
           Holds == [i \in 0..Len(ranking) |-> RepresentedUpTo(kinds, required, ranking, i)]
<1>1. Represent \in [DOMAIN Kind -> [A -> A]] /\ required \in A /\ ranking \in Seq(DOMAIN Kind)
    BY StepsAreTables, RankingOK DEF Narrowed
<1>2. Holds \in [0..Len(ranking) -> SUBSET A]
    <2>1. \A i : RepresentedUpTo(kinds, required, ranking, i) \subseteq A
        BY DEF RepresentedUpTo, Narrowed
    <2> QED
        BY <2>1
<1>3. required \in Holds[0]
    <2>1. required \in RepresentedUpTo(kinds, required, ranking, 0)
        BY DEF RepresentedUpTo
    <2> QED
        BY <2>1, RankingOK
<1>4. ASSUME NEW i \in 1..Len(ranking), NEW c \in Holds[i - 1]
      PROVE  Represent[ranking[i]][c] \in Holds[i]
    <2>1. /\ c \in RepresentedUpTo(kinds, required, ranking, i - 1)
          /\ Holds[i] = RepresentedUpTo(kinds, required, ranking, i)
        BY <1>4, RankingOK
    <2> QED
        BY <2>1, RepresentStep
<1>5. Len(ranking) \in Nat
    BY RankingOK
<1> HIDE DEF Holds, A
<1>6. Loop(Represent, required, ranking) \in Holds[Len(ranking)]
    BY <1>1, <1>2, <1>3, <1>4, LoopKeeps
<1> QED
    BY <1>5, <1>6 DEF Holds

\* The third loop adds nothing to a choice that is full.
LEMMA FillLoop ==
    ASSUME NEW kinds, kinds \subseteq DOMAIN Kind, NEW ranking \in Rankings(kinds),
           NEW c \in Narrowed(kinds)
    PROVE  LET filled == Loop(Fill, c, ranking)
           IN  /\ filled \in Narrowed(kinds) /\ c \subseteq filled
               /\ ~(Cardinality(c) < MaxItems) => filled = c
<1> DEFINE A == SUBSET DOMAIN Kind
           I == {d \in Narrowed(kinds) : c \subseteq d /\ (~(Cardinality(c) < MaxItems) => d = c)}
           Holds == [i \in 0..Len(ranking) |-> I]
<1>1. Fill \in [DOMAIN Kind -> [A -> A]] /\ c \in A /\ ranking \in Seq(DOMAIN Kind)
    BY StepsAreTables, RankingOK DEF Narrowed
<1>2. Holds \in [0..Len(ranking) -> SUBSET A]
    BY DEF Narrowed
<1>3. c \in Holds[0]
    BY RankingOK
<1>4. ASSUME NEW i \in 1..Len(ranking), NEW d \in Holds[i - 1]
      PROVE  Fill[ranking[i]][d] \in Holds[i]
    <2>1. d \in I /\ Holds[i] = I /\ ranking[i] \in kinds /\ d \in A /\ ranking[i] \in DOMAIN Kind
        BY <1>4, RankingOK DEF Narrowed
    <2>2. Fill[ranking[i]][d] = Add(d, ranking[i])
        BY <2>1 DEF Fill
    <2>3. Add(d, ranking[i]) \in I
        BY <2>1, AddOK
    <2> QED
        BY <2>1, <2>2, <2>3
<1>5. Len(ranking) \in Nat /\ Holds[Len(ranking)] = I
    BY RankingOK
<1> HIDE DEF Holds, A
<1>6. Loop(Fill, c, ranking) \in Holds[Len(ranking)]
    BY <1>1, <1>2, <1>3, <1>4, LoopKeeps
<1> QED
    BY <1>5, <1>6

\* What any ranking narrows the kinds to: no two items repeat each other, a family
\* of metrics is there twice only when none is missing, and what makes the evidence
\* admissible is kept, for any limit; each modality is, when the limit allows it.
LEMMA PreservedOK ==
    ASSUME NEW kinds, kinds \subseteq DOMAIN Kind, NEW ranking \in Rankings(kinds)
    PROVE  LET c == Preserved(ranking)
           IN  /\ c \in Narrowed(kinds)
               /\ OncePerFamily(c) \/ Families(kinds) \subseteq Families(c) \union {""}
               /\ Admissible(kinds) => Admissible(c)
               /\ MaxItems >= 4 =>
                     \A kind \in kinds : Kind[kind].modality # "" => Offers(c, Kind[kind].modality)
<1> DEFINE required == Loop(Require(ranking), {}, Required)
           represented == Loop(Represent, required, ranking)
           c == Preserved(ranking)
<1>1. required \in RequiredUpTo(kinds, 4)
    BY RequiredLoop
<1> HIDE DEF required
<1>2. required \in Narrowed(kinds) /\ OncePerFamily(required)
    <2>1. required \in Narrowed(kinds) /\ required \subseteq DOMAIN Kind
        BY <1>1 DEF RequiredUpTo, Narrowed
    <2>2. \A kind \in required : Kind[kind].family # "" => Kind[kind].modality = "metric"
        BY <2>1, KindAssumption
    <2>3. \A k, l \in required : Kind[k].modality = Kind[l].modality => k = l
        BY <1>1 DEF RequiredUpTo
    <2> QED
        BY <2>1, <2>2, <2>3 DEF OncePerFamily
<1>3. represented \in RepresentedUpTo(kinds, required, ranking, Len(ranking))
    BY <1>2, RepresentLoop
<1> HIDE DEF represented
<1>4. represented \in Narrowed(kinds) /\ required \subseteq represented /\ OncePerFamily(represented)
    BY <1>3 DEF RepresentedUpTo
<1>5. c = Loop(Fill, represented, ranking)
    BY DEF Preserved, represented, required
<1>6. /\ c \in Narrowed(kinds) /\ represented \subseteq c
      /\ ~(Cardinality(represented) < MaxItems) => c = represented
    BY <1>4, <1>5, FillLoop
<1> HIDE DEF c
<1>7. \A m : Offers(required, m) => Offers(c, m)
    BY <1>4, <1>6 DEF Offers
<1>8. OncePerFamily(c) \/ Families(kinds) \subseteq Families(c) \union {""}
    <2>1. CASE ~(Cardinality(represented) < MaxItems)
        BY <2>1, <1>4, <1>6
    <2>2. CASE Cardinality(represented) < MaxItems
        <3>1. \A j \in 1..Len(ranking) : Kind[ranking[j]].family \in {""} \union Families(represented)
            BY <2>2, <1>3 DEF RepresentedUpTo
        <3>2. \A kind \in kinds : Kind[kind].family \in {""} \union Families(represented)
            <4> TAKE kind \in kinds
            <4>1. PICK j \in 1..Len(ranking) : ranking[j] = kind
                BY RankingOK
            <4> QED
                BY <4>1, <3>1
        <3> QED
            BY <3>2, <1>6 DEF Families
    <2> QED
        BY <2>1, <2>2
<1>9. ASSUME Admissible(kinds) PROVE Admissible(c)
    <2>1. Offers(kinds, "topology") /\ \E m \in Telemetry : Offers(kinds, m)
        BY <1>9 DEF Admissible, Offers, Telemetry
    <2>2. Offers(required, "topology")
        <3>1. 1 \in 1..4 /\ 1 <= MaxItems /\ Required[1] = "topology"
            BY RequiredIs, RoundsAssumption
        <3> QED
            BY <3>1, <2>1, <1>1 DEF RequiredUpTo
    <2>3. \E j \in 2..4 : Offers(kinds, Required[j])
        BY <2>1, RequiredIs DEF Telemetry
    <2>4. \E m \in Telemetry : Offers(required, m)
        BY <2>3, <1>1 DEF RequiredUpTo
    <2> QED
        BY <2>2, <2>4, <1>7 DEF Admissible, Offers, Telemetry
<1>10. ASSUME MaxItems >= 4, NEW kind \in kinds, Kind[kind].modality # ""
       PROVE  Offers(c, Kind[kind].modality)
    <2>1. \E j \in 1..4 : Kind[kind].modality = Required[j]
        <3>1. Kind[kind].modality \in {"topology", "metric", "log", "trace"}
            BY <1>10, KindAssumption
        <3> QED
            BY <3>1, RequiredIs
    <2>2. PICK j \in 1..4 : Kind[kind].modality = Required[j]
        BY <2>1
    <2>3. j <= MaxItems
        <3>1. MaxItems \in Nat /\ MaxItems >= 4
            BY <1>10, RoundsAssumption
        <3> QED
            BY <3>1
    <2>4. Offers(kinds, Required[j])
        BY <2>2 DEF Offers
    <2>5. Offers(required, Required[j])
        BY <2>3, <2>4, <1>1 DEF RequiredUpTo
    <2> QED
        BY <2>2, <2>5, <1>7
<1> QED
    BY <1>6, <1>8, <1>9, <1>10 DEF c

-----------------------------------------------------------------------------
(* The rounds *)

\* Items lie in the past, and nothing was observed before the first round.
RoundsTypeOK ==
    /\ now \in Nat
    /\ \A item \in observations : item.kind \in DOMAIN Kind /\ item.at \in Int /\ item.at < now
    /\ now = 0 => observations = {} /\ assertions = {}
    /\ \A a \in assertions : a.lastSeen \in Int

\* A contradicted assertion keeps a normal reading in the window, whether the
\* evidence can be ranked or not.
ContradictionHasReading ==
    \A a \in assertions : a.status = "CONTRADICTED" =>
        NormalOf(ReadingsOf(a.property, InWindow(observations))) # {}

RoundsInv == RoundsTypeOK /\ ContradictionHasReading /\ ContradictionIsEarned

LEMMA MaxIsMember ==
    ASSUME NEW S, S \subseteq Int, S # {}, NEW bound \in Int, \A x \in S : x <= bound
    PROVE  Max(S) \in S /\ \A x \in S : x <= Max(S)
<1> DEFINE below == {bound - x : x \in S}
<1>1. below \subseteq Nat /\ below # {}
    <2>1. ASSUME NEW x \in S PROVE bound - x \in Nat
        <3>1. x \in Int /\ x <= bound
            OBVIOUS
        <3> QED
            BY <3>1
    <2> QED
        BY <2>1
<1>2. PICK n \in below : \A m \in below : n <= m
    <2> HIDE DEF below
    <2> QED
        BY <1>1, LeastExists
<1>3. PICK x \in S : n = bound - x
    BY <1>2
<1>4. \A y \in S : y <= x
    <2> TAKE y \in S
    <2>1. bound - x <= bound - y
        BY <1>2, <1>3
    <2> QED
        BY <2>1
<1> QED
    BY <1>3, <1>4 DEF Max

LEMMA CollectedOK ==
    ASSUME NEW collected \in Collections
    PROVE  \A item \in collected : item.kind \in DOMAIN Kind /\ item.at \in {now - 1, now}
BY DEF Collections, kSubset

LEMMA ReadingsAre ==
    ASSUME NEW property, NEW items, NEW x
    PROVE  x \in ReadingsOf(property, items) <=>
              \E item \in items : \E r \in Kind[item.kind].readings :
                  /\ r.property = property
                  /\ x = [at |-> item.at, direction |-> r.direction, strength |-> r.strength]
BY DEF ReadingsOf

\* What a round leaves of the evidence: every kind of the window stays there, for
\* a later collection of it is later than the window's begin.
LEMMA WindowOK ==
    ASSUME RoundsTypeOK, NEW collected \in Collections
    PROVE  LET items == Merge(observations, collected)
           IN  /\ \A item \in items :
                     item.kind \in DOMAIN Kind /\ item.at \in Int /\ item.at <= now
               /\ Kinds(InWindow(observations)) \subseteq Kinds(InWindow(items))
               /\ Kinds(InWindow(items)) \subseteq DOMAIN Kind
<1> DEFINE items == Merge(observations, collected)
<1>1. \A item \in collected : /\ item.kind \in DOMAIN Kind
                              /\ item.at \in {now - 1, now} /\ item.at \in Int /\ item.at <= now
    BY CollectedOK DEF RoundsTypeOK
<1>2. \A item \in items : item.kind \in DOMAIN Kind /\ item.at \in Int /\ item.at <= now
    BY <1>1 DEF Merge, RoundsTypeOK
<1>3. ASSUME NEW kind \in Kinds(InWindow(observations)) PROVE kind \in Kinds(InWindow(items))
    <2>1. PICK item \in observations : item.at >= Start /\ item.kind = kind
        BY <1>3 DEF Kinds, InWindow
    <2>2. CASE kind \in Kinds(collected)
        <3>1. PICK new \in collected : new.kind = kind
            BY <2>2 DEF Kinds
        <3>2. now >= 1
            BY <2>1 DEF RoundsTypeOK
        <3>3. new.at >= Start /\ new \in items
            BY <1>1, <3>1, <3>2 DEF RoundsTypeOK, Start, Merge
        <3> QED
            BY <3>1, <3>3 DEF Kinds, InWindow
    <2>3. CASE kind \notin Kinds(collected)
        BY <2>1, <2>3 DEF Kinds, InWindow, Merge
    <2> QED
        BY <2>2, <2>3
<1>4. Kinds(InWindow(items)) \subseteq DOMAIN Kind
    BY <1>2 DEF Kinds, InWindow
<1> QED
    BY <1>2, <1>3, <1>4

\* A property that had a normal reading in the window still has one.
LEMMA NormalReadingStays ==
    ASSUME NEW before, NEW after, Kinds(before) \subseteq Kinds(after), NEW property,
           NormalOf(ReadingsOf(property, before)) # {}
    PROVE  NormalOf(ReadingsOf(property, after)) # {}
<1>1. PICK x \in ReadingsOf(property, before) : x.direction = "normal"
    BY DEF NormalOf
<1>2. PICK item \in before : \E r \in Kind[item.kind].readings :
          /\ r.property = property
          /\ x = [at |-> item.at, direction |-> r.direction, strength |-> r.strength]
    BY <1>1, ReadingsAre
<1>3. PICK r \in Kind[item.kind].readings :
          /\ r.property = property
          /\ x = [at |-> item.at, direction |-> r.direction, strength |-> r.strength]
    BY <1>2
<1>4. PICK later \in after : later.kind = item.kind
    BY DEF Kinds
<1> DEFINE y == [at |-> later.at, direction |-> r.direction, strength |-> r.strength]
<1>5. y \in ReadingsOf(property, after)
    BY <1>3, <1>4, ReadingsAre
<1>6. y.direction = "normal"
    BY <1>1, <1>3
<1> QED
    BY <1>5, <1>6 DEF NormalOf

\* One assertion moves on (assertions.go:45): it is contradicted by this round's
\* readings, or it was before and has no abnormal reading.
LEMMA AssertedOK ==
    ASSUME now \in Nat, NEW assertion, assertion.lastSeen \in Int,
           NEW readings, \A r \in readings : r.at \in Int /\ r.at <= now
    PROVE  LET a == Asserted(assertion, readings)
           IN  /\ a.property = assertion.property /\ a.lastSeen \in Int
               /\ a.status = "CONTRADICTED" =>
                     \/ \E r \in NormalOf(readings) : \A b \in AbnormalOf(readings) : b.at < r.at
                     \/ assertion.status = "CONTRADICTED" /\ AbnormalOf(readings) = {}
<1> DEFINE a == Asserted(assertion, readings)
           times == {assertion.lastSeen} \union {r.at : r \in readings}
<1>1. a.property = assertion.property /\ a.lastSeen = Max(times)
    BY DEF Asserted
<1>2. Max(times) \in Int
    <2>1. times \subseteq Int /\ times # {}
        OBVIOUS
    <2>2. PICK bound \in Int : assertion.lastSeen <= bound /\ now <= bound
        <3>1. CASE assertion.lastSeen <= now
            BY <3>1
        <3>2. CASE now <= assertion.lastSeen
            BY <3>2
        <3> QED
            BY <3>1, <3>2
    <2>3. \A x \in times : x <= bound
        BY <2>2
    <2> HIDE DEF times
    <2>4. Max(times) \in times
        BY <2>1, <2>3, MaxIsMember
    <2> QED
        BY <2>1, <2>4
<1>3. ASSUME a.status = "CONTRADICTED"
      PROVE  \/ Contradicted(assertion, readings)
             \/ assertion.status = "CONTRADICTED" /\ AbnormalOf(readings) = {}
    BY <1>3 DEF Asserted
<1>4. ASSUME Contradicted(assertion, readings)
      PROVE  \E r \in NormalOf(readings) : \A b \in AbnormalOf(readings) : b.at < r.at
    <2>1. PICK r \in NormalOf(readings) : r.at > assertion.lastSeen
        BY <1>4 DEF Contradicted
    <2>2. \A b \in AbnormalOf(readings) : b.at <= assertion.lastSeen /\ b.at \in Int
        BY <1>4 DEF Contradicted, AbnormalOf
    <2>3. r.at \in Int
        BY DEF NormalOf
    <2> QED
        BY <2>1, <2>2, <2>3
<1> QED
    BY <1>1, <1>2, <1>3, <1>4

\* The window of the next round is that of the merged evidence.
LEMMA RankedNext ==
    ASSUME NEW collected \in Collections, Observe(collected)
    PROVE  /\ InWindow(observations)' = InWindow(Merge(observations, collected))
           /\ now' = now + 1 /\ observations' = Merge(observations, collected)
           /\ Rankable' = Admissible(Kinds(InWindow(Merge(observations, collected))))
BY DEF Observe, InWindow, Rankable, Kinds, Admissible

\* A round chooses by some ranking of the kinds in the window.
LEMMA RoundChooses ==
    ASSUME RoundsTypeOK, NEW collected \in Collections, Observe(collected)
    PROVE  LET ranked == InWindow(Merge(observations, collected))
           IN  \E ranking \in Rankings(Kinds(ranked)) :
                  IF Admissible(Preserved(ranking))
                  THEN /\ context' = Preserved(ranking)
                       /\ assertions' = BuildStateAssertions(ranked)
                  ELSE UNCHANGED <<context, assertions>>
<1> DEFINE ranked == InWindow(Merge(observations, collected))
<1>1. PICK selection \in Selections :
          /\ selection[1] = Kinds(ranked)
          /\ \E chosen \in selection[2] :
                IF Admissible(chosen)
                THEN context' = chosen /\ assertions' = BuildStateAssertions(ranked)
                ELSE UNCHANGED <<context, assertions>>
    BY DEF Observe
<1> HIDE DEF ranked
<1>2. PICK kinds \in SUBSET DOMAIN Kind :
          selection = <<kinds, {Preserved(ranking) : ranking \in Rankings(kinds)}>>
    BY DEF Selections
<1>3. selection[2] = {Preserved(ranking) : ranking \in Rankings(Kinds(ranked))}
    BY <1>1, <1>2
<1> QED
    BY <1>1, <1>3 DEF ranked

\* What the choice means for the round: it is refused only when the evidence is.
LEMMA RoundIsJudged ==
    ASSUME RoundsTypeOK, NEW collected \in Collections, Observe(collected)
    PROVE  LET ranked == InWindow(Merge(observations, collected))
           IN  \/ assertions' = BuildStateAssertions(ranked)
               \/ ~Rankable' /\ assertions' = assertions
<1> DEFINE ranked == InWindow(Merge(observations, collected))
<1>1. PICK ranking \in Rankings(Kinds(ranked)) :
          IF Admissible(Preserved(ranking))
          THEN context' = Preserved(ranking) /\ assertions' = BuildStateAssertions(ranked)
          ELSE UNCHANGED <<context, assertions>>
    BY RoundChooses
<1>2. Admissible(Kinds(ranked)) => Admissible(Preserved(ranking))
    BY WindowOK, PreservedOK
<1>3. Rankable' = Admissible(Kinds(ranked))
    BY RankedNext
<1> QED
    BY <1>1, <1>2, <1>3

\* BuildStateAssertions over the merged evidence of a round.
LEMMA BuiltOK ==
    ASSUME RoundsTypeOK, ContradictionHasReading, NEW collected \in Collections,
           NEW a \in BuildStateAssertions(InWindow(Merge(observations, collected)))
    PROVE  LET readings == ReadingsOf(a.property, InWindow(Merge(observations, collected)))
           IN  /\ a.lastSeen \in Int
               /\ a.status = "CONTRADICTED" =>
                     \E r \in NormalOf(readings) : \A b \in AbnormalOf(readings) : b.at < r.at
<1> DEFINE ranked == InWindow(Merge(observations, collected))
           readings == ReadingsOf(a.property, ranked)
           known == {b.property : b \in assertions}
<1>1. PICK old \in assertions \union {NewAssertion(p) : p \in Properties(ranked) \ known} :
          a = Asserted(old, ReadingsOf(old.property, ranked))
    BY DEF BuildStateAssertions
<1>2. old.lastSeen \in Int /\ (old.status = "CONTRADICTED" => old \in assertions)
    BY <1>1 DEF RoundsTypeOK, NewAssertion, Start
<1>3. \A item \in ranked : item.at \in Int /\ item.at <= now
    BY WindowOK DEF InWindow
<1> HIDE DEF ranked
<1>4. \A r \in ReadingsOf(old.property, ranked) : r.at \in Int /\ r.at <= now
    <2> TAKE r \in ReadingsOf(old.property, ranked)
    <2>1. PICK item \in ranked : \E s \in Kind[item.kind].readings :
              r = [at |-> item.at, direction |-> s.direction, strength |-> s.strength]
        BY ReadingsAre
    <2>2. r.at = item.at
        BY <2>1
    <2> QED
        BY <2>2, <1>3
<1>5. now \in Nat
    BY DEF RoundsTypeOK
<1>6. /\ a.property = old.property /\ a.lastSeen \in Int
      /\ a.status = "CONTRADICTED" =>
            \/ \E r \in NormalOf(readings) : \A b \in AbnormalOf(readings) : b.at < r.at
            \/ old.status = "CONTRADICTED" /\ AbnormalOf(readings) = {}
    BY <1>1, <1>2, <1>4, <1>5, AssertedOK
<1>7. ASSUME old.status = "CONTRADICTED" PROVE NormalOf(readings) # {}
    <2>1. NormalOf(ReadingsOf(old.property, InWindow(observations))) # {}
        BY <1>2, <1>7 DEF ContradictionHasReading
    <2>2. Kinds(InWindow(observations)) \subseteq Kinds(ranked)
        BY WindowOK DEF ranked
    <2>3. NormalOf(ReadingsOf(old.property, ranked)) # {}
        BY <2>1, <2>2, NormalReadingStays
    <2> QED
        BY <2>3, <1>6
<1> HIDE DEF readings
<1>8. ASSUME a.status = "CONTRADICTED"
      PROVE  \E r \in NormalOf(readings) : \A b \in AbnormalOf(readings) : b.at < r.at
    BY <1>6, <1>7, <1>8
<1> QED
    BY <1>6, <1>8 DEF readings, ranked

LEMMA RoundsTypePreserved ==
    ASSUME RoundsTypeOK, ContradictionHasReading, NEW collected \in Collections,
           Observe(collected)
    PROVE  RoundsTypeOK'
<1>1. now' \in Nat /\ now' = now + 1 /\ now' # 0
    BY RankedNext DEF RoundsTypeOK
<1>2. \A item \in observations' : item.kind \in DOMAIN Kind /\ item.at \in Int /\ item.at < now'
    <2>1. \A item \in observations' : item.kind \in DOMAIN Kind /\ item.at \in Int /\ item.at <= now
        BY RankedNext, WindowOK
    <2>2. now \in Int
        BY DEF RoundsTypeOK
    <2> QED
        BY <1>1, <2>1, <2>2
<1>3. \A a \in assertions' : a.lastSeen \in Int
    BY RoundIsJudged, BuiltOK DEF RoundsTypeOK
<1> QED
    BY <1>1, <1>2, <1>3 DEF RoundsTypeOK

LEMMA ContradictionPreserved ==
    ASSUME RoundsTypeOK, ContradictionHasReading, NEW collected \in Collections,
           Observe(collected)
    PROVE  ContradictionHasReading' /\ ContradictionIsEarned'
<1> DEFINE ranked == InWindow(Merge(observations, collected))
<1>1. InWindow(observations)' = ranked
    BY RankedNext
<1>2. \A p : ReadingsOf(p, InWindow(observations))' = ReadingsOf(p, ranked)
    BY <1>1 DEF ReadingsOf
<1>3. CASE assertions' = BuildStateAssertions(ranked)
    <2>1. ASSUME NEW a \in assertions', a.status = "CONTRADICTED"
          PROVE  LET readings == ReadingsOf(a.property, ranked)
                 IN  \E r \in NormalOf(readings) : \A b \in AbnormalOf(readings) : b.at < r.at
        BY <1>3, <2>1, BuiltOK
    <2> HIDE DEF ranked
    <2>2. ContradictionHasReading'
        BY <2>1, <1>1 DEF ContradictionHasReading, ReadingsOf, NormalOf
    <2>3. ContradictionIsEarned'
        BY <2>1, <1>1 DEF ContradictionIsEarned, ReadingsOf, NormalOf, AbnormalOf
    <2> QED
        BY <2>2, <2>3
<1>4. CASE ~Rankable' /\ assertions' = assertions
    <2>1. Kinds(InWindow(observations)) \subseteq Kinds(ranked)
        BY WindowOK
    <2> HIDE DEF ranked
    <2>2. \A a \in assertions : a.status = "CONTRADICTED" =>
              NormalOf(ReadingsOf(a.property, ranked)) # {}
        BY <2>1, NormalReadingStays DEF ContradictionHasReading
    <2>3. ContradictionHasReading'
        BY <2>2, <1>1, <1>4 DEF ContradictionHasReading, ReadingsOf, NormalOf
    <2>4. ContradictionIsEarned'
        BY <1>4 DEF ContradictionIsEarned
    <2> QED
        BY <2>3, <2>4
<1> QED
    BY <1>3, <1>4, RoundIsJudged

LEMMA RoundsInvariant == RoundSpec => []RoundsInv
<1>1. RoundInit => RoundsInv
    BY DEF RoundInit, RoundsInv, RoundsTypeOK, ContradictionHasReading, ContradictionIsEarned, Start
<1>2. RoundsInv /\ [RoundNext]_roundVars => RoundsInv'
    <2> SUFFICES ASSUME RoundsInv, [RoundNext]_roundVars PROVE RoundsInv'
        OBVIOUS
    <2>1. ASSUME NEW collected \in Collections, Observe(collected) PROVE RoundsInv'
        BY <2>1, RoundsTypePreserved, ContradictionPreserved DEF RoundsInv
    <2>2. CASE UNCHANGED roundVars
        <3>1. RoundsTypeOK'
            BY <2>2 DEF roundVars, RoundsInv, RoundsTypeOK
        <3>2. ContradictionHasReading'
            BY <2>2 DEF roundVars, RoundsInv, ContradictionHasReading, ReadingsOf, NormalOf, InWindow
        <3>3. ContradictionIsEarned'
            BY <2>2 DEF roundVars, RoundsInv, ContradictionIsEarned, ReadingsOf, NormalOf,
                        AbnormalOf, InWindow, Rankable, Admissible, Kinds
        <3> QED
            BY <3>1, <3>2, <3>3 DEF RoundsInv
    <2> QED
        BY <2>1, <2>2 DEF RoundNext
<1> QED
    BY <1>1, <1>2, PTL DEF RoundSpec

\* THEOREM: an assertion that is contradicted has a normal reading newer than every
\* abnormal one (ContradictionIsEarned), after any rounds of any kinds of items:
\* BuildStateAssertions (assertions.go:31-105) decides it for the readings of one
\* round, and a later collection that replaces an item of the window leaves its
\* reading there.
THEOREM ContradictionEarned == RoundSpec => []ContradictionIsEarned
<1>1. RoundsInv => ContradictionIsEarned
    BY DEF RoundsInv
<1> QED
    BY <1>1, RoundsInvariant, PTL

\* The choice of a round stands for the evidence, if the limit has a place for
\* each of the four modalities.
LEMMA ChoiceIsRepresentative ==
    ASSUME MaxItems >= 4, RoundsTypeOK, NEW collected \in Collections, Observe(collected)
    PROVE  ContextIsRepresentative'
<1> SUFFICES ASSUME Rankable' PROVE ContextIsRepresentative'
    BY DEF ContextIsRepresentative
<1> DEFINE ranked == InWindow(Merge(observations, collected))
           present == Kinds(ranked)
<1>1. PICK ranking \in Rankings(present) :
          IF Admissible(Preserved(ranking))
          THEN context' = Preserved(ranking) /\ assertions' = BuildStateAssertions(ranked)
          ELSE UNCHANGED <<context, assertions>>
    BY RoundChooses
<1>2. present \subseteq DOMAIN Kind
    BY WindowOK
<1>3. Kinds(InWindow(observations))' = present /\ Admissible(present)
    BY RankedNext DEF Kinds
<1> HIDE DEF ranked, present
<1> DEFINE c == Preserved(ranking)
<1>4. /\ c \in Narrowed(present)
      /\ OncePerFamily(c) \/ Families(present) \subseteq Families(c) \union {""}
      /\ Admissible(c)
      /\ \A kind \in present : Kind[kind].modality # "" => Offers(c, Kind[kind].modality)
    BY <1>2, <1>3, PreservedOK
<1>5. context' = c
    BY <1>1, <1>4
<1> HIDE DEF c
<1>6. /\ c \subseteq present /\ Cardinality(c) <= MaxItems
      /\ \A k, l \in c : k # l => Kind[k].signature # Kind[l].signature
    BY <1>4 DEF Narrowed
<1>7. {Kind[k].modality : k \in present} \ {""} \subseteq {Kind[k].modality : k \in c}
    BY <1>4 DEF Offers
<1>8. (\E k, l \in c : k # l /\ Kind[k].family # "" /\ Kind[k].family = Kind[l].family)
          => Families(present) \subseteq Families(c) \union {""}
    BY <1>4 DEF OncePerFamily
<1> QED
    BY <1>3, <1>5, <1>6, <1>7, <1>8 DEF ContextIsRepresentative, Families

\* THEOREM: whatever is scored how, the items a model may see stand for the evidence
\* (ContextIsRepresentative) whenever the limit is four or more: the loops of
\* preserveRequiredSources (engine.go:342-433) keep what the earlier ones chose.
\* config.go:275 also admits the limits two and three, which have no place for
\* every modality.
THEOREM ContextRepresents == MaxItems >= 4 => (RoundSpec => []ContextIsRepresentative)
<1> SUFFICES ASSUME MaxItems >= 4 PROVE RoundSpec => []ContextIsRepresentative
    OBVIOUS
<1>1. RoundInit => ContextIsRepresentative
    BY DEF RoundInit, ContextIsRepresentative, Rankable, Admissible, Kinds, InWindow
<1>2. ContextIsRepresentative /\ RoundsInv /\ [RoundNext]_roundVars => ContextIsRepresentative'
    <2> SUFFICES ASSUME ContextIsRepresentative, RoundsInv, [RoundNext]_roundVars
                 PROVE  ContextIsRepresentative'
        OBVIOUS
    <2>1. ASSUME NEW collected \in Collections, Observe(collected) PROVE ContextIsRepresentative'
        BY <2>1, ChoiceIsRepresentative DEF RoundsInv
    <2>2. CASE UNCHANGED roundVars
        BY <2>2 DEF roundVars, ContextIsRepresentative, Rankable, Admissible, Kinds, InWindow, Families
    <2> QED
        BY <2>1, <2>2 DEF RoundNext
<1> QED
    BY <1>1, <1>2, RoundsInvariant, PTL DEF RoundSpec

-----------------------------------------------------------------------------
(* The verification *)

\* Of finitely many triples of numbers, compared place by place, one is above all
\* others when no two agree in the last place.
LEMMA HighestExists ==
    ASSUME NEW standing, NEW D, DOMAIN standing = D, IsFiniteSet(D), D # {},
           \A p \in D : standing[p] \in Nat \X Nat \X Int,
           \A p, q \in D : standing[p][3] = standing[q][3] => p = q
    PROVE  BestOf(standing) \in D
<1> DEFINE Over(p, q) ==
               \/ standing[p][1] > standing[q][1]
               \/ standing[p][1] = standing[q][1] /\ standing[p][2] > standing[q][2]
               \/ /\ standing[p][1] = standing[q][1] /\ standing[p][2] = standing[q][2]
                  /\ standing[p][3] > standing[q][3]
           above(p) == {q \in D : Over(q, p)}
<1>1. ASSUME NEW p \in D, NEW q \in D PROVE Above(standing[p], standing[q]) <=> Over(p, q)
    <2>1. standing[p] \in Nat \X Nat \X Int /\ DOMAIN standing[p] = 1..3
        OBVIOUS
    <2>2. \A k \in 1..3 : k = 1 \/ k = 2 \/ k = 3
        OBVIOUS
    <2>3. 1..(1 - 1) = {} /\ 1..(2 - 1) = {1} /\ 1..(3 - 1) = {1, 2}
        OBVIOUS
    <2> DEFINE At(k) == standing[p][k] > standing[q][k] /\ \A j \in 1..(k - 1) : standing[p][j] = standing[q][j]
    <2>4. Above(standing[p], standing[q]) <=> \E k \in 1..3 : At(k)
        BY <2>1 DEF Above
    <2>5. /\ At(1) <=> standing[p][1] > standing[q][1]
          /\ At(2) <=> standing[p][1] = standing[q][1] /\ standing[p][2] > standing[q][2]
          /\ At(3) <=> /\ standing[p][1] = standing[q][1] /\ standing[p][2] = standing[q][2]
                       /\ standing[p][3] > standing[q][3]
        BY <2>3
    <2> HIDE DEF At
    <2> QED
        BY <2>2, <2>4, <2>5
<1>2. \A p \in D : standing[p][1] \in Int /\ standing[p][2] \in Int /\ standing[p][3] \in Int
    OBVIOUS
<1>3. ASSUME NEW p \in D, NEW q \in D, NEW r \in D, Over(r, q), Over(q, p) PROVE Over(r, p)
    BY <1>2, <1>3
<1>4. \A p \in D : ~Over(p, p)
    BY <1>2
<1>5. ASSUME NEW p \in D, NEW q \in D, p # q PROVE Over(p, q) \/ Over(q, p)
    BY <1>2, <1>5
<1> HIDE DEF Over
<1>6. \A p \in D : IsFiniteSet(above(p)) /\ Cardinality(above(p)) \in Nat
    <2> TAKE p \in D
    <2>1. IsFiniteSet(above(p))
        BY FS_Subset
    <2> QED
        BY <2>1, FS_CardinalityType
<1> DEFINE counts == {Cardinality(above(p)) : p \in D}
<1>7. PICK n \in counts : \A m \in counts : n <= m
    <2>1. counts \subseteq Nat /\ counts # {}
        <3> HIDE DEF above
        <3> QED
            BY <1>6
    <2> HIDE DEF counts
    <2> QED
        BY <2>1, LeastExists
<1>8. PICK p \in D : n = Cardinality(above(p))
    BY <1>7
<1>9. above(p) = {}
    <2> SUFFICES ASSUME NEW q \in above(p) PROVE FALSE
        OBVIOUS
    <2>1. above(q) \subseteq above(p) /\ q \notin above(q)
        BY <1>3, <1>4
    <2>2. Cardinality(above(q)) \in counts
        OBVIOUS
    <2>3. Cardinality(above(p)) <= Cardinality(above(q))
        BY <1>7, <1>8, <2>2
    <2>4. Cardinality(above(q)) < Cardinality(above(p))
        <3>1. above(q) # above(p) /\ IsFiniteSet(above(p))
            BY <2>1, <1>6
        <3> HIDE DEF above
        <3>2. Cardinality(above(q)) <= Cardinality(above(p))
              /\ (Cardinality(above(q)) = Cardinality(above(p)) => above(q) = above(p))
            BY <2>1, <3>1, FS_Subset
        <3>3. q \in D
            BY DEF above
        <3> QED
            BY <1>6, <3>1, <3>2, <3>3
    <2>5. q \in D
        OBVIOUS
    <2> HIDE DEF above
    <2> QED
        BY <1>6, <2>3, <2>4, <2>5
<1>10. \A q \in DOMAIN standing \ {p} : Above(standing[p], standing[q])
    <2> TAKE q \in DOMAIN standing \ {p}
    <2>1. Over(p, q)
        BY <1>5, <1>9
    <2> QED
        BY <1>1, <2>1
<1>11. BestOf(standing) = CHOOSE x \in D : \A y \in D \ {x} : Above(standing[x], standing[y])
    BY DEF BestOf
<1> QED
    BY <1>10, <1>11

LEMMA AdmissionIsNamed ==
    ASSUME NEW p \in Patterns, NEW id \in Admission[p]
    PROVE  \E n \in Pattern[p].nodes : n.id = id /\ n.type \in {"cause", "mechanism"}
<1>1. Admission[p] = Admits(Pattern[p])
    BY DEF Admission
<1> QED
    BY <1>1 DEF Admits, RootCauses

LEMMA BestIsEligible ==
    ASSUME StoreAssumption, NEW patterns, patterns \subseteq Patterns,
           NEW items, items \subseteq DOMAIN Catalogue, NEW stated, NEW category, NEW support,
           Eligible(category, patterns, items, stated) # {}
    PROVE  BestOf(Standing(Eligible(category, patterns, items, stated), support, items))
               \in Eligible(category, patterns, items, stated)
<1> DEFINE E == Eligible(category, patterns, items, stated)
           standing == Standing(E, support, items)
<1>1. E \subseteq patterns /\ E \subseteq Patterns /\ E \subseteq Nat
    BY DEF Eligible, StoreAssumption
<1>2. IsFiniteSet(E)
    BY <1>1, FS_Subset DEF StoreAssumption
<1> HIDE DEF E
<1>3. DOMAIN standing = E
    BY DEF Standing
<1>4. ASSUME NEW p \in E
      PROVE  standing[p] \in Nat \X Nat \X Int /\ standing[p][3] = -p
    <2> DEFINE A == Observed(p, items) \intersect Admission[p]
               B == Support(p, items) \intersect support
    <2>1. IsFiniteSet(A)
        <3>1. A \subseteq Ids(Pattern[p])
            <4>1. \A id \in A : \E n \in Pattern[p].nodes : n.id = id
                BY <1>1, AdmissionIsNamed
            <4> QED
                BY <4>1 DEF Ids
        <3>2. IsFiniteSet(Ids(Pattern[p]))
            BY <1>1 DEF StoreAssumption
        <3> QED
            BY <3>1, <3>2, FS_Subset
    <2>2. IsFiniteSet(B)
        <3>1. B \subseteq DOMAIN Catalogue
            BY DEF Support
        <3> QED
            BY <3>1, FS_Subset DEF StoreAssumption
    <2>3. Cardinality(A) \in Nat /\ Cardinality(B) \in Nat /\ -p \in Int
        BY <1>1, <2>1, <2>2, FS_CardinalityType
    <2>4. standing[p] = <<Cardinality(A), Cardinality(B), -p>>
        BY DEF Standing
    <2> HIDE DEF A, B, standing
    <2> QED
        BY <2>3, <2>4
<1>5. \A p, q \in E : standing[p][3] = standing[q][3] => p = q
    <2> HIDE DEF standing
    <2> QED
        BY <1>1, <1>4
<1>6. E # {}
    BY DEF E
<1>7. BestOf(standing) \in E
    <2> HIDE DEF standing
    <2> QED
        BY <1>2, <1>3, <1>4, <1>5, <1>6, HighestExists
<1> QED
    BY <1>7 DEF E

\* A name is of one node of its pattern.
LEMMA TypeIs ==
    ASSUME PatternsAreChains, NEW p \in Patterns, NEW n \in Pattern[p].nodes
    PROVE  TypeOf(Pattern[p], n.id) = n.type
<1>1. \A m \in Pattern[p].nodes : m.id = n.id => m = n
    BY DEF PatternsAreChains
<1>2. (CHOOSE m \in Pattern[p].nodes : m.id = n.id) = n
    BY <1>1
<1> QED
    BY <1>2 DEF TypeOf

LEMMA AdmissionTypes ==
    ASSUME PatternsAreChains, NEW p \in Patterns, NEW id \in Admission[p]
    PROVE  id \in Ids(Pattern[p]) /\ TypeOf(Pattern[p], id) \in {"cause", "mechanism"}
<1>1. PICK n \in Pattern[p].nodes : n.id = id /\ n.type \in {"cause", "mechanism"}
    BY AdmissionIsNamed
<1> QED
    BY <1>1, TypeIs DEF Ids

\* A mechanism is of one pattern.
LEMMA MechanismsAreOwn ==
    ASSUME PatternsAreChains, NEW p \in Patterns, NEW q \in Patterns, NEW n \in Pattern[p].nodes,
           n.type = "mechanism", n.id \in Ids(Pattern[q])
    PROVE  p = q
BY DEF PatternsAreChains

LEMMA LongestIsMember ==
    ASSUME StoreAssumption, NEW chains, \A c \in chains : Len(c) \in 0..MaxNodes,
           Longest(chains) # <<>>
    PROVE  Longest(chains) \in chains
<1>1. chains # {}
    BY DEF Longest
<1> DEFINE lengths == {Len(c) : c \in chains}
<1>2. Max(lengths) \in lengths /\ \A l \in lengths : l <= Max(lengths)
    <2>1. MaxNodes \in Nat /\ \A l \in 0..MaxNodes : l \in Int /\ l <= MaxNodes
        BY DEF StoreAssumption
    <2>2. lengths \subseteq 0..MaxNodes /\ lengths # {}
        BY <1>1
    <2> HIDE DEF lengths
    <2> QED
        BY <2>1, <2>2, MaxIsMember
<1> DEFINE l == Max(lengths)
<1>3. PICK c \in chains : Len(c) = l
    BY <1>2
<1>4. \A d \in chains : Len(d) <= l
    BY <1>2
<1> HIDE DEF l
<1>5. \A d \in chains : Len(d) <= Len(c)
    BY <1>3, <1>4
<1> QED
    BY <1>1, <1>5 DEF Longest

LEMMA ChainsAre ==
    ASSUME StoreAssumption, NEW pattern, NEW c \in Chains(pattern)
    PROVE  /\ Len(c) \in 1..MaxNodes /\ DOMAIN c = 1..Len(c) /\ c \in Seq(Ids(pattern))
           /\ \A k \in 1..(Len(c) - 1) : c[k + 1] \in Children(pattern, c[k])
<1>1. PICK k \in 1..MaxNodes : c \in [1..k -> Ids(pattern)]
    BY DEF Chains
<1>2. k \in Nat /\ Len(c) = k /\ c \in Seq(Ids(pattern))
    BY <1>1 DEF StoreAssumption
<1> QED
    BY <1>1, <1>2 DEF Chains

\* A path that was observed is a chain of observed nodes from an admission node on.
LEMMA ObservedPathIs ==
    ASSUME StoreAssumption, NEW p \in Patterns, NEW items \in SUBSET DOMAIN Catalogue,
           ObservedPath[p][Observed(p, items)] # <<>>
    PROVE  LET c == ObservedPath[p][Observed(p, items)]
           IN  /\ c \in Chains(Pattern[p]) /\ Len(c) >= 2
               /\ c[1] \in Admission[p] /\ ToSet(c) \subseteq Observed(p, items)
<1> DEFINE observed == Observed(p, items)
           paths == ObservedPaths(Pattern[p], Admission[p], observed)
           ending == {c \in paths : TypeOf(Pattern[p], Last(c)) = "symptom"}
           chosen == IF ending # {} THEN ending ELSE paths
<1>1. observed \in SUBSET Ids(Pattern[p])
    <2>1. \A item \in items : Shown[item][p] = ShownNodes(Catalogue[item], Pattern[p])
        BY DEF Shown
    <2>2. \A item \in items : Shown[item][p] \subseteq Ids(Pattern[p])
        BY <2>1 DEF ShownNodes, Ids
    <2> QED
        BY <2>2 DEF Observed
<1>2. ObservedPath[p][observed] = Longest(chosen)
    BY <1>1 DEF ObservedPath, PathTable, Preferred
<1>3. chosen \subseteq paths /\ paths \subseteq Chains(Pattern[p])
    BY DEF ObservedPaths
<1>4. \A c \in chosen : Len(c) \in 0..MaxNodes
    <2> HIDE DEF chosen, paths
    <2>1. \A c \in chosen : Len(c) \in 1..MaxNodes
        BY <1>3, ChainsAre
    <2> QED
        BY <2>1 DEF StoreAssumption
<1> HIDE DEF chosen
<1>5. Longest(chosen) \in paths
    BY <1>2, <1>3, <1>4, LongestIsMember
<1> QED
    BY <1>2, <1>5 DEF ObservedPaths

\* What an item shows of a pattern that is no cause, it shows by an anomaly.
LEMMA AnomalyShows ==
    ASSUME PatternsAreChains, NEW p \in Patterns, NEW item \in DOMAIN Catalogue,
           NEW id \in Shown[item][p]
    PROVE  \E n \in Pattern[p].nodes :
               /\ n.id = id /\ n.source \in {"any", Catalogue[item].source}
               /\ n.type # "cause" => \E r \in Catalogue[item].readings :
                                         r.direction = "abnormal" /\ r.signal \in n.signals
<1>1. Shown[item][p] = ShownNodes(Catalogue[item], Pattern[p])
    BY DEF Shown
<1>2. PICK n \in Pattern[p].nodes : n.id = id /\ Shows(Catalogue[item], n)
    BY <1>1 DEF ShownNodes
<1> QED
    BY <1>2 DEF Shows, Establishes

LEMMA ShownIsNamed ==
    ASSUME NEW p \in Patterns, NEW item \in DOMAIN Catalogue
    PROVE  Shown[item][p] \subseteq Ids(Pattern[p])
<1>1. Shown[item][p] = ShownNodes(Catalogue[item], Pattern[p])
    BY DEF Shown
<1> QED
    BY <1>1 DEF ShownNodes, Ids

\* An item that shows a node of the path that is no cause speaks for the path.
LEMMA AnomalySpeaks ==
    ASSUME PatternsAreChains, NEW patterns \in SUBSET Patterns, NEW p \in patterns,
           NEW items \in SUBSET DOMAIN Catalogue, NEW item \in items, NEW path,
           NEW n \in Pattern[p].nodes, n.type # "cause", n.id \in ToSet(path),
           n.id \in Shown[item][p]
    PROVE  item \in Support(p, items) /\ Voices(item, path, patterns)
<1>1. item \in Support(p, items)
    BY DEF Support
<1>2. PICK m \in Pattern[p].nodes :
          /\ m.id = n.id /\ m.source \in {"any", Catalogue[item].source}
          /\ m.type # "cause" => \E r \in Catalogue[item].readings :
                                    r.direction = "abnormal" /\ r.signal \in m.signals
    BY AnomalyShows
<1>3. m = n
    BY <1>2 DEF PatternsAreChains
<1>4. PICK r \in Catalogue[item].readings : r.direction = "abnormal" /\ r.signal \in n.signals
    BY <1>2, <1>3
<1> DEFINE all == UNION {Pattern[q].nodes : q \in patterns}
           nodes == {k \in all : k.id \in ToSet(path) /\ k.source \in {"any", Catalogue[item].source}}
           signals == UNION {k.signals : k \in nodes}
<1>5. n \in nodes
    BY <1>2, <1>3
<1>6. r.signal \in signals
    <2> HIDE DEF nodes
    <2> QED
        BY <1>4, <1>5
<1>7. n.id \in Annotation(item, patterns)
    BY DEF Annotation
<1> QED
    BY <1>1, <1>4, <1>6, <1>7 DEF Voices

\* What generation found observed, verification finds complete.
LEMMA ObservedPathsVerify ==
    ASSUME StoreAssumption, PatternsAreChains, NEW patterns \in SUBSET Patterns, NEW p \in patterns,
           NEW items \in SUBSET DOMAIN Catalogue,
           ObservedPath[p][Observed(p, items)] # <<>>
    PROVE  LET c == ObservedPath[p][Observed(p, items)]
           IN  /\ Uncovered(c, items, patterns) = {} /\ Undecided(c, items, patterns) = {}
               /\ Connected(c, patterns)
               /\ \E item \in Support(p, items) : Voices(item, c, patterns)
               /\ ToSet(c) \subseteq Ids(Pattern[p])
               /\ \E item \in Support(p, items) :
                     ToSet(c) \intersect Admission[p] \intersect Shown[item][p] # {}
<1> DEFINE c == ObservedPath[p][Observed(p, items)]
<1>1. /\ c \in Chains(Pattern[p]) /\ Len(c) >= 2 /\ c[1] \in Admission[p]
      /\ ToSet(c) \subseteq Observed(p, items)
    BY ObservedPathIs
<1> HIDE DEF c
<1>2. /\ Len(c) \in Nat /\ DOMAIN c = 1..Len(c) /\ 1 \in DOMAIN c /\ 2 \in DOMAIN c
      /\ \A k \in 1..(Len(c) - 1) : c[k + 1] \in Children(Pattern[p], c[k])
    BY <1>1, ChainsAre
<1>3. c[1] \in ToSet(c) /\ c[2] \in ToSet(c)
    BY <1>2 DEF ToSet
<1>4. \A x \in ToSet(c) : \E item \in items : x \in Shown[item][p]
    BY <1>1 DEF Observed
<1>5. \A x \in ToSet(c) : x \in Ids(Pattern[p])
    BY <1>4, ShownIsNamed
<1>6. Uncovered(c, items, patterns) = {}
    <2>1. ASSUME NEW x \in ToSet(c) PROVE x \in Annotations(items, patterns)
        <3>1. PICK item \in items : x \in Shown[item][p]
            BY <1>4
        <3>2. x \in Annotation(item, patterns)
            BY <3>1 DEF Annotation
        <3> QED
            BY <3>2 DEF Annotations
    <2> QED
        BY <2>1 DEF Uncovered
<1>7. Connected(c, patterns)
    <2> SUFFICES ASSUME NEW k \in 1..(Len(c) - 1)
                 PROVE  <<c[k], c[k + 1]>> \in UNION {Pattern[q].edges : q \in patterns}
        BY DEF Connected
    <2>1. PICK e \in Pattern[p].edges : e[1] = c[k] /\ e[2] = c[k + 1]
        BY <1>2 DEF Children
    <2>2. e = <<c[k], c[k + 1]>>
        BY <2>1 DEF StoreAssumption
    <2> QED
        BY <2>1, <2>2
<1>8. Undecided(c, items, patterns) = {}
    <2> DEFINE on == ToSet(c)
               admitting == UNION {{q} \X (Admission[q] \intersect on) : q \in patterns}
               named(type) == {a[2] : a \in {a \in admitting : TypeOf(Pattern[a[1]], a[2]) = type}}
               required == IF named("mechanism") # {} THEN named("mechanism") ELSE named("cause")
               seen == {a[2] : a \in {a \in admitting : \E i \in items : a[2] \in Shown[i][a[1]]}}
    <2>1. Undecided(c, items, patterns) = IF required \intersect seen # {} THEN {} ELSE required
        BY DEF Undecided
    <2>2. ASSUME NEW a \in admitting
          PROVE  a[1] \in patterns /\ a[2] \in Admission[a[1]] /\ a[2] \in on
        OBVIOUS
    <2>3. \A x \in Admission[p] \intersect on : <<p, x>> \in admitting
        OBVIOUS
    <2> HIDE DEF admitting, on
    <2>4. \A x \in Admission[p] \intersect on : x \in seen
        <3> TAKE x \in Admission[p] \intersect on
        <3>1. <<p, x>> \in admitting /\ \E i \in items : x \in Shown[i][p]
            BY <1>4, <2>3 DEF on
        <3>2. <<p, x>>[1] = p /\ <<p, x>>[2] = x
            OBVIOUS
        <3> QED
            BY <3>1, <3>2
    <2>5. CASE named("mechanism") # {}
        <3>1. PICK a \in admitting : TypeOf(Pattern[a[1]], a[2]) = "mechanism"
            BY <2>5
        <3>2. a[1] \in Patterns /\ a[2] \in Admission[a[1]] /\ a[2] \in on
            BY <2>2
        <3>3. PICK n \in Pattern[a[1]].nodes : n.id = a[2]
            BY <3>2, AdmissionIsNamed
        <3>4. n.type = "mechanism"
            BY <3>1, <3>2, <3>3, TypeIs
        <3>5. a[2] \in Ids(Pattern[p])
            BY <1>5, <3>2 DEF on
        <3>6. a[1] = p
            BY <3>2, <3>3, <3>4, <3>5, MechanismsAreOwn
        <3>7. a[2] \in seen
            BY <2>4, <3>2, <3>6
        <3>8. a[2] \in named("mechanism")
            BY <3>1
        <3> QED
            BY <2>1, <2>5, <3>7, <3>8
    <2>6. CASE named("mechanism") = {}
        <3>1. c[1] \in Admission[p] \intersect on
            BY <1>1, <1>3 DEF on
        <3>2. <<p, c[1]>> \in admitting /\ c[1] \in seen
            BY <2>3, <2>4, <3>1
        <3>3. <<p, c[1]>>[1] = p /\ <<p, c[1]>>[2] = c[1]
            OBVIOUS
        <3>4. c[1] \in named(TypeOf(Pattern[p], c[1]))
            BY <3>2, <3>3
        <3>5. TypeOf(Pattern[p], c[1]) = "cause" \/ TypeOf(Pattern[p], c[1]) = "mechanism"
            BY <3>1, AdmissionTypes
        <3> QED
            BY <2>1, <2>6, <3>2, <3>4, <3>5
    <2> QED
        BY <2>5, <2>6
<1>9. \E item \in Support(p, items) : Voices(item, c, patterns)
    <2>1. PICK item \in items : c[2] \in Shown[item][p]
        BY <1>3, <1>4
    <2>2. PICK n \in Pattern[p].nodes : n.id = c[2]
        BY <1>3, <1>5 DEF Ids
    <2>3. c[2] \in Children(Pattern[p], c[1])
        <3>1. 1 \in 1..(Len(c) - 1) /\ 1 + 1 = 2
            BY <1>1, <1>2
        <3>2. c[1 + 1] \in Children(Pattern[p], c[1])
            BY <1>2, <3>1
        <3> QED
            BY <3>1, <3>2
    <2>4. c[1] \in Parents(Pattern[p], n.id)
        BY <1>3, <1>5, <2>2, <2>3 DEF Children, Parents
    <2>5. n.type # "cause"
        BY <2>4 DEF PatternsAreChains
    <2> QED
        BY <1>3, <2>1, <2>2, <2>5, AnomalySpeaks
<1>10. \E item \in Support(p, items) :
           ToSet(c) \intersect Admission[p] \intersect Shown[item][p] # {}
    <2>1. PICK item \in items : c[1] \in Shown[item][p]
        BY <1>3, <1>4
    <2> QED
        BY <1>1, <1>3, <2>1 DEF Support
<1> QED
    BY <1>5, <1>6, <1>7, <1>8, <1>9, <1>10 DEF c

\* A declared path that verification finds complete is earned: the mechanism of its
\* pattern was shown, and shown for no other pattern.
LEMMA DeclaredPathsAreEarned ==
    ASSUME PatternsAreChains, NEW patterns \in SUBSET Patterns, NEW p \in patterns,
           NEW items \in SUBSET DOMAIN Catalogue, Triggers(p, items),
           Uncovered(DeclaredPath[p], items, patterns) = {}
    PROVE  LET c == DeclaredPath[p]
           IN  /\ \E item \in Support(p, items) : Voices(item, c, patterns)
               /\ ToSet(c) \subseteq Ids(Pattern[p])
               /\ \E item \in Support(p, items) :
                     ToSet(c) \intersect Admission[p] \intersect Shown[item][p] # {}
<1> DEFINE c == DeclaredPath[p]
<1>1. ToSet(c) = Ids(Pattern[p])
    BY DEF PatternsAreChains
<1>2. PICK n \in Pattern[p].nodes : n.type = "mechanism"
    BY DEF PatternsAreChains
<1>3. n.id \in ToSet(c)
    BY <1>1 DEF Ids
<1>4. n.id \in Annotations(items, patterns)
    BY <1>3 DEF Uncovered
<1>5. PICK item \in items : n.id \in Annotation(item, patterns)
    BY <1>4 DEF Annotations
<1>6. PICK q \in patterns : n.id \in Shown[item][q]
    BY <1>5 DEF Annotation
<1>7. q = p
    BY <1>2, <1>6, ShownIsNamed, MechanismsAreOwn
<1>8. item \in Support(p, items) /\ Voices(item, c, patterns)
    <2> HIDE DEF c
    <2> QED
        BY <1>2, <1>3, <1>6, <1>7, AnomalySpeaks
<1>9. \E i \in Support(p, items) : ToSet(c) \intersect Admission[p] \intersect Shown[i][p] # {}
    <2>1. PICK x \in Observed(p, items) : x \in Admission[p]
        BY DEF Triggers
    <2>2. PICK i \in items : x \in Shown[i][p]
        BY <2>1 DEF Observed
    <2>3. x \in Ids(Pattern[p])
        BY <2>2, ShownIsNamed
    <2> HIDE DEF c
    <2> QED
        BY <1>1, <2>1, <2>2, <2>3 DEF Support
<1> QED
    BY <1>1, <1>8, <1>9

\* What verification says of the draft of a triggered pattern.
VerifiedAs(v, p, items, patterns) ==
    /\ v.draft.pattern = p /\ v.draft.category = Pattern[p].category
    /\ ObservedPath[p][Observed(p, items)] # <<>> => v.missing = {} /\ v.connected
    /\ v.missing = {} =>
          /\ v.voices # {}
          /\ ToSet(v.draft.path) \subseteq UNION {Observed(q, items) : q \in patterns}
          /\ ToSet(v.draft.path) \subseteq Ids(Pattern[p])
          /\ \E item \in v.draft.support :
                ToSet(v.draft.path) \intersect Admission[p] \intersect Shown[item][p] # {}

LEMMA DraftIsVerified ==
    ASSUME StoreAssumption, PatternsAreChains, NEW patterns \in SUBSET Patterns, NEW p \in patterns,
           NEW items \in SUBSET DOMAIN Catalogue, Triggers(p, items)
    PROVE  VerifiedAs(Verdict(Draft(p, items, ObservedPath[p][Observed(p, items)]), items, patterns),
                      p, items, patterns)
<1> DEFINE v == Verdict(Draft(p, items, ObservedPath[p][Observed(p, items)]), items, patterns)
           c == ObservedPath[p][Observed(p, items)]
           path == IF c # <<>> THEN c ELSE DeclaredPath[p]
<1>1. /\ v.draft.pattern = p /\ v.draft.category = Pattern[p].category
      /\ v.draft.path = path /\ v.draft.support = Support(p, items)
      /\ v.missing = Uncovered(path, items, patterns) \union Undecided(path, items, patterns)
      /\ v.connected = Connected(path, patterns)
      /\ v.voices = {Catalogue[item].source : item \in
                        {item \in Support(p, items) : Voices(item, path, patterns)}}
    BY DEF Verdict, Draft
<1>2. c # <<>> => /\ Uncovered(c, items, patterns) = {} /\ Undecided(c, items, patterns) = {}
                  /\ Connected(c, patterns)
    BY ObservedPathsVerify
<1>3. ASSUME Uncovered(path, items, patterns) = {}
      PROVE  /\ \E item \in Support(p, items) : Voices(item, path, patterns)
             /\ ToSet(path) \subseteq Ids(Pattern[p])
             /\ \E item \in Support(p, items) :
                   ToSet(path) \intersect Admission[p] \intersect Shown[item][p] # {}
    <2>1. CASE c # <<>>
        BY <2>1, ObservedPathsVerify
    <2>2. CASE c = <<>>
        BY <1>3, <2>2, DeclaredPathsAreEarned
    <2> QED
        BY <2>1, <2>2
<1>4. ASSUME Uncovered(path, items, patterns) = {}
      PROVE  ToSet(path) \subseteq UNION {Observed(q, items) : q \in patterns}
    <2> SUFFICES ASSUME NEW x \in ToSet(path)
                 PROVE  x \in UNION {Observed(q, items) : q \in patterns}
        OBVIOUS
    <2>1. PICK item \in items : x \in Annotation(item, patterns)
        BY <1>4 DEF Uncovered, Annotations
    <2>2. PICK q \in patterns : x \in Shown[item][q]
        BY <2>1 DEF Annotation
    <2>3. x \in Observed(q, items)
        BY <2>2 DEF Observed
    <2> QED
        BY <2>3
<1>5. path = IF c # <<>> THEN c ELSE DeclaredPath[p]
    OBVIOUS
<1> HIDE DEF c, path, v
<1>6. c # <<>> => v.missing = {} /\ v.connected
    BY <1>1, <1>2, <1>5
<1>7. v.missing = {} => Uncovered(path, items, patterns) = {}
    BY <1>1
<1>8. (\E item \in Support(p, items) : Voices(item, path, patterns)) => v.voices # {}
    BY <1>1
<1> QED
    BY <1>1, <1>3, <1>4, <1>6, <1>7, <1>8 DEF c, v, VerifiedAs

\* A candidate is the draft of a triggered pattern.
LEMMA CandidateIsDraft ==
    ASSUME StoreAssumption, NEW patterns \in SUBSET Patterns,
           NEW items \in SUBSET DOMAIN Catalogue, NEW stated,
           NEW d \in Candidates(patterns, items, stated)
    PROVE  \E p \in patterns :
              Triggers(p, items) /\ d = Draft(p, items, ObservedPath[p][Observed(p, items)])
<1> DEFINE triggered == {p \in patterns : Triggers(p, items)}
           cats == {CategoryOf(a.property) : a \in stated} \union {Pattern[p].category : p \in triggered}
           BestFor(c) == BestOf(Standing(Eligible(c, patterns, items, stated),
                                         CategorySupport(c, triggered, items, stated), items))
           named == {c \in cats : Eligible(c, patterns, items, stated) # {}}
           DraftFor(p) == Draft(p, items, ObservedPath[p][Observed(p, items)])
<1>1. Candidates(patterns, items, stated) = {DraftFor(BestFor(c)) : c \in named}
    BY DEF Candidates, DraftsOf
<1>2. \A c \in named : BestFor(c) \in Eligible(c, patterns, items, stated)
    BY BestIsEligible
<1> HIDE DEF BestFor, DraftFor, named
<1>3. PICK c \in named : d = DraftFor(BestFor(c))
    BY <1>1
<1>4. BestFor(c) \in patterns /\ Triggers(BestFor(c), items)
    BY <1>2 DEF Eligible
<1> QED
    BY <1>3, <1>4 DEF DraftFor

VerificationInv ==
    active \in SUBSET Patterns /\ evidence \in SUBSET DOMAIN Catalogue /\ VerificationAgrees

LEMMA RoundIsVerified ==
    ASSUME StoreAssumption, PatternsAreChains, VerificationInv,
           NEW item \in DOMAIN Catalogue, Round(item)
    PROVE  VerificationInv'
<1> DEFINE items == evidence \union {item}
           patterns == Matched(active, items)
<1>1. /\ active \in SUBSET Patterns /\ active' = active /\ evidence' = items
      /\ items \in SUBSET DOMAIN Catalogue
    BY DEF VerificationInv, Round
<1>2. PICK stated \in Assertions(items) :
          /\ drafts' = Candidates(patterns, items, stated)
          /\ verified' = {Verdict(d, items, patterns) : d \in drafts'}
    BY DEF Round
<1>3. patterns \subseteq active /\ patterns \in SUBSET Patterns
    BY <1>1 DEF Matched
<1> HIDE DEF items, patterns
<1>4. ASSUME NEW v \in verified'
      PROVE  \E p \in patterns :
                 /\ Triggers(p, items)
                 /\ v = Verdict(Draft(p, items, ObservedPath[p][Observed(p, items)]), items, patterns)
    <2>1. PICK d \in Candidates(patterns, items, stated) : v = Verdict(d, items, patterns)
        BY <1>2
    <2>2. PICK p \in patterns :
              Triggers(p, items) /\ d = Draft(p, items, ObservedPath[p][Observed(p, items)])
        BY <1>1, <1>3, CandidateIsDraft
    <2> QED
        BY <2>1, <2>2
<1>5. ASSUME NEW v \in verified'
      PROVE  /\ ObservedPath[v.draft.pattern][Observed(v.draft.pattern, items)] # <<>>
                => v.missing = {} /\ v.connected
             /\ v.missing = {} =>
                   /\ v.voices # {}
                   /\ ToSet(v.draft.path) \subseteq UNION {Observed(q, items) : q \in active}
                   /\ \E q \in active :
                         /\ Pattern[q].category = v.draft.category
                         /\ ToSet(v.draft.path) \subseteq Ids(Pattern[q])
                         /\ \E i \in v.draft.support :
                               ToSet(v.draft.path) \intersect Admission[q] \intersect Shown[i][q] # {}
    <2>1. PICK p \in patterns :
              /\ Triggers(p, items)
              /\ v = Verdict(Draft(p, items, ObservedPath[p][Observed(p, items)]), items, patterns)
        BY <1>4
    <2>2. p \in active
        BY <1>3
    <2>3. /\ v.draft.pattern = p /\ v.draft.category = Pattern[p].category
          /\ ObservedPath[p][Observed(p, items)] # <<>> => v.missing = {} /\ v.connected
          /\ v.missing = {} =>
                /\ v.voices # {}
                /\ ToSet(v.draft.path) \subseteq UNION {Observed(q, items) : q \in patterns}
                /\ ToSet(v.draft.path) \subseteq Ids(Pattern[p])
                /\ \E i \in v.draft.support :
                      ToSet(v.draft.path) \intersect Admission[p] \intersect Shown[i][p] # {}
        <3>1. VerifiedAs(v, p, items, patterns)
            BY <1>1, <1>3, <2>1, DraftIsVerified
        <3> QED
            BY <3>1 DEF VerifiedAs
    <2>4. UNION {Observed(q, items) : q \in patterns} \subseteq UNION {Observed(q, items) : q \in active}
        BY <1>3
    <2> QED
        BY <2>2, <2>3, <2>4
<1>6. ObservedIsComplete'
    BY <1>1, <1>5 DEF ObservedIsComplete
<1>7. CompleteIsEarned'
    <2> SUFFICES ASSUME NEW v \in verified', v.missing = {}
                 PROVE  /\ v.voices # {}
                        /\ ToSet(v.draft.path) \subseteq UNION {Observed(q, evidence') : q \in active'}
                        /\ \E q \in active' :
                              /\ Pattern[q].category = v.draft.category
                              /\ ToSet(v.draft.path) \subseteq Ids(Pattern[q])
                              /\ \E i \in v.draft.support :
                                    ToSet(v.draft.path) \intersect Admission[q] \intersect Shown[i][q] # {}
        BY Zenon DEF CompleteIsEarned
    <2>1. {Observed(q, evidence') : q \in active'} = {Observed(q, items) : q \in active}
        BY <1>1
    <2>2. active' = active
        BY <1>1
    <2> QED
        BY <1>5, <2>1, <2>2
<1> QED
    BY <1>1, <1>6, <1>7 DEF VerificationInv, VerificationAgrees

\* THEOREM: for every store of chains and every evidence, what generation found
\* observed verification finds complete, and what it finds complete is earned
\* (VerificationAgrees): observedPatternPath (candidates.go:566) takes nodes that
\* annotate items, canonicalCausalCoverage (engine.go:1464) can only be full when
\* the pattern's own mechanism was shown, and that annotation is nobody else's.
THEOREM VerificationFollows == PatternsAreChains => (CandidateSpec => []VerificationAgrees)
<1>1. CandidateInit => VerificationInv
    BY StoreAssumption DEF StoreAssumption, CandidateInit, VerificationInv, VerificationAgrees,
                           ObservedIsComplete, CompleteIsEarned
<1>2. PatternsAreChains /\ VerificationInv /\ [CandidateNext]_candidateVars => VerificationInv'
    <2> SUFFICES ASSUME PatternsAreChains, VerificationInv, [CandidateNext]_candidateVars
                 PROVE  VerificationInv'
        OBVIOUS
    <2>1. ASSUME NEW item \in DOMAIN Catalogue, Round(item) PROVE VerificationInv'
        BY <2>1, StoreAssumption, RoundIsVerified
    <2>2. CASE UNCHANGED candidateVars
        BY <2>2 DEF candidateVars, VerificationInv, VerificationAgrees, ObservedIsComplete,
                    CompleteIsEarned
    <2> QED
        BY <2>1, <2>2 DEF CandidateNext
<1>3. VerificationInv => VerificationAgrees
    BY DEF VerificationInv
<1>4. SUFFICES ASSUME PatternsAreChains PROVE CandidateSpec => []VerificationAgrees
    OBVIOUS
<1>5. VerificationInv /\ [CandidateNext]_candidateVars => VerificationInv'
    BY <1>2, <1>4
<1> QED
    BY <1>1, <1>3, <1>5, PTL DEF CandidateSpec

-----------------------------------------------------------------------------
(* The conversation *)

\* A call is named by its turn and its place in the message.
CallIds == Nat \X Nat

Messages == [role : {"assistant", "tool", "user"}, calls : Seq(CallIds), size : Nat]

\* Every call has its results right behind its message, one each and in order, and
\* every result has its call.
Answered(T) ==
    /\ \A i \in DOMAIN T : T[i].role # "tool" =>
          \A c \in DOMAIN T[i].calls :
              i + c \in DOMAIN T /\ T[i + c].role = "tool" /\ T[i + c].calls = <<T[i].calls[c]>>
    /\ \A i \in DOMAIN T : T[i].role = "tool" =>
          \E j \in 1..(i - 1) : T[j].role # "tool" /\ i - j \in DOMAIN T[j].calls
    /\ \A i \in DOMAIN T : T[i].role = "user" => T[i].calls = <<>>

\* Where a unit begins, and the place behind the last message.
Starts(T) == {i \in DOMAIN T : T[i].role # "tool"} \union {Len(T) + 1}

Rest(T, s) == [k \in 1..(Len(T) + 1 - s) |-> T[s + k - 1]]

LEMMA CallsAreSequences ==
    ASSUME NEW T \in Seq(Messages), NEW i \in DOMAIN T
    PROVE  /\ i \in 1..Len(T) /\ Len(T) \in Nat
           /\ T[i].calls \in Seq(CallIds) /\ Len(T[i].calls) \in Nat
           /\ DOMAIN T[i].calls = 1..Len(T[i].calls)
<1>1. T[i] \in Messages
    OBVIOUS
<1>2. T[i].calls \in Seq(CallIds)
    BY <1>1 DEF Messages
<1> QED
    BY <1>2

LEMMA UnitEndIs ==
    ASSUME NEW T \in Seq(Messages), Answered(T), NEW i \in DOMAIN T, T[i].role # "tool"
    PROVE  UnitEnd(T, i) = i + Len(T[i].calls) /\ UnitEnd(T, i) \in i..Len(T)
<1> DEFINE e == i + Len(T[i].calls)
           S == {j \in i..Len(T) : \A k \in (i + 1)..j : Answers(T[k], T[i])}
<1>1. T[i].calls \in Seq(CallIds) /\ Len(T[i].calls) \in Nat /\ i \in 1..Len(T)
    BY CallsAreSequences
<1>2. e \in i..Len(T)
    <2>1. CASE Len(T[i].calls) = 0
        BY <1>1, <2>1
    <2>2. CASE Len(T[i].calls) > 0
        <3>1. Len(T[i].calls) \in DOMAIN T[i].calls
            BY <1>1, <2>2
        <3>2. e \in DOMAIN T
            BY <3>1 DEF Answered
        <3> QED
            BY <3>2, <1>1
    <2> QED
        BY <1>1, <2>1, <2>2
<1>3. ASSUME NEW k \in (i + 1)..e PROVE T[k].role = "tool" /\ Answers(T[k], T[i])
    <2>1. k - i \in DOMAIN T[i].calls /\ k = i + (k - i)
        BY <1>1
    <2>2. T[k].role = "tool" /\ T[k].calls = <<T[i].calls[k - i]>>
        BY <2>1 DEF Answered
    <2> QED
        BY <2>1, <2>2 DEF Answers, ToSet
<1>4. ASSUME NEW j \in S PROVE j <= e
    <2> SUFFICES ASSUME e < j PROVE FALSE
        BY <1>1
    <2>1. e + 1 \in (i + 1)..j /\ e + 1 \in DOMAIN T
        BY <1>1
    <2>2. T[e + 1].role = "tool"
        BY <2>1 DEF Answers
    <2>3. PICK r \in 1..e : T[r].role # "tool" /\ e + 1 - r \in DOMAIN T[r].calls
        BY <2>1, <2>2, <1>1 DEF Answered
    <2>4. r \in DOMAIN T
        BY <2>3, <1>1, <1>2
    <2>8. T[r].calls \in Seq(CallIds) /\ Len(T[r].calls) \in Nat
        BY <2>4, CallsAreSequences
    <2>5. ~(r > i)
        BY <2>3, <2>4, <2>8, <1>1, <1>3
    <2>6. r # i
        BY <2>3, <1>1
    <2>7. ~(r < i)
        <3> SUFFICES ASSUME r < i PROVE FALSE
            OBVIOUS
        <3>1. i - r \in DOMAIN T[r].calls /\ r + (i - r) = i
            <4> DEFINE l == Len(T[r].calls)
            <4>1. e + 1 - r \in 1..l /\ l \in Nat /\ DOMAIN T[r].calls = 1..l
                BY <2>3, <2>8
            <4>2. i \in Nat /\ r \in Nat /\ e \in Nat /\ i <= e
                BY <1>1, <1>2, <2>3
            <4> HIDE DEF l, e
            <4> QED
                BY <4>1, <4>2
        <3>2. T[r + (i - r)].role = "tool"
            BY <3>1, <2>3, <2>4 DEF Answered
        <3> QED
            BY <3>1, <3>2
    <2> QED
        BY <2>5, <2>6, <2>7, <1>1
<1>5. e \in S
    BY <1>2, <1>3
<1>6. \A x, y \in S : x \in Int
    BY <1>1
<1>7. Max(S) = e
    <2> HIDE DEF S, e
    <2>1. \A y \in S : e >= y
        BY <1>4, <1>5, <1>6
    <2>2. \A x \in S : (\A y \in S : x >= y) => x = e
        BY <2>1, <1>5, <1>6
    <2> QED
        BY <1>5, <2>1, <2>2 DEF Max
<1> QED
    BY <1>2, <1>7 DEF UnitEnd

LEMMA UnitsAre ==
    ASSUME NEW T \in Seq(Messages), Answered(T)
    PROVE  Units(T) = {<<i, i + Len(T[i].calls)>> : i \in {i \in DOMAIN T : T[i].role # "tool"}}
<1> DEFINE heads == {i \in DOMAIN T : T[i].role # "tool"}
<1>1. \A i \in heads : UnitEnd(T, i) = i + Len(T[i].calls)
    BY UnitEndIs
<1>2. \A i \in heads : i \in Nat /\ Len(T[i].calls) \in Nat
    BY CallsAreSequences
<1> HIDE DEF heads
<1>3. {<<i, UnitEnd(T, i)>> : i \in heads} = {<<i, i + Len(T[i].calls)>> : i \in heads}
    BY <1>1
<1>4. \A unit \in {<<i, i + Len(T[i].calls)>> : i \in heads} :
          unit[2] - unit[1] = Len(T[unit[1]].calls)
    BY <1>2
<1> QED
    BY <1>3, <1>4 DEF Units, heads
LEMMA StartsAre ==
    ASSUME NEW T \in Seq(Messages)
    PROVE  Len(T) \in Nat /\ DOMAIN T = 1..Len(T) /\ Starts(T) \subseteq 1..(Len(T) + 1)
BY DEF Starts

LEMMA FirstStart ==
    ASSUME NEW T \in Seq(Messages), NEW from \in 1..(Len(T) + 1)
    PROVE  \E s \in Starts(T) : from <= s /\ \A u \in Starts(T) : from <= u => s <= u
<1> DEFINE S == {s \in Starts(T) : from <= s}
<1>1. S \subseteq Nat /\ Len(T) + 1 \in S
    BY StartsAre DEF Starts
<1>2. PICK s \in S : \A u \in S : s <= u
    <2> HIDE DEF S
    <2> QED
        BY <1>1, LeastExists
<1> QED
    BY <1>2

\* What follows a beginning begins there too.
LEMMA HeadsStayBehind ==
    ASSUME NEW T \in Seq(Messages), Answered(T), NEW s \in Starts(T), NEW x \in s..Len(T),
           NEW j \in DOMAIN T, T[j].role # "tool", j <= x, x - j \in 0..Len(T[j].calls)
    PROVE  s <= j
<1> SUFFICES ASSUME j < s PROVE FALSE
    BY StartsAre
<1>1. s \in DOMAIN T /\ T[s].role # "tool"
    BY StartsAre DEF Starts
<1>2. s - j \in DOMAIN T[j].calls /\ j + (s - j) = s
    BY <1>1, StartsAre, CallsAreSequences
<1>3. T[j + (s - j)].role = "tool"
    BY <1>2 DEF Answered
<1> QED
    BY <1>1, <1>2, <1>3

LEMMA UnitsCover ==
    ASSUME NEW T \in Seq(Messages), Answered(T), NEW s \in Starts(T)
    PROVE  UNION {unit[1]..unit[2] : unit \in {u \in Units(T) : u[1] >= s}} = s..Len(T)
<1> DEFINE heads == {i \in DOMAIN T : T[i].role # "tool"}
           U == {u \in Units(T) : u[1] >= s}
           kept == UNION {unit[1]..unit[2] : unit \in U}
<1>1. Len(T) \in Nat /\ s \in 1..(Len(T) + 1)
    BY StartsAre
<1>2. ASSUME NEW x \in kept PROVE x \in s..Len(T)
    <2>1. PICK u \in U : x \in u[1]..u[2]
        OBVIOUS
    <2>2. PICK i \in heads : u = <<i, i + Len(T[i].calls)>>
        BY <2>1, UnitsAre
    <2>3. UnitEnd(T, i) = i + Len(T[i].calls) /\ UnitEnd(T, i) \in i..Len(T)
        BY <2>2, UnitEndIs
    <2>4. i \in 1..Len(T) /\ i >= s /\ x \in i..(i + Len(T[i].calls)) /\ i + Len(T[i].calls) <= Len(T)
        BY <2>1, <2>2, <2>3, <1>1
    <2> QED
        BY <2>4, <1>1, CallsAreSequences
<1>3. ASSUME NEW x \in s..Len(T) PROVE x \in kept
    <2>1. x \in DOMAIN T
        BY <1>1
    <2>2. PICK i \in heads : i <= x /\ x - i \in 0..Len(T[i].calls)
        <3>1. CASE T[x].role # "tool"
            <4>1. x \in heads /\ x - x \in 0..Len(T[x].calls)
                BY <2>1, <3>1, CallsAreSequences
            <4> QED
                BY <4>1, <2>1, <1>1
        <3>2. CASE T[x].role = "tool"
            <4>1. PICK j \in 1..(x - 1) : T[j].role # "tool" /\ x - j \in DOMAIN T[j].calls
                BY <2>1, <3>2 DEF Answered
            <4>2. j \in heads /\ j <= x
                BY <4>1, <2>1, <1>1
            <4>3. x - j \in 0..Len(T[j].calls)
                BY <4>1, <4>2, CallsAreSequences
            <4> QED
                BY <4>2, <4>3
        <3> QED
            BY <3>1, <3>2
    <2>3. s <= i
        BY <2>2, HeadsStayBehind
    <2>4. <<i, i + Len(T[i].calls)>> \in U
        BY <2>2, <2>3, UnitsAre, <1>1
    <2>5. x \in i..(i + Len(T[i].calls))
        BY <2>2, <2>1, <1>1, CallsAreSequences
    <2>6. \A u \in U : u[1]..u[2] \subseteq kept
        OBVIOUS
    <2> HIDE DEF U, kept
    <2> QED
        BY <2>4, <2>5, <2>6
<1> HIDE DEF kept
<1>4. kept = s..Len(T)
    BY <1>2, <1>3
<1> QED
    BY <1>4 DEF kept

LEMMA SinceIs ==
    ASSUME NEW T \in Seq(Messages), Answered(T), NEW from \in 1..(Len(T) + 1),
           NEW s \in Starts(T), from <= s, \A u \in Starts(T) : from <= u => s <= u
    PROVE  Since(T, from) = Rest(T, s)
<1> DEFINE kept == UNION {unit[1]..unit[2] : unit \in {u \in Units(T) : u[1] >= from}}
           n == Len(T)
<1>1. n \in Nat /\ s \in 1..(n + 1)
    BY StartsAre
<1>2. {u \in Units(T) : u[1] >= from} = {u \in Units(T) : u[1] >= s}
    <2>1. \A u \in Units(T) : u[1] \in Starts(T) /\ u[1] \in Nat
        BY UnitsAre, StartsAre DEF Starts
    <2>2. \A u \in Units(T) : u[1] >= from <=> u[1] >= s
        BY <2>1, <1>1
    <2> QED
        BY <2>2
<1>3. kept = s..n
    BY <1>2, UnitsCover
<1>4. Cardinality(s..n) = n + 1 - s
    <2>1. s \in Int /\ n \in Int /\ s <= n + 1
        BY <1>1
    <2>2. Cardinality(s..n) = IF s > n THEN 0 ELSE n - s + 1
        BY <2>1, FS_Interval
    <2> HIDE DEF n
    <2> QED
        BY <2>1, <2>2
<1>5. ASSUME NEW k \in 1..(n + 1 - s)
      PROVE  (CHOOSE i \in s..n : Cardinality({j \in s..n : j <= i}) = k) = s + k - 1
    <2>1. ASSUME NEW i \in s..n PROVE Cardinality({j \in s..n : j <= i}) = i - s + 1
        <3>1. {j \in s..n : j <= i} = s..i /\ i \in Int /\ s \in Int
            BY <1>1
        <3>2. Cardinality(s..i) = IF s > i THEN 0 ELSE i - s + 1
            BY <3>1, FS_Interval
        <3> QED
            <4>1. ~(s > i)
                BY <1>1
            <4> QED
                BY <3>1, <3>2, <4>1
    <2>2. s + k - 1 \in s..n /\ (s + k - 1) - s + 1 = k
        BY <1>1
    <2>3. \A i \in s..n : Cardinality({j \in s..n : j <= i}) = k <=> i = s + k - 1
        <3> TAKE i \in s..n
        <3>1. i \in Int /\ s \in Int /\ k \in Int
            BY <1>1
        <3>2. i - s + 1 = k <=> i = s + k - 1
            BY <3>1
        <3> QED
            BY <2>1, <3>2
    <2> HIDE DEF n
    <2> QED
        BY <2>2, <2>3
<1>6. Since(T, from) = [k \in 1..Cardinality(kept) |->
              T[CHOOSE i \in kept : Cardinality({j \in kept : j <= i}) = k]]
    BY DEF Since
<1>7. Since(T, from) = [k \in 1..(n + 1 - s) |->
              T[CHOOSE i \in s..n : Cardinality({j \in s..n : j <= i}) = k]]
    <2> HIDE DEF kept, n
    <2> QED
        BY <1>3, <1>4, <1>6
<1> QED
    <2> HIDE DEF kept
    <2> QED
        BY <1>5, <1>7 DEF Rest
LEMMA RestIsSequence ==
    ASSUME NEW T \in Seq(Messages), NEW s \in 1..(Len(T) + 1)
    PROVE  /\ Rest(T, s) \in Seq(Messages) /\ Len(Rest(T, s)) = Len(T) + 1 - s
           /\ DOMAIN Rest(T, s) = 1..(Len(T) + 1 - s)
           /\ \A k \in 1..(Len(T) + 1 - s) : Rest(T, s)[k] = T[s + k - 1] /\ s + k - 1 \in DOMAIN T
<1>1. \A k \in 1..(Len(T) + 1 - s) : s + k - 1 \in DOMAIN T
    OBVIOUS
<1>2. \A k \in 1..(Len(T) + 1 - s) : T[s + k - 1] \in Messages
    BY <1>1
<1>3. Len(T) + 1 - s \in Nat
    OBVIOUS
<1> QED
    BY <1>1, <1>2, <1>3 DEF Rest

LEMMA RestIsAnswered ==
    ASSUME NEW T \in Seq(Messages), Answered(T), NEW s \in Starts(T)
    PROVE  Answered(Rest(T, s))
<1> DEFINE R == Rest(T, s)
           n == Len(T) + 1 - s
<1>1. /\ s \in 1..(Len(T) + 1) /\ Len(T) \in Nat /\ n \in Nat
      /\ DOMAIN R = 1..n
      /\ \A k \in 1..n : R[k] = T[s + k - 1] /\ s + k - 1 \in DOMAIN T
    <2>1. s \in 1..(Len(T) + 1) /\ Len(T) \in Nat
        BY StartsAre
    <2> HIDE DEF R
    <2> QED
        BY <2>1, RestIsSequence DEF R
<1>2. ASSUME NEW i \in DOMAIN R, R[i].role # "tool", NEW c \in DOMAIN R[i].calls
      PROVE  i + c \in DOMAIN R /\ R[i + c].role = "tool" /\ R[i + c].calls = <<R[i].calls[c]>>
    <2> DEFINE h == s + i - 1
    <2>1. h \in DOMAIN T /\ R[i] = T[h] /\ h \in Nat /\ i \in Nat
        BY <1>1
    <2>2. c \in DOMAIN T[h].calls /\ c \in Nat /\ c >= 1
        BY <2>1, CallsAreSequences
    <2>3. h + c \in DOMAIN T /\ T[h + c].role = "tool" /\ T[h + c].calls = <<T[h].calls[c]>>
        BY <1>2, <2>1, <2>2 DEF Answered
    <2>4. i + c \in 1..n /\ s + (i + c) - 1 = h + c
        BY <2>2, <2>3, <1>1, StartsAre
    <2>5. R[i + c] = T[h + c]
        BY <2>4, <1>1
    <2> QED
        BY <2>1, <2>3, <2>4, <2>5, <1>1
<1>3. ASSUME NEW i \in DOMAIN R, R[i].role = "tool"
      PROVE  \E j \in 1..(i - 1) : R[j].role # "tool" /\ i - j \in DOMAIN R[j].calls
    <2> DEFINE h == s + i - 1
    <2>1. h \in DOMAIN T /\ R[i] = T[h] /\ h \in Nat /\ i \in Nat
        BY <1>1
    <2>2. PICK j \in 1..(h - 1) : T[j].role # "tool" /\ h - j \in DOMAIN T[j].calls
        BY <1>3, <2>1 DEF Answered
    <2>3. j \in DOMAIN T /\ j <= h /\ h \in s..Len(T)
        BY <2>1, <2>2, <1>1, StartsAre
    <2>4. h - j \in 0..Len(T[j].calls)
        BY <2>2, <2>3, CallsAreSequences
    <2>5. s <= j
        BY <2>2, <2>3, <2>4, HeadsStayBehind
    <2> DEFINE k == j - s + 1
    <2>6. k \in 1..(i - 1) /\ k \in 1..n /\ s + k - 1 = j /\ i - k = h - j
        BY <2>2, <2>3, <2>5, <1>1
    <2>7. R[k] = T[j]
        BY <2>6, <1>1
    <2> HIDE DEF k, h, R
    <2> QED
        BY <2>2, <2>6, <2>7
<1>4. ASSUME NEW i \in DOMAIN R, R[i].role = "user" PROVE R[i].calls = <<>>
    <2>1. s + i - 1 \in DOMAIN T /\ R[i] = T[s + i - 1]
        BY <1>1
    <2> HIDE DEF R
    <2> QED
        BY <2>1, <1>4 DEF Answered
<1> HIDE DEF R
<1>5. Answered(R)
    BY <1>2, <1>3, <1>4 DEF Answered
<1> QED
    BY <1>5 DEF R

\* The fold's own recursion, at the one set where no induction is needed.
LEMMA SizeOfNothing ==
    ASSUME NEW T, DOMAIN T = {}
    PROVE  Size(T) = 0
<1> DEFINE total == CHOOSE iter : iter = [s \in SUBSET DOMAIN T |->
                        IF s = {} THEN 0
                        ELSE LET x == CHOOSE x \in s : TRUE IN T[x].size + iter[s \ {x}]]
           zero == [s \in SUBSET DOMAIN T |-> 0]
<1>1. zero = [s \in SUBSET DOMAIN T |->
                IF s = {} THEN 0
                ELSE LET x == CHOOSE x \in s : TRUE IN T[x].size + zero[s \ {x}]]
    OBVIOUS
<1>2. total = [s \in SUBSET DOMAIN T |->
                IF s = {} THEN 0
                ELSE LET x == CHOOSE x \in s : TRUE IN T[x].size + total[s \ {x}]]
    BY <1>1
<1>3. total[DOMAIN T] = 0
    BY <1>2
<1>4. Size(T) = total[DOMAIN T]
    BY SMT DEF Size, MapThenSumSet, MapThenFoldSet
<1> QED
    BY <1>3, <1>4

\* What is shown is the rest of the history from the first beginning that fits.
LEMMA HistoryIs ==
    ASSUME NEW T \in Seq(Messages), Answered(T), HistoryAssumption
    PROVE  \E s \in Starts(T) :
              /\ History(T) = Rest(T, s)
              /\ Len(Rest(T, s)) <= MaxMessages /\ Size(Rest(T, s)) <= MaxSize
              /\ \A m \in Starts(T) :
                    Len(Rest(T, m)) <= MaxMessages /\ Size(Rest(T, m)) <= MaxSize => s <= m
<1> DEFINE fitting == {from \in 1..(Len(T) + 1) :
                          /\ Len(Since(T, from)) <= MaxMessages
                          /\ Size(Since(T, from)) <= MaxSize}
<1>1. /\ Len(T) \in Nat /\ Starts(T) \subseteq 1..(Len(T) + 1)
      /\ MaxMessages \in Nat /\ MaxSize \in Nat
    BY StartsAre DEF HistoryAssumption
<1>2. ASSUME NEW m \in Starts(T) PROVE m \in 1..(Len(T) + 1) /\ Since(T, m) = Rest(T, m)
    <2>1. m \in 1..(Len(T) + 1) /\ m <= m
        BY <1>1
    <2> QED
        BY <2>1, SinceIs
<1>3. Len(T) + 1 \in Starts(T)
    BY DEF Starts
<1>4. Len(T) + 1 \in fitting
    <2> DEFINE none == Rest(T, Len(T) + 1)
    <2>1. DOMAIN none = {} /\ Len(none) = 0
        BY <1>1, RestIsSequence
    <2>2. Size(none) = 0
        <3> HIDE DEF none
        <3> QED
            BY <2>1, SizeOfNothing
    <2>3. Since(T, Len(T) + 1) = none
        BY <1>2, <1>3
    <2> QED
        BY <1>1, <2>1, <2>2, <2>3
<1>5. Min(fitting) \in fitting /\ \A n \in fitting : Min(fitting) <= n
    <2>1. fitting \subseteq Nat
        BY <1>1
    <2> HIDE DEF fitting
    <2> QED
        BY <1>4, <2>1, MinIsMember
<1>6. History(T) = Since(T, Min(fitting))
    BY DEF History
<1> DEFINE from == Min(fitting)
<1>7. /\ from \in 1..(Len(T) + 1)
      /\ Len(Since(T, from)) <= MaxMessages /\ Size(Since(T, from)) <= MaxSize
    BY <1>5
<1> HIDE DEF from
<1>8. PICK s \in Starts(T) : from <= s /\ \A u \in Starts(T) : from <= u => s <= u
    BY <1>7, FirstStart
<1>9. Since(T, from) = Rest(T, s)
    BY <1>7, <1>8, SinceIs
<1>10. ASSUME NEW m \in Starts(T), Len(Rest(T, m)) <= MaxMessages, Size(Rest(T, m)) <= MaxSize
       PROVE  s <= m
    <2>1. m \in fitting
        BY <1>2, <1>10
    <2>2. from <= m
        <3> HIDE DEF fitting
        <3> QED
            BY <1>5, <2>1 DEF from
    <2> QED
        BY <1>8, <2>2
<1>11. History(T) = Rest(T, s)
    BY <1>6, <1>9 DEF from
<1> HIDE DEF fitting
<1> QED
    BY <1>7, <1>9, <1>10, <1>11

LEMMA AnswersExist ==
    ASSUME NEW T \in Seq(Messages), Answered(T), NEW k \in DOMAIN T, T[k].role = "tool"
    PROVE  \E j \in 1..(k - 1) : Answers(T[k], T[j])
<1>1. PICK j \in 1..(k - 1) : T[j].role # "tool" /\ k - j \in DOMAIN T[j].calls
    BY DEF Answered
<1>2. j \in DOMAIN T /\ j + (k - j) = k
    <2>1. DOMAIN T = 1..Len(T) /\ Len(T) \in Nat
        BY StartsAre
    <2>2. k \in 1..Len(T) /\ j \in Nat /\ j >= 1 /\ j < k
        BY <1>1, <2>1
    <2> QED
        BY <2>1, <2>2
<1>3. T[j + (k - j)].calls = <<T[j].calls[k - j]>>
    BY <1>1, <1>2 DEF Answered
<1>4. T[k].calls[1] \in ToSet(T[j].calls)
    BY <1>1, <1>2, <1>3 DEF ToSet
<1> QED
    BY <1>1, <1>4 DEF Answers

LEMMA LaterRestIsSuffix ==
    ASSUME NEW T \in Seq(Messages), NEW s \in 1..(Len(T) + 1), NEW m \in 1..(Len(T) + 1), s <= m
    PROVE  IsSuffix(Rest(T, m), Rest(T, s))
<1> DEFINE A == Rest(T, m)
           B == Rest(T, s)
           a == Len(T) + 1 - m
           b == Len(T) + 1 - s
<1>1. /\ A \in Seq(Messages) /\ Len(A) = a /\ \A k \in 1..a : A[k] = T[m + k - 1]
      /\ B \in Seq(Messages) /\ Len(B) = b /\ \A k \in 1..b : B[k] = T[s + k - 1]
    BY RestIsSequence
<1>2. a \in Nat /\ b \in Nat /\ a <= b
    OBVIOUS
<1>3. ASSUME NEW k \in 1..a PROVE A[a - k + 1] = B[b - k + 1]
    <2>1. /\ a - k + 1 \in 1..a /\ b - k + 1 \in 1..b
          /\ m + (a - k + 1) - 1 = s + (b - k + 1) - 1
        OBVIOUS
    <2> HIDE DEF A, B
    <2> QED
        BY <1>1, <2>1
<1>4. Reverse(A) = [k \in 1..a |-> A[a - k + 1]] /\ Reverse(B) = [k \in 1..b |-> B[b - k + 1]]
    <2> HIDE DEF A, B
    <2> QED
        BY <1>1 DEF Reverse
<1>5. \A k \in 1..a : Reverse(A)[k] = Reverse(B)[k]
    <2> HIDE DEF A, B, a, b
    <2> QED
        BY <1>2, <1>3, <1>4
<1>6. Len(Reverse(A)) = a /\ Len(Reverse(B)) = b
    <2> HIDE DEF A, B, a, b
    <2> QED
        BY <1>2, <1>4
<1>7. SubSeq(Reverse(A), 1, a) = SubSeq(Reverse(B), 1, a)
    <2>1. /\ SubSeq(Reverse(A), 1, a) = [k \in 1..a |-> Reverse(A)[k]]
          /\ SubSeq(Reverse(B), 1, a) = [k \in 1..a |-> Reverse(B)[k]]
        <3> HIDE DEF A, B, a, b
        <3> QED
            BY <1>2, <1>4, SMT
    <2> HIDE DEF A, B, a, b
    <2> QED
        BY <2>1, <1>5
<1> HIDE DEF A, B, a, b
<1>8. IsSuffix(A, B)
    BY <1>2, <1>6, <1>7 DEF IsSuffix, IsPrefix
<1> QED
    BY <1>8 DEF A, B

\* A model is shown the exchange of the last turn when that fits.
LEMMA HistoryEndsWithExchange ==
    ASSUME transcript \in Seq(Messages), Answered(transcript), HistoryAssumption
    PROVE  /\ History(transcript) \in Seq(Messages) /\ Answered(History(transcript))
           /\ Len(History(transcript)) <= MaxMessages /\ Size(History(transcript)) <= MaxSize
           /\ Len(LastExchange) <= MaxMessages /\ Size(LastExchange) <= MaxSize
              => IsSuffix(LastExchange, History(transcript))
<1> DEFINE T == transcript
           requests == {i \in DOMAIN T : T[i].role = "assistant"}
<1>1. PICK s \in Starts(T) :
          /\ History(T) = Rest(T, s)
          /\ Len(Rest(T, s)) <= MaxMessages /\ Size(Rest(T, s)) <= MaxSize
          /\ \A m \in Starts(T) :
                Len(Rest(T, m)) <= MaxMessages /\ Size(Rest(T, m)) <= MaxSize => s <= m
    BY HistoryIs
<1>2. s \in 1..(Len(T) + 1) /\ Len(T) \in Nat /\ DOMAIN T = 1..Len(T)
    BY StartsAre
<1>3. Rest(T, s) \in Seq(Messages) /\ Answered(Rest(T, s))
    BY <1>2, RestIsSequence, RestIsAnswered
<1>4. ASSUME Len(LastExchange) <= MaxMessages, Size(LastExchange) <= MaxSize
      PROVE  IsSuffix(LastExchange, Rest(T, s))
    <2>1. CASE requests = {}
        <3>1. LastExchange = <<>>
            BY <2>1 DEF LastExchange
        <3> DEFINE R == Rest(T, s)
        <3>2. R \in Seq(Messages) /\ Len(R) \in Nat
            BY <1>3
        <3>3. Reverse(R) = [i \in 1..Len(R) |-> R[(Len(R) - i) + 1]]
            BY DEF Reverse
        <3>4. Len(Reverse(R)) = Len(R)
            <4> HIDE DEF R
            <4> QED
                BY <3>2, <3>3
        <3>5. Reverse(<<>>) = <<>> /\ Len(Reverse(<<>>)) = 0
            BY DEF Reverse
        <3>6. \A q : SubSeq(q, 1, 0) = <<>>
            BY SMT
        <3> HIDE DEF R
        <3>7. IsSuffix(<<>>, R)
            BY <3>2, <3>4, <3>5, <3>6 DEF IsSuffix, IsPrefix
        <3> QED
            BY <3>1, <3>7 DEF R
    <2>2. CASE requests # {}
        <3> DEFINE m == Max(requests)
        <3>1. m \in requests
            <4>1. requests \subseteq Int /\ \A x \in requests : x <= Len(T)
                BY <1>2
            <4>2. Len(T) \in Int
                BY <1>2
            <4> HIDE DEF requests, T
            <4>3. Max(requests) \in requests
                BY <2>2, <4>1, <4>2, MaxIsMember
            <4> QED
                BY <4>3
        <3> HIDE DEF m
        <3>2. m \in 1..Len(T) /\ m \in Starts(T)
            BY <1>2, <3>1 DEF Starts
        <3>3. LastExchange = SubSeq(T, m, Len(T))
            BY <2>2 DEF LastExchange, m
        <3>4. SubSeq(T, m, Len(T)) = Rest(T, m)
            BY <1>2, <3>2 DEF Rest
        <3>5. s <= m
            BY <1>1, <1>4, <3>2, <3>3, <3>4
        <3> QED
            BY <1>2, <3>2, <3>3, <3>4, <3>5, LaterRestIsSuffix
    <2> QED
        BY <2>1, <2>2
<1> QED
    BY <1>1, <1>3, <1>4

-----------------------------------------------------------------------------
\* The conversation ends with a request whose results are to come.
Pending(T, ids) ==
    \E front \in Seq(Messages), message \in Messages :
        /\ Answered(front) /\ message.role = "assistant" /\ message.calls = ids
        /\ T = Append(front, message)

LEMMA TalkIsAnswered ==
    ASSUME NEW T \in Seq(Messages), Answered(T), NEW m \in Messages,
           m.role # "tool", m.calls = <<>>
    PROVE  Append(T, m) \in Seq(Messages) /\ Answered(Append(T, m))
<1> DEFINE A == Append(T, m)
           n == Len(T)
<1>1. /\ n \in Nat /\ DOMAIN T = 1..n /\ A \in Seq(Messages) /\ DOMAIN A = 1..(n + 1)
      /\ A[n + 1] = m /\ \A k \in 1..n : A[k] = T[k]
    OBVIOUS
<1>2. DOMAIN m.calls = {}
    OBVIOUS
<1> HIDE DEF A
<1>3. ASSUME NEW i \in DOMAIN A, A[i].role # "tool", NEW c \in DOMAIN A[i].calls
      PROVE  i + c \in DOMAIN A /\ A[i + c].role = "tool" /\ A[i + c].calls = <<A[i].calls[c]>>
    <2>1. i \in 1..n
        BY <1>1, <1>2, <1>3
    <2>2. A[i] = T[i] /\ i \in DOMAIN T
        BY <1>1, <2>1
    <2>3. i + c \in DOMAIN T /\ T[i + c].role = "tool" /\ T[i + c].calls = <<T[i].calls[c]>>
        BY <1>3, <2>2 DEF Answered
    <2>4. i + c \in 1..n /\ A[i + c] = T[i + c]
        BY <1>1, <2>3
    <2> QED
        BY <1>1, <2>2, <2>3, <2>4
<1>4. ASSUME NEW i \in DOMAIN A, A[i].role = "tool"
      PROVE  \E j \in 1..(i - 1) : A[j].role # "tool" /\ i - j \in DOMAIN A[j].calls
    <2>1. i \in 1..n /\ A[i] = T[i]
        BY <1>1, <1>4
    <2>2. PICK j \in 1..(i - 1) : T[j].role # "tool" /\ i - j \in DOMAIN T[j].calls
        BY <1>1, <1>4, <2>1 DEF Answered
    <2>3. j \in 1..n /\ A[j] = T[j]
        BY <1>1, <2>1, <2>2
    <2> QED
        BY <2>2, <2>3
<1>5. \A i \in DOMAIN A : A[i].role = "user" => A[i].calls = <<>>
    BY <1>1 DEF Answered
<1>6. Answered(A)
    BY <1>3, <1>4, <1>5 DEF Answered
<1> QED
    BY <1>1, <1>6 DEF A

LEMMA ResultsAnswer ==
    ASSUME NEW T \in Seq(Messages), NEW ids \in Seq(CallIds), Pending(T, ids),
           NEW R \in Seq(Messages), Len(R) = Len(ids),
           \A k \in DOMAIN ids : R[k].role = "tool" /\ R[k].calls = <<ids[k]>>
    PROVE  T \o R \in Seq(Messages) /\ Answered(T \o R)
<1>1. PICK F \in Seq(Messages), m \in Messages :
          Answered(F) /\ m.role = "assistant" /\ m.calls = ids /\ T = Append(F, m)
    BY DEF Pending
<1> DEFINE A == T \o R
           n == Len(F)
           r == Len(ids)
<1>2. n \in Nat /\ r \in Nat /\ DOMAIN F = 1..n /\ DOMAIN ids = 1..r
    OBVIOUS
<1>3. /\ A \in Seq(Messages) /\ DOMAIN A = 1..(n + 1 + r) /\ A[n + 1] = m
      /\ \A k \in 1..n : A[k] = F[k]
      /\ \A k \in 1..r : A[n + 1 + k] = R[k]
    <2>1. Len(T) = n + 1 /\ T[n + 1] = m /\ \A k \in 1..n : T[k] = F[k]
        BY <1>1
    <2>2. A \in Seq(Messages) /\ Len(A) = n + 1 + r /\ DOMAIN A = 1..(n + 1 + r)
        <3>1. Len(R) = r /\ Len(T) + Len(R) = n + 1 + r
            BY <2>1
        <3>2. A \in Seq(Messages) /\ Len(A) = Len(T) + Len(R) /\ DOMAIN A = 1..Len(A)
            <4>1. A \in Seq(Messages) /\ Len(A) = Len(T) + Len(R)
                BY ConcatProperties
            <4> HIDE DEF A
            <4> QED
                BY <4>1
        <3> HIDE DEF A, n, r
        <3> QED
            BY <3>1, <3>2
    <2>3. \A k \in 1..(n + 1) : A[k] = T[k]
        BY <2>1, <1>2
    <2>4. \A k \in 1..r : A[n + 1 + k] = R[k]
        BY <2>1, <1>2
    <2> HIDE DEF A
    <2> QED
        BY <1>2, <2>1, <2>2, <2>3, <2>4
<1> HIDE DEF A, n, r
<1>4. ASSUME NEW k \in 1..r PROVE A[n + 1 + k].role = "tool" /\ A[n + 1 + k].calls = <<ids[k]>>
    BY <1>2, <1>3
<1>5. ASSUME NEW i \in DOMAIN A, A[i].role # "tool"
      PROVE  /\ \A c \in DOMAIN A[i].calls :
                    i + c \in DOMAIN A /\ A[i + c].role = "tool" /\ A[i + c].calls = <<A[i].calls[c]>>
             /\ A[i].role = "user" => A[i].calls = <<>>
    <2>1. CASE i \in 1..n
        <3>1. A[i] = F[i] /\ i \in DOMAIN F
            BY <1>2, <1>3, <2>1
        <3>2. ASSUME NEW c \in DOMAIN F[i].calls
              PROVE  i + c \in DOMAIN A /\ A[i + c].role = "tool" /\ A[i + c].calls = <<F[i].calls[c]>>
            <4>1. i + c \in DOMAIN F /\ F[i + c].role = "tool" /\ F[i + c].calls = <<F[i].calls[c]>>
                BY <1>1, <1>5, <3>1 DEF Answered
            <4>2. i + c \in 1..n /\ A[i + c] = F[i + c] /\ i + c \in 1..(n + 1 + r)
                BY <1>2, <1>3, <4>1
            <4> QED
                BY <1>3, <4>1, <4>2
        <3> QED
            BY <1>1, <3>1, <3>2 DEF Answered
    <2>2. CASE i = n + 1
        <3>1. ASSUME NEW c \in DOMAIN ids
              PROVE  i + c \in DOMAIN A /\ A[i + c].role = "tool" /\ A[i + c].calls = <<ids[c]>>
            <4>1. c \in 1..r /\ i + c = n + 1 + c /\ n + 1 + c \in 1..(n + 1 + r)
                BY <1>2, <2>2
            <4> QED
                BY <1>3, <1>4, <4>1
        <3> QED
            BY <1>1, <1>3, <2>2, <3>1
    <2>3. ~(i > n + 1)
        <3> SUFFICES ASSUME i > n + 1 PROVE FALSE
            OBVIOUS
        <3>1. i - (n + 1) \in 1..r /\ n + 1 + (i - (n + 1)) = i
            BY <1>2, <1>3
        <3> QED
            BY <1>4, <1>5, <3>1
    <2> QED
        BY <1>2, <1>3, <2>1, <2>2, <2>3
<1>6. ASSUME NEW i \in DOMAIN A, A[i].role = "tool"
      PROVE  \E j \in 1..(i - 1) : A[j].role # "tool" /\ i - j \in DOMAIN A[j].calls
    <2>1. CASE i \in 1..n
        <3>1. PICK j \in 1..(i - 1) : F[j].role # "tool" /\ i - j \in DOMAIN F[j].calls
            BY <1>1, <1>2, <1>3, <1>6, <2>1 DEF Answered
        <3>2. j \in 1..n
            BY <1>2, <2>1
        <3>3. A[j] = F[j]
            BY <1>3, <3>2
        <3> QED
            BY <3>1, <3>2, <3>3
    <2>2. i # n + 1
        BY <1>1, <1>3, <1>6
    <2>3. CASE i > n + 1
        <3>1. n + 1 \in 1..(i - 1) /\ i - (n + 1) \in 1..r
            BY <1>2, <1>3, <2>3
        <3>2. A[n + 1].role # "tool" /\ i - (n + 1) \in DOMAIN A[n + 1].calls
            BY <1>1, <1>2, <1>3, <3>1
        <3> QED
            BY <3>1, <3>2
    <2> QED
        BY <1>2, <1>3, <2>1, <2>2, <2>3
<1>7. \A i \in DOMAIN A : A[i].role = "user" => A[i].calls = <<>>
    BY <1>5
<1>8. Answered(A)
    BY <1>5, <1>6, <1>7 DEF Answered
<1> QED
    BY <1>3, <1>8 DEF A

-----------------------------------------------------------------------------
(* The invariant *)

ConversationTypeOK ==
    /\ transcript \in Seq(Messages) /\ calls \in Seq(CallIds)
    /\ turns \in Nat /\ used \in Nat /\ corrections \in Nat
    /\ stage \in {"context", "model", "gateway", "tools", "prose", "ended"}

\* Between two turns everything is answered; from the model's answer to the
\* results the conversation ends with the request whose calls are in flight.
CallsAreTracked ==
    /\ stage \in {"context", "model", "prose", "ended"} => Answered(transcript)
    /\ stage = "gateway" /\ calls = <<>> => Answered(transcript)
    /\ stage = "gateway" /\ calls # <<>> => Pending(transcript, calls)
    /\ stage = "tools" => Pending(transcript, calls)

ConversationInv == ConversationTypeOK /\ CallsAreTracked /\ HistoryIsFaithful

LEMMA MessageIs ==
    ASSUME NEW role \in {"assistant", "tool", "user"}, NEW ids \in Seq(CallIds), NEW size \in Nat
    PROVE  /\ Message(role, ids, size) \in Messages /\ Message(role, ids, size).role = role
           /\ Message(role, ids, size).calls = ids
BY DEF Message, Messages

LEMMA ResultsAre ==
    ASSUME calls \in Seq(CallIds), NEW sizes \in [DOMAIN calls -> Nat]
    PROVE  /\ Results(sizes) \in Seq(Messages) /\ Len(Results(sizes)) = Len(calls)
           /\ \A k \in DOMAIN calls :
                 Results(sizes)[k].role = "tool" /\ Results(sizes)[k].calls = <<calls[k]>>
<1>1. DOMAIN calls = 1..Len(calls) /\ Len(calls) \in Nat
    OBVIOUS
<1>2. ASSUME NEW k \in DOMAIN calls
      PROVE  /\ Message("tool", <<calls[k]>>, sizes[k]) \in Messages
             /\ Message("tool", <<calls[k]>>, sizes[k]).role = "tool"
             /\ Message("tool", <<calls[k]>>, sizes[k]).calls = <<calls[k]>>
    <2>1. calls[k] \in CallIds /\ sizes[k] \in Nat
        OBVIOUS
    <2>2. <<calls[k]>> \in Seq(CallIds)
        BY <2>1
    <2> QED
        BY <2>1, <2>2 DEF Message, Messages
<1>3. /\ Results(sizes) = [k \in 1..Len(calls) |-> Message("tool", <<calls[k]>>, sizes[k])]
    BY <1>1 DEF Results
<1> QED
    BY <1>1, <1>2, <1>3

LEMMA AllowedIs ==
    ASSUME HistoryAssumption, used \in Nat, NEW batch \in Nat, NEW reading \in BOOLEAN
    PROVE  Allowed(batch, reading) \in 0..batch
<1>1. ASSUME NEW a \in Nat, NEW b \in Nat PROVE Min({a, b}) = IF a <= b THEN a ELSE b
    BY DEF Min
<1>2. ASSUME NEW a \in Int PROVE Max({1, a}) = IF 1 >= a THEN 1 ELSE a
    BY DEF Max
<1> DEFINE parallel == IF reading THEN Min({batch, MaxParallel}) ELSE batch
           left == Max({1, MaxToolCalls - used})
<1>3. parallel \in 0..batch
    BY <1>1 DEF HistoryAssumption
<1>4. left \in Nat
    <2>1. MaxToolCalls - used \in Int
        BY DEF HistoryAssumption
    <2> QED
        BY <1>2, <2>1
<1> HIDE DEF parallel, left
<1>5. Min({parallel, left}) \in 0..batch
    BY <1>1, <1>3, <1>4
<1> QED
    BY <1>5 DEF Allowed, parallel, left

LEMMA ConversationInit == HistoryAssumption /\ HistoryInit => ConversationInv
<1> SUFFICES ASSUME HistoryAssumption, HistoryInit PROVE ConversationInv
    OBVIOUS
<1> USE DEF HistoryInit
<1>1. ConversationTypeOK
    BY DEF ConversationTypeOK
<1>2. Answered(transcript)
    BY DEF Answered
<1>3. Size(shown) = 0
    BY SizeOfNothing
<1>4. HistoryIsFaithful
    BY <1>3 DEF HistoryIsFaithful, NothingUnanswered, HistoryAssumption
<1> QED
    BY <1>1, <1>2, <1>4 DEF ConversationInv, CallsAreTracked

\* Of a message in flight, the calls that the gateway keeps stay in flight.
LEMMA CutKeepsPending ==
    ASSUME NEW T \in Seq(Messages), NEW ids \in Seq(CallIds), NEW cut \in Seq(CallIds), Pending(T, ids)
    PROVE  /\ [T EXCEPT ![Len(T)].calls = cut] \in Seq(Messages)
           /\ Pending([T EXCEPT ![Len(T)].calls = cut], cut)
<1>1. PICK F \in Seq(Messages), m \in Messages :
          Answered(F) /\ m.role = "assistant" /\ m.calls = ids /\ T = Append(F, m)
    BY DEF Pending
<1> DEFINE n == Len(F)
           c == [m EXCEPT !.calls = cut]
           A == [T EXCEPT ![Len(T)].calls = cut]
<1>2. c \in Messages /\ c.role = "assistant" /\ c.calls = cut
    BY <1>1 DEF Messages
<1>3. n \in Nat /\ Len(T) = n + 1 /\ T[n + 1] = m /\ \A k \in 1..n : T[k] = F[k]
    BY <1>1
<1>4. DOMAIN T = 1..(n + 1)
    BY <1>3
<1>5. A = [k \in 1..(n + 1) |-> IF k = n + 1 THEN c ELSE F[k]]
    <2> HIDE DEF n
    <2>1. A = [T EXCEPT ![n + 1] = [T[n + 1] EXCEPT !.calls = cut]]
        BY <1>3
    <2>2. c = [T[n + 1] EXCEPT !.calls = cut]
        BY <1>3
    <2> HIDE DEF A, c
    <2>3. A = [T EXCEPT ![n + 1] = c]
        BY <2>1, <2>2
    <2>4. A = [k \in 1..(n + 1) |-> IF k = n + 1 THEN c ELSE T[k]]
        BY <1>4, <2>3
    <2> QED
        BY <1>3, <2>4
<1> HIDE DEF c
<1>6. Append(F, c) = [k \in 1..(n + 1) |-> IF k = n + 1 THEN c ELSE F[k]]
    <2> DEFINE B == Append(F, c)
    <2>1. B = [k \in 1..Len(B) |-> B[k]] /\ Len(B) = n + 1
        <3>1. c \in Messages /\ F \in Seq(Messages)
            BY <1>2
        <3>2. B \in Seq(Messages) /\ Len(B) = n + 1
            BY <3>1, AppendProperties
        <3> HIDE DEF B, n
        <3> QED
            BY <3>2
    <2>2. B[n + 1] = c /\ \A k \in 1..n : B[k] = F[k]
        BY <1>2
    <2> HIDE DEF B, n
    <2>3. \A k \in 1..(n + 1) : B[k] = IF k = n + 1 THEN c ELSE F[k]
        BY <1>3, <2>2
    <2> QED
        BY <2>1, <2>3 DEF B
<1>7. A = Append(F, c)
    BY <1>5, <1>6
<1>8. Append(F, c) \in Seq(Messages)
    BY <1>2
<1> HIDE DEF A
<1>9. A \in Seq(Messages) /\ Pending(A, cut)
    BY <1>1, <1>2, <1>7, <1>8 DEF Pending
<1> QED
    BY <1>9 DEF A

LEMMA CorrectedKeeps ==
    ASSUME ConversationInv, HistoryAssumption, NEW T \in Seq(Messages), Answered(T),
           Corrected(T), shown' = shown, calls' = calls, turns' = turns, used' \in Nat
    PROVE  ConversationInv'
<1>1. Message("user", <<>>, 1) \in Messages /\ Message("user", <<>>, 1).role = "user"
      /\ Message("user", <<>>, 1).calls = <<>>
    BY DEF Message, Messages
<1>2. Append(T, Message("user", <<>>, 1)) \in Seq(Messages)
      /\ Answered(Append(T, Message("user", <<>>, 1)))
    BY <1>1, TalkIsAnswered
<1>3. /\ transcript' \in Seq(Messages) /\ Answered(transcript)' /\ corrections' \in Nat
      /\ stage' \in {"context", "ended"}
    <2>1. CASE corrections < MaxCorrections
        <3>1. /\ transcript' = Append(T, Message("user", <<>>, 1))
              /\ corrections' = corrections + 1 /\ stage' = "context"
            BY <2>1 DEF Corrected
        <3>2. transcript' \in Seq(Messages) /\ Answered(transcript')
            BY <1>2, <3>1
        <3>3. Answered(transcript)'
            BY <3>2 DEF Answered
        <3> QED
            BY <3>1, <3>2, <3>3 DEF ConversationInv, ConversationTypeOK
    <2>2. CASE ~(corrections < MaxCorrections)
        BY <2>2 DEF Corrected, ConversationInv, ConversationTypeOK, Answered
    <2> QED
        BY <2>1, <2>2
<1>4. ConversationTypeOK'
    BY <1>3 DEF ConversationInv, ConversationTypeOK
<1>5. CallsAreTracked'
    BY <1>3 DEF CallsAreTracked
<1>6. NothingUnanswered'
    BY DEF ConversationInv, HistoryIsFaithful, NothingUnanswered
<1>7. HistoryIsFaithful'
    BY <1>3, <1>6 DEF HistoryIsFaithful
<1> QED
    BY <1>4, <1>5, <1>7 DEF ConversationInv

LEMMA ChargedIsNat ==
    ASSUME HistoryAssumption, ConversationTypeOK
    PROVE  Charged \in Nat
<1>1. MaxToolCalls \in Nat /\ used + Len(calls) \in Nat
    BY DEF HistoryAssumption, ConversationTypeOK
<1>2. \A a, b \in Nat : Min({a, b}) = IF a <= b THEN a ELSE b
    BY DEF Min
<1> QED
    BY <1>1, <1>2 DEF Charged

LEMMA ConversationStep ==
    ConversationInv /\ HistoryAssumption /\ [HistoryNext]_historyVars => ConversationInv'
<1> SUFFICES ASSUME ConversationInv, HistoryAssumption, [HistoryNext]_historyVars
             PROVE  ConversationInv'
    OBVIOUS
<1>a. ConversationTypeOK /\ CallsAreTracked /\ HistoryIsFaithful /\ NothingUnanswered
    BY DEF ConversationInv, HistoryIsFaithful
<1>b. ASSUME shown' = shown PROVE NothingUnanswered'
    BY <1>a, <1>b DEF NothingUnanswered
<1>1. CASE BuildContext
    <2>1. transcript \in Seq(Messages) /\ Answered(transcript)
        BY <1>1, <1>a DEF BuildContext, ConversationTypeOK, CallsAreTracked
    <2>2. /\ shown' = History(transcript) /\ transcript' = transcript /\ stage' = "model"
          /\ calls' = calls /\ turns' = turns /\ used' = used /\ corrections' = corrections
        BY <1>1 DEF BuildContext
    <2> DEFINE H == History(transcript)
    <2>3. /\ H \in Seq(Messages) /\ Answered(H) /\ Len(H) <= MaxMessages /\ Size(H) <= MaxSize
          /\ Len(LastExchange) <= MaxMessages /\ Size(LastExchange) <= MaxSize
             => IsSuffix(LastExchange, H)
        BY <2>1, HistoryEndsWithExchange
    <2>4. NothingUnanswered'
        <3> HIDE DEF H
        <3>1. \A k \in DOMAIN H : H[k].role = "tool" => \E j \in 1..(k - 1) : Answers(H[k], H[j])
            BY <2>3, AnswersExist
        <3>2. \A k \in DOMAIN H : H[k].role = "assistant" =>
                  \A c \in DOMAIN H[k].calls :
                      k + c \in DOMAIN H /\ H[k + c].role = "tool" /\ H[k + c].calls = <<H[k].calls[c]>>
            BY <2>3 DEF Answered
        <3>3. shown' = H
            BY <2>2 DEF H
        <3> QED
            BY <2>3, <3>1, <3>2, <3>3 DEF NothingUnanswered
    <2>5. LastExchange' = LastExchange
        BY <2>2 DEF LastExchange
    <2>6. HistoryIsFaithful'
        BY <2>2, <2>3, <2>4, <2>5 DEF HistoryIsFaithful
    <2>7. ConversationTypeOK'
        BY <1>a, <2>2 DEF ConversationTypeOK
    <2>8. CallsAreTracked'
        BY <2>1, <2>2 DEF CallsAreTracked, Answered
    <2> QED
        BY <2>6, <2>7, <2>8 DEF ConversationInv
<1>2. ASSUME NEW prose \in BOOLEAN, NEW batch \in 0..MaxBatch, Generate(prose, batch)
      PROVE  ConversationInv'
    <2>1. batch \in Nat /\ turns \in Nat /\ transcript \in Seq(Messages) /\ Answered(transcript)
        BY <1>2, <1>a DEF Generate, ConversationTypeOK, CallsAreTracked, HistoryAssumption
    <2> DEFINE ids == [k \in 1..batch |-> <<turns, k>>]
               m == Message("assistant", ids, 1)
    <2>2. ids \in Seq(CallIds) /\ Len(ids) = batch
        <3>1. \A k \in 1..batch : <<turns, k>> \in CallIds
            BY <2>1 DEF CallIds
        <3> QED
            BY <2>1, <3>1
    <2>3. calls' = ids /\ stage' = "gateway" /\ turns' = turns + 1
          /\ shown' = shown /\ used' = used /\ corrections' = corrections
          /\ transcript' = IF prose \/ batch > 0 THEN Append(transcript, m) ELSE transcript
        BY <1>2 DEF Generate
    <2> HIDE DEF ids
    <2>4. m \in Messages /\ m.role = "assistant" /\ m.calls = ids
        BY <2>2 DEF Message, Messages
    <2> HIDE DEF m
    <2>5. Append(transcript, m) \in Seq(Messages)
        BY <2>1, <2>4
    <2>6. ConversationTypeOK'
        BY <1>a, <2>1, <2>2, <2>3, <2>5 DEF ConversationTypeOK
    <2>7. ids = <<>> => Answered(transcript')
        <3>1. CASE ids = <<>>
            <4>1. Answered(Append(transcript, m))
                BY <2>1, <2>4, <3>1, TalkIsAnswered
            <4> QED
                BY <2>1, <2>3, <4>1
        <3> QED
            BY <3>1
    <2>8. ids # <<>> => Pending(transcript', ids)
        <3>1. CASE ids # <<>>
            <4>1. batch > 0
                BY <2>1, <2>2, <3>1
            <4>2. transcript' = Append(transcript, m)
                BY <2>3, <4>1
            <4> QED
                BY <2>1, <2>4, <4>2 DEF Pending
        <3> QED
            BY <3>1
    <2>9. CallsAreTracked'
        <3>1. Answered(transcript') => Answered(transcript)'
            BY DEF Answered
        <3>2. Pending(transcript', ids) => Pending(transcript, calls)'
            BY <2>3 DEF Pending, Answered
        <3> QED
            BY <2>3, <2>7, <2>8, <3>1, <3>2 DEF CallsAreTracked
    <2>10. HistoryIsFaithful'
        BY <1>b, <2>3 DEF HistoryIsFaithful
    <2> QED
        BY <2>6, <2>9, <2>10 DEF ConversationInv
<1>3. ASSUME NEW reading \in BOOLEAN, ActionGateway(reading) PROVE ConversationInv'
    <2> DEFINE cut == SubSeq(calls, 1, Allowed(Len(calls), reading))
    <2>1. transcript \in Seq(Messages) /\ calls \in Seq(CallIds) /\ Len(calls) \in Nat /\ used \in Nat
        BY <1>a DEF ConversationTypeOK
    <2>2. cut \in Seq(CallIds)
        <3>1. Allowed(Len(calls), reading) \in 0..Len(calls)
            BY <2>1, AllowedIs
        <3> QED
            BY <2>1, <3>1
    <2>3. calls' = cut /\ stage = "gateway" /\ turns' = turns
          /\ shown' = shown /\ used' = used /\ corrections' = corrections
        BY <1>3 DEF ActionGateway
    <2>4. CASE calls = <<>>
        <3>1. transcript' = transcript /\ stage' = "prose" /\ Answered(transcript)
            BY <1>3, <1>a, <2>4 DEF ActionGateway, CallsAreTracked
        <3>2. ConversationTypeOK'
            BY <1>a, <2>2, <2>3, <3>1 DEF ConversationTypeOK
        <3>3. CallsAreTracked'
            BY <3>1 DEF CallsAreTracked, Answered
        <3>4. HistoryIsFaithful'
            BY <1>b, <2>3, <3>1 DEF HistoryIsFaithful
        <3> QED
            BY <3>2, <3>3, <3>4 DEF ConversationInv
    <2>5. CASE calls # <<>>
        <3> HIDE DEF cut
        <3>1. /\ transcript' = [transcript EXCEPT ![Len(transcript)].calls = cut]
              /\ stage' = "tools" /\ Pending(transcript, calls)
            BY <1>3, <1>a, <2>3, <2>5 DEF ActionGateway, CallsAreTracked
        <3>2. transcript' \in Seq(Messages) /\ Pending(transcript', cut)
            BY <2>1, <2>2, <3>1, CutKeepsPending
        <3>3. ConversationTypeOK'
            BY <1>a, <2>2, <2>3, <3>1, <3>2 DEF ConversationTypeOK
        <3>4. CallsAreTracked'
            <4>1. Pending(transcript, calls)'
                BY <2>3, <3>2 DEF Pending, Answered
            <4> QED
                BY <3>1, <4>1 DEF CallsAreTracked
        <3>5. HistoryIsFaithful'
            BY <1>b, <2>3, <3>1 DEF HistoryIsFaithful
        <3> QED
            BY <3>3, <3>4, <3>5 DEF ConversationInv
    <2> QED
        BY <2>4, <2>5
<1>4. ASSUME NEW sizes \in [DOMAIN calls -> ResultSizes], Execute(sizes) PROVE ConversationInv'
    <2>1. transcript \in Seq(Messages) /\ calls \in Seq(CallIds) /\ Pending(transcript, calls)
        BY <1>4, <1>a DEF Execute, ConversationTypeOK, CallsAreTracked
    <2>2. sizes \in [DOMAIN calls -> Nat]
        BY DEF HistoryAssumption
    <2> DEFINE A == transcript \o Results(sizes)
    <2>3. A \in Seq(Messages) /\ Answered(A)
        BY <2>1, <2>2, ResultsAre, ResultsAnswer
    <2>4. /\ transcript' = A /\ used' = Charged /\ stage' = "context"
          /\ shown' = shown /\ calls' = calls /\ turns' = turns /\ corrections' = corrections
        BY <1>4 DEF Execute
    <2> HIDE DEF A
    <2>5. ConversationTypeOK'
        BY <1>a, <2>3, <2>4, ChargedIsNat DEF ConversationTypeOK
    <2>6. CallsAreTracked'
        BY <2>3, <2>4 DEF CallsAreTracked, Answered
    <2>7. HistoryIsFaithful'
        BY <1>b, <2>4 DEF HistoryIsFaithful
    <2> QED
        BY <2>5, <2>6, <2>7 DEF ConversationInv
<1>5. CASE Reject
    <2>1. transcript \in Seq(Messages) /\ calls \in Seq(CallIds) /\ Pending(transcript, calls)
        BY <1>5, <1>a DEF Reject, ConversationTypeOK, CallsAreTracked
    <2> DEFINE ones == [k \in DOMAIN calls |-> 1]
               A == transcript \o Results(ones)
    <2>2. ones \in [DOMAIN calls -> Nat]
        OBVIOUS
    <2> HIDE DEF ones
    <2>3. A \in Seq(Messages) /\ Answered(A)
        BY <2>1, <2>2, ResultsAre, ResultsAnswer
    <2>4. Corrected(A) /\ used' \in Nat /\ shown' = shown /\ calls' = calls /\ turns' = turns
        BY <1>5, <1>a, ChargedIsNat DEF Reject, ones
    <2> HIDE DEF A
    <2> QED
        BY <2>3, <2>4, CorrectedKeeps
<1>6. CASE Unstructured
    <2>1. transcript \in Seq(Messages) /\ Answered(transcript)
        BY <1>6, <1>a DEF Unstructured, ConversationTypeOK, CallsAreTracked
    <2>2. Corrected(transcript) /\ used' \in Nat /\ shown' = shown /\ calls' = calls /\ turns' = turns
        BY <1>6, <1>a DEF Unstructured, ConversationTypeOK
    <2> QED
        BY <2>1, <2>2, CorrectedKeeps
<1>7. CASE UNCHANGED historyVars
    <2>1. /\ transcript' = transcript /\ shown' = shown /\ stage' = stage /\ calls' = calls
          /\ turns' = turns /\ used' = used /\ corrections' = corrections
        BY <1>7 DEF historyVars
    <2>2. ConversationTypeOK'
        BY <1>a, <2>1 DEF ConversationTypeOK
    <2>3. CallsAreTracked'
        BY <1>a, <2>1 DEF CallsAreTracked, Answered, Pending
    <2>4. LastExchange' = LastExchange
        BY <2>1 DEF LastExchange
    <2>5. HistoryIsFaithful'
        BY <1>a, <1>b, <2>1, <2>4 DEF HistoryIsFaithful
    <2> QED
        BY <2>2, <2>3, <2>5 DEF ConversationInv
<1> QED
    BY <1>1, <1>2, <1>3, <1>4, <1>5, <1>6, <1>7 DEF HistoryNext

\* In what a model is shown every call has its results and every result its call,
\* within the limits, and it ends with the exchange of the last turn when that
\* fits, for any limits, sizes and batches: what actionGateway cuts it cuts in the
\* message that boundedBrainMessageHistory reads (agent/brain_graph.go:389, 402).
THEOREM ConversationFaithful == HistorySpec => []HistoryIsFaithful
<1>1. HistoryInit => ConversationInv
    BY HistoryAssumption, ConversationInit
<1>2. ConversationInv /\ [HistoryNext]_historyVars => ConversationInv'
    BY HistoryAssumption, ConversationStep
<1>3. ConversationInv => HistoryIsFaithful
    BY DEF ConversationInv
<1> QED
    BY <1>1, <1>2, <1>3, PTL DEF HistorySpec
===============================================================================
