----------------------- MODULE RecoveryWorkflow_proofs -----------------------
(***************************************************************************)
(* Proofs about RecoveryWorkflow for any number of Resume calls and keys   *)
(* and for every value of the budgets and bounds: what each invocation     *)
(* knows, that a write has an approval behind it, and that the workflow    *)
(* implements the ledger of approved mutations.                            *)
(***************************************************************************)
EXTENDS RecoveryWorkflow, SequenceTheorems, TLAPS

-----------------------------------------------------------------------------
(* Type correctness *)

\* The window of samples stays a sequence of samples.
LEMMA LastThreeType ==
    ASSUME NEW S, NEW s \in Seq(S)
    PROVE  LastThree(s) \in Seq(S)
<1>1. CASE Len(s) <= 3
  BY <1>1 DEF LastThree
<1>2. CASE Len(s) > 3
  <2>1. Len(s) - 2 \in 1..(Len(s) + 1) /\ Len(s) \in 0..Len(s) /\ Len(s) \in Nat
    BY <1>2, LenProperties
  <2>2. SubSeq(s, Len(s) - 2, Len(s)) \in Seq(S)
    BY <2>1, SubSeqProperties
  <2> QED
    BY <1>2, <2>1, <2>2 DEF LastThree
<1> QED
  BY <1>1, <1>2, LenProperties

\* A round of verification yields a verification state.
LEMMA AfterRoundType ==
    ASSUME TypeOK, NEW i \in Invocations, NEW sample \in Sample
    PROVE  AfterRound(i, sample) \in Verify
<1> DEFINE v == verify[i]
<1>1. v \in Verify
  BY DEF TypeOK
<1>2. v.rounds \in Nat /\ v.streak \in Nat /\ v.previous \in NoCount..MaxRestarts
      /\ v.samples \in Seq(Sample) /\ sample.restarts \in NoCount..MaxRestarts
  BY <1>1 DEF Verify, Sample
<1>3. Append(v.samples, sample) \in Seq(Sample)
  BY <1>2, AppendProperties
<1>4. LastThree(Append(v.samples, sample)) \in Seq(Sample)
  BY <1>3, LastThreeType
<1> HIDE DEF v
<1>5. AfterRound(i, sample).rounds \in Nat /\ AfterRound(i, sample).streak \in Nat
  BY <1>2 DEF AfterRound, v
<1> QED
  BY <1>2, <1>4 DEF AfterRound, Verify, v

\* The Brain state after a failure is a Brain state.
LEMMA AfterFailureType ==
    ASSUME TypeOK, NEW i \in Invocations,
           NEW trigger \in {"RECOVERY_FAILURE", "VERIFICATION_FAILURE"}
    PROVE  AfterFailure(i, trigger) \in Brain
BY DEF TypeOK, AfterFailure, Brain, Trigger, Termination

\* The deployment exists from the start; the null target is a target record.
LEMMA TargetTypes == NoTarget \in TargetState /\ [uid |-> 1, version |-> 1] \in TargetState
BY DEF NoTarget, TargetState

\* Statuses a transition leads to are statuses.
LEMMA StatusTypes ==
    /\ {"DIAGNOSING", "PROPOSING", "AWAITING_APPROVAL", "RECOVERING", "VERIFYING",
        "RESOLVED", "NEEDS_ATTENTION", "REJECTED", "RECOVERY_FAILED", "COLLECTING"} \subseteq Status
BY DEF Status

\* The initial state has its types.
LEMMA TypeInit == Init => TypeOK
<1> SUFFICES ASSUME Init PROVE TypeOK
  OBVIOUS
<1>1. FreshBrain \in Brain
  BY DEF FreshBrain, Brain, Trigger, Termination
<1>2. NoMutation \in Mutation
  BY TargetTypes DEF NoMutation, Mutation
<1>3. NoVerify \in Verify
  <2>1. <<>> \in Seq(Sample) /\ NoCount \in NoCount..MaxRestarts
    BY BoundAssumption DEF NoCount
  <2> QED
    BY <2>1 DEF NoVerify, Verify
<1>4. NoCheckpoint \in Checkpoint
  BY <1>1, TargetTypes DEF NoCheckpoint, Checkpoint
<1>5. NoApproval \in Approval
  BY DEF Approval
<1> QED
  BY <1>1, <1>2, <1>3, <1>4, <1>5, TargetTypes, StatusTypes
     DEF Init, TypeOK, Node

\* A checkpoint can always be absent.
LEMMA NoCheckpointType == NoCheckpoint \in Checkpoint
BY TargetTypes DEF NoCheckpoint, Checkpoint, FreshBrain, Brain, Trigger, Termination

\* What a pass through the Brain leaves is a Brain state.
LEMMA AfterLoopType ==
    ASSUME TypeOK, NEW i \in Invocations,
           NEW turns \in Nat, NEW units \in Nat, NEW plan \in BOOLEAN,
           NEW pending \in BOOLEAN, NEW reason \in Termination
    PROVE  AfterLoop(i, turns, units, plan, pending, reason) \in Brain
BY DEF AfterLoop, Brain, Trigger

\* Updates of single fields keep the types.
LEMMA TerminationType ==
    ASSUME TypeOK, NEW i \in Invocations, NEW reason \in Termination,
           brain' = [brain EXCEPT ![i].termination = reason]
    PROVE  brain' \in [Invocations -> Brain]
BY DEF TypeOK, Brain

\* Recording an outcome keeps the type of the execution records.
LEMMA OutcomeType ==
    ASSUME TypeOK, NEW i \in Invocations,
           NEW outcome \in {"attempting", "succeeded", "failed", "unknown"},
           mutation' = [mutation EXCEPT ![i].outcome = outcome]
    PROVE  mutation' \in [Invocations -> Mutation]
BY DEF TypeOK, Mutation

\* Going to a node keeps the type of the program counters.
LEMMA GotoType ==
    ASSUME TypeOK, NEW i \in Invocations, NEW node \in Node, Goto(i, node)
    PROVE  pc' \in [Invocations -> Node]
BY DEF TypeOK, Goto

\* A status transition and the node behind it keep their types.
LEMMA MoveThenType ==
    ASSUME TypeOK, NEW i \in Invocations, NEW to \in Status, NEW node \in Node,
           MoveThen(i, to, node)
    PROVE  status' \in [Invocations -> Status] /\ pc' \in [Invocations -> Node]
BY DEF TypeOK, MoveThen, Goto, Node

\* The error branches of the executor keep the types.
LEMMA ExecutionFailedType ==
    ASSUME TypeOK, NEW i \in Invocations, ExecutionFailed(i)
    PROVE  /\ mutation' \in [Invocations -> Mutation] /\ brain' \in [Invocations -> Brain]
           /\ status' \in [Invocations -> Status] /\ pc' \in [Invocations -> Node]
BY AfterFailureType, StatusTypes
   DEF TypeOK, ExecutionFailed, Mutation, AfterMove, Routed, Goto, Node

\* The branch for an unknown result keeps the types.
LEMMA ExecutionUnknownType ==
    ASSUME TypeOK, NEW i \in Invocations, ExecutionUnknown(i)
    PROVE  /\ mutation' \in [Invocations -> Mutation] /\ brain' \in [Invocations -> Brain]
           /\ status' \in [Invocations -> Status] /\ pc' \in [Invocations -> Node]
<1>1. brain' \in [Invocations -> Brain]
  BY TerminationType DEF ExecutionUnknown, Termination
<1>2. mutation' \in [Invocations -> Mutation]
  BY OutcomeType DEF ExecutionUnknown
<1> QED
  BY <1>1, <1>2, StatusTypes DEF TypeOK, ExecutionUnknown, AfterMove, Routed, Goto, Node

\* A step of an invocation keeps the types.
LEMMA TypeStep ==
    ASSUME TypeOK, NEW i \in Invocations, Step(i)
    PROVE  TypeOK'
<1>1. CASE BrainTurnsExhausted(i)
  BY <1>1 DEF BrainTurnsExhausted, TypeOK, Brain, Termination, Goto, Node, shared
<1>2. CASE BrainReflectionBlocked(i)
  <2>1. [brain[i] EXCEPT !.pending = None, !.termination = "SAFETY_BLOCKED"] \in Brain
    BY DEF TypeOK, Brain, Trigger, Termination
  <2> QED
    BY <1>2, <2>1 DEF BrainReflectionBlocked, TypeOK, Goto, Node, shared
<1>3. CASE BrainCloses(i)
  <2>1. brain[i].turns \in Nat /\ brain[i].units \in Nat /\ brain[i].plan \in BOOLEAN
        /\ brain[i].pendingTermination \in BOOLEAN
    BY DEF TypeOK, Brain
  <2>2. PICK turns \in (brain[i].turns + 1)..MaxTurns,
             units \in brain[i].units..MaxUnits,
             plan \in {brain[i].plan, TRUE} :
          \/ \E reason \in {"DIAGNOSIS_CONFIDENT", "HUMAN_ESCALATION"} :
               brain' = [brain EXCEPT ![i] =
                  AfterLoop(i, turns, units, plan, @.pendingTermination, reason)]
          \/ brain' = [brain EXCEPT ![i] =
                AfterLoop(i, turns, units, plan, @.pendingTermination, "BUDGET_EXHAUSTED")]
          \/ brain' = [brain EXCEPT ![i] =
                AfterLoop(i, turns, units, plan, FALSE, "RECOVERY_FAILED")]
    BY <1>3, Zenon DEF BrainCloses
  <2>7. PICK pending \in {brain[i].pendingTermination, FALSE},
             reason \in {"DIAGNOSIS_CONFIDENT", "HUMAN_ESCALATION", "BUDGET_EXHAUSTED",
                         "RECOVERY_FAILED"} :
          brain' = [brain EXCEPT ![i] = AfterLoop(i, turns, units, plan, pending, reason)]
    BY <2>2
  <2>3. turns \in Nat /\ units \in Nat
    BY <2>1, BudgetAssumption
  <2>5. plan \in BOOLEAN /\ pending \in BOOLEAN
    BY <2>1
  <2>6. reason \in Termination
    BY DEF Termination
  <2>4. brain' \in [Invocations -> Brain]
    BY <2>7, <2>3, <2>5, <2>6, AfterLoopType DEF TypeOK
  <2> QED
    BY <1>3, <2>4 DEF BrainCloses, TypeOK, Goto, Node, shared
<1>4. CASE BrainFails(i)
  BY <1>4 DEF BrainFails, TypeOK, Brain, Termination, Goto, Node, shared
<1>5. CASE PermissionGranted(i)
  <2>1. status' \in [Invocations -> Status] /\ pc' \in [Invocations -> Node]
    BY <1>5, StatusTypes DEF PermissionGranted, TypeOK, Goto, Node
  <2>2. expired' \in BOOLEAN
    BY <1>5 DEF PermissionGranted, TypeOK
  <2> QED
    BY <1>5, <2>1, <2>2, TargetTypes DEF PermissionGranted, TypeOK
<1>6. CASE PermissionDenied(i)
  <2>1. brain' \in [Invocations -> Brain]
    BY <1>6, TerminationType DEF PermissionDenied, Termination, TypeOK, Brain
  <2>2. status' \in [Invocations -> Status] /\ pc' \in [Invocations -> Node]
    BY <1>6, StatusTypes DEF PermissionDenied, TypeOK, Goto, Node
  <2> QED
    BY <1>6, <2>1, <2>2 DEF PermissionDenied, TypeOK, shared
<1>7. CASE DryRunSucceeds(i)
  BY <1>7 DEF DryRunSucceeds, TypeOK, Goto, Node, shared
<1>8. CASE DryRunFails(i)
  <2>1. [brain[i] EXCEPT !.plan = FALSE, !.pending = "RECOVERY_FAILURE", !.termination = None]
          \in Brain
    BY DEF TypeOK, Brain, Trigger, Termination
  <2>2. status' \in [Invocations -> Status] /\ pc' \in [Invocations -> Node]
    BY <1>8, MoveThenType, StatusTypes DEF DryRunFails, Node
  <2> QED
    BY <1>8, <2>1, <2>2, TargetTypes DEF DryRunFails, TypeOK, shared
<1>9. CASE RequestApproval(i)
  BY <1>9, StatusTypes DEF RequestApproval, TypeOK, MoveThen, Goto, Node, Checkpoint
<1>10. CASE Reject(i)
  <2>1. brain' \in [Invocations -> Brain]
    BY <1>10, TerminationType DEF Reject, Termination
  <2>2. status' \in [Invocations -> Status] /\ pc' \in [Invocations -> Node]
    BY <1>10, MoveThenType, StatusTypes DEF Reject, Node
  <2> QED
    BY <1>10, <2>1, <2>2 DEF Reject, TypeOK, shared
<1>11. CASE Approve(i)
  BY <1>11, StatusTypes DEF Approve, TypeOK, MoveThen, Goto, Node, shared
<1>12. CASE ApprovalContextRejected(i)
  <2>1. brain' \in [Invocations -> Brain]
    BY <1>12, TerminationType DEF ApprovalContextRejected, Termination
  <2>2. status' \in [Invocations -> Status] /\ pc' \in [Invocations -> Node]
    BY <1>12, MoveThenType, StatusTypes DEF ApprovalContextRejected, Node
  <2> QED
    BY <1>12, <2>1, <2>2 DEF ApprovalContextRejected, TypeOK, shared
<1>13. CASE BeginExecution(i)
  BY <1>13 DEF BeginExecution, TypeOK, Mutation, Goto, Node, shared
<1>14. CASE ExecutionRefused(i)
  BY <1>14, StatusTypes DEF ExecutionRefused, TypeOK, AfterMove, Routed, Goto, Node, shared
<1>15. CASE TargetStateMatches(i)
  BY <1>15 DEF TargetStateMatches, TypeOK, Goto, Node, shared
<1>16. CASE TargetStateRefused(i)
  BY <1>16, ExecutionFailedType DEF TargetStateRefused, TypeOK, shared
<1>17. CASE ClaimAction(i)
  BY <1>17 DEF ClaimAction, TypeOK, Goto, Node
<1>18. CASE ClaimTaken(i)
  BY <1>18, ExecutionUnknownType DEF ClaimTaken, TypeOK, shared
<1>19. CASE ClaimError(i)
  BY <1>19, ExecutionFailedType DEF ClaimError, TypeOK
<1>20. CASE Mutate(i)
  <2>1. PICK base \in {NoTarget, target} :
          mutation' = [mutation EXCEPT ![i] = [@ EXCEPT !.request = "sent", !.base = base]]
    BY <1>20 DEF Mutate
  <2>2. [mutation[i] EXCEPT !.request = "sent", !.base = base] \in Mutation
    BY TargetTypes DEF TypeOK, Mutation
  <2> QED
    BY <1>20, <2>1, <2>2 DEF Mutate, TypeOK, Goto, Node, shared
<1>21. CASE MutationConfirmed(i)
  BY <1>21, StatusTypes DEF MutationConfirmed, TypeOK, Mutation, CompleteAction, MoveThen, Routed, Goto, Node
<1>22. CASE MutationUnconfirmed(i)
  BY <1>22, ExecutionUnknownType DEF MutationUnconfirmed, TypeOK, CompleteAction
<1>23. CASE VerificationSucceeds(i)
  <2>1. brain' \in [Invocations -> Brain]
    BY <1>23, TerminationType DEF VerificationSucceeds, Termination, TypeOK, Brain
  <2>2. Routed(brain[i], "finalizer") \in Node
    BY DEF Routed, Node
  <2>3. status' \in [Invocations -> Status] /\ pc' \in [Invocations -> Node]
    BY <1>23, <2>2, MoveThenType, StatusTypes DEF VerificationSucceeds
  <2>4. verify' \in [Invocations -> Verify]
    BY <1>23, AfterRoundType DEF VerificationSucceeds, TypeOK
  <2> QED
    BY <1>23, <2>1, <2>3, <2>4 DEF VerificationSucceeds, TypeOK, shared
<1>24. CASE VerificationTimesOut(i)
  BY <1>24, AfterRoundType, AfterFailureType, StatusTypes DEF VerificationTimesOut, TypeOK, Routed, Goto, Node, shared
<1>25. CASE VerificationContinues(i)
  BY <1>25, AfterRoundType DEF VerificationContinues, TypeOK, shared
<1>26. CASE Finalize(i)
  BY <1>26, NoCheckpointType DEF Finalize, TypeOK, Goto, Node
<1> QED
  BY <1>1, <1>2, <1>3, <1>4, <1>5, <1>6, <1>7, <1>8, <1>9, <1>10, <1>11, <1>12, <1>13, <1>14, <1>15, <1>16, <1>17, <1>18, <1>19, <1>20, <1>21, <1>22, <1>23, <1>24, <1>25, <1>26
     DEF Step, BrainStep, ProposalStep, ApprovalStep, ExecutionStep, VerificationStep

\* Every step keeps the types.
LEMMA TypeNext == TypeOK /\ [Next]_vars => TypeOK'
<1> SUFFICES ASSUME TypeOK, [Next]_vars PROVE TypeOK'
  OBVIOUS
<1>1. ASSUME NEW i \in Calls, Resume(i) PROVE TypeOK'
  <2>1. i \in Invocations
    BY DEF Invocations
  <2>2. brain' \in [Invocations -> Brain] /\ proposal' \in [Invocations -> TargetState]
    BY <1>1, <2>1 DEF Resume, TypeOK, Checkpoint
  <2>3. approval' \in [Invocations -> Approval]
    BY <1>1, <2>1 DEF Resume, TypeOK, Approval
  <2> QED
    BY <1>1, <2>1, <2>2, <2>3, StatusTypes DEF Resume, TypeOK, Goto, Node, shared
<1>2. ASSUME NEW i \in Calls, ResumeWithoutCheckpoint(i) PROVE TypeOK'
  BY <1>2 DEF ResumeWithoutCheckpoint, TypeOK, Goto, Node, Invocations, shared
<1>3. ASSUME NEW i \in Invocations, ServerApplies(i) PROVE TypeOK'
  <2>1. [mutation[i] EXCEPT !.request = "applied", !.at = target] \in Mutation
    BY DEF TypeOK, Mutation
  <2>2. target' \in TargetState
    BY <1>3 DEF ServerApplies, TypeOK, TargetState
  <2> QED
    BY <1>3, <2>1, <2>2 DEF ServerApplies, TypeOK
<1>4. ASSUME NEW i \in Invocations, ServerDrops(i) PROVE TypeOK'
  BY <1>4 DEF ServerDrops, TypeOK, Mutation, shared
<1>5. CASE TargetChanges
  BY <1>5 DEF TargetChanges, TypeOK, TargetState, private
<1>6. CASE Expire
  BY <1>6 DEF Expire, TypeOK, private
<1>7. CASE Crash
  BY <1>7 DEF Crash, TypeOK, Node
<1>8. ASSUME NEW k \in Keys, ClaimExpires(k) PROVE TypeOK'
  BY <1>8 DEF ClaimExpires, TypeOK, private
<1>9. ASSUME NEW i \in Invocations, Step(i) PROVE TypeOK'
  BY <1>9, TypeStep
<1>10. CASE UNCHANGED vars
  BY <1>10 DEF vars, private, shared, TypeOK
<1> QED
  BY <1>1, <1>2, <1>3, <1>4, <1>5, <1>6, <1>7, <1>8, <1>9, <1>10 DEF Next, Environment

\* Every state of RecoveryWorkflow has its types.
THEOREM TypeCorrect == Spec => []TypeOK
<1>1. Init => TypeOK
  BY TypeInit
<1>2. TypeOK /\ [Next]_vars => TypeOK'
  BY TypeNext
<1> QED
  BY <1>1, <1>2, PTL DEF Spec

-----------------------------------------------------------------------------
(* The inductive invariant *)

\* The graph before the intake has claimed, sent and reflected on nothing.
LEMMA InvInit == Init => IInv
<1> SUFFICES ASSUME Init PROVE IInv
  OBVIOUS
<1> USE InvocationAssumption DEF Init, Invocations, NoMutation
<1>1. ShapeInv
  BY DEF ShapeInv, RunNodes, CallNodes, Node
<1>2. ReflectionInv
  BY DEF ReflectionInv, NoCheckpoint, FreshBrain
<1>3. ProgressInv
  BY DEF ProgressInv
<1>4. OwnerInv
  BY DEF OwnerInv, Owner
<1>5. OutcomeIsHonest /\ UnknownIsNotReplayed
  BY DEF OutcomeIsHonest, UnknownIsNotReplayed, None
<1> QED
  BY <1>1, <1>2, <1>3, <1>4, <1>5 DEF IInv

\* Winning a claim makes a Resume the owner of its key: while another owner of
\* the key exists, its claim stands or nobody is at the claim.
LEMMA InvClaim ==
    ASSUME TypeOK, IInv, NEW i \in Calls, ClaimAction(i)
    PROVE  IInv'
<1>1. ShapeInv' /\ ReflectionInv' /\ ProgressInv' /\ OutcomeIsHonest' /\ UnknownIsNotReplayed'
  BY InvocationAssumption
     DEF ClaimAction, Goto, TypeOK, Invocations, IInv, ShapeInv, ReflectionInv, ProgressInv,
         OutcomeIsHonest, UnknownIsNotReplayed, RunNodes, CallNodes, Node, NoMutation
<1>2. \A j \in Calls : Owner(j) => approval[j].key # approval[i].key
  BY DEF ClaimAction, IInv, OwnerInv
<1>3. \A j \in Calls : Owner(j)' <=> (j = i \/ Owner(j))
  BY DEF ClaimAction, Goto, Owner, TypeOK, Invocations
<1>4. approval[i].key \in Keys
  BY DEF ClaimAction, IInv, ShapeInv
<1>5. claims'[approval[i].key] # None
      /\ \A k \in Keys : k # approval[i].key => claims'[k] = claims[k]
  BY <1>4 DEF ClaimAction, TypeOK, None
<1>6. \A j \in Calls : pc'[j] = "claim" => pc[j] = "claim"
  BY DEF ClaimAction, Goto, TypeOK, Invocations
<1>7. \A j \in Calls : Owner(j) => approval[j].key \in Keys
  BY DEF IInv, ShapeInv, Owner
<1>8. approval' = approval /\ expired' = expired
  BY DEF ClaimAction
<1>9. OwnerInv'
  BY <1>2, <1>3, <1>5, <1>6, <1>7, <1>8 DEF IInv, OwnerInv
<1> QED
  BY <1>1, <1>9 DEF IInv

\* A step of a Resume keeps the invariant.
LEMMA InvCall ==
    ASSUME TypeOK, IInv, NEW i \in Calls, Step(i)
    PROVE  IInv'
<1> USE InvocationAssumption
    DEF TypeOK, Invocations, IInv, ShapeInv, ReflectionInv, ProgressInv, OwnerInv, Owner,
        OutcomeIsHonest, UnknownIsNotReplayed, RunNodes, CallNodes, Node, NoMutation
<1>1. CASE BrainTurnsExhausted(i)
  BY <1>1 DEF BrainTurnsExhausted, Goto, shared
<1>2. CASE BrainReflectionBlocked(i)
  BY <1>2 DEF BrainReflectionBlocked, Goto, shared
<1>3. CASE BrainCloses(i)
  BY <1>3 DEF BrainCloses, AfterLoop, Goto, shared
<1>4. CASE BrainFails(i)
  BY <1>4 DEF BrainFails, Goto, shared
<1>5. CASE PermissionGranted(i)
  BY <1>5 DEF PermissionGranted, CanMove, Successors, Goto
<1>6. CASE PermissionDenied(i)
  BY <1>6 DEF PermissionDenied, Goto, shared
<1>7. CASE Reject(i)
  BY <1>7 DEF Reject, MoveThen, Goto, shared
<1>8. CASE Approve(i)
  BY <1>8 DEF Approve, MoveThen, CanMove, Successors, Goto, shared
<1>9. CASE ApprovalContextRejected(i)
  BY <1>9 DEF ApprovalContextRejected, MoveThen, Goto, shared
<1>10. CASE BeginExecution(i)
  BY <1>10 DEF BeginExecution, Goto, shared
<1>11. CASE ExecutionRefused(i)
  BY <1>11 DEF ExecutionRefused, AfterMove, CanMove, Successors, Routed, Goto, shared
<1>12. CASE TargetStateMatches(i)
  BY <1>12 DEF TargetStateMatches, ContextValid, Goto, shared
<1>13. CASE TargetStateRefused(i)
  BY <1>13 DEF TargetStateRefused, ExecutionFailed, AfterMove, CanMove, Successors, Routed,
         AfterFailure, Goto, shared
<1>14. CASE ClaimAction(i)
  BY <1>14, InvClaim
<1>15. CASE ClaimTaken(i)
  BY <1>15 DEF ClaimTaken, ExecutionUnknown, AfterMove, CanMove, Successors, Routed, Goto,
         shared
<1>16. CASE ClaimError(i)
  BY <1>16 DEF ClaimError, ExecutionFailed, AfterMove, CanMove, Successors, Routed,
         AfterFailure, Goto
<1>17. CASE Mutate(i)
  BY <1>17 DEF Mutate, Mutation, Goto, shared
<1>18. CASE MutationConfirmed(i)
  BY <1>18 DEF MutationConfirmed, CompleteAction, MoveThen, CanMove, Successors, Routed,
         Goto
<1>19. CASE MutationUnconfirmed(i)
  BY <1>19 DEF MutationUnconfirmed, ExecutionUnknown, CompleteAction, AfterMove, CanMove,
         Successors, Routed, Goto
<1>20. CASE VerificationSucceeds(i)
  BY <1>20 DEF VerificationSucceeds, MoveThen, CanMove, Successors, Routed, Goto, shared
<1>21. CASE VerificationTimesOut(i)
  BY <1>21 DEF VerificationTimesOut, CanMove, Successors, Routed, AfterFailure, Goto, shared
<1>22. CASE VerificationContinues(i)
  BY <1>22 DEF VerificationContinues, shared
<1>23. CASE Finalize(i)
  BY <1>23 DEF Finalize, NoCheckpoint, FreshBrain, Goto
<1>24. ~(DryRunSucceeds(i) \/ DryRunFails(i) \/ RequestApproval(i))
  BY DEF DryRunSucceeds, DryRunFails, RequestApproval
<1> HIDE DEF TypeOK, IInv
<1> QED
  BY <1>1, <1>2, <1>3, <1>4, <1>5, <1>6, <1>7, <1>8, <1>9, <1>10, <1>11, <1>12, <1>13,
         <1>14, <1>15, <1>16, <1>17, <1>18, <1>19, <1>20, <1>21, <1>22, <1>23, <1>24 DEF Step,
         BrainStep, ProposalStep, ApprovalStep, ExecutionStep, VerificationStep

\* The Run never reaches the approval or what lies behind it.
LEMMA RunStopsAtApproval ==
    ASSUME IInv
    PROVE  ~(ApprovalStep(Run) \/ ExecutionStep(Run) \/ VerificationStep(Run))
<1>1. pc[Run] \in RunNodes
  BY DEF IInv, ShapeInv
<1>2. ~ApprovalStep(Run)
  BY <1>1 DEF RunNodes, ApprovalStep, Reject, Approve, ApprovalContextRejected
<1>3. ~ExecutionStep(Run)
  BY <1>1 DEF RunNodes, ExecutionStep, BeginExecution, ExecutionRefused, TargetStateMatches,
       TargetStateRefused, ClaimAction, ClaimTaken, ClaimError, Mutate, MutationConfirmed,
       MutationUnconfirmed
<1>4. ~VerificationStep(Run)
  BY <1>1 DEF RunNodes, VerificationStep, VerificationSucceeds, VerificationTimesOut,
       VerificationContinues
<1> QED
  BY <1>2, <1>3, <1>4

\* A step of the Run keeps the invariant.
LEMMA InvRun ==
    ASSUME TypeOK, IInv, Step(Run)
    PROVE  IInv'
<1> USE InvocationAssumption
    DEF TypeOK, Invocations, IInv, ShapeInv, ReflectionInv, ProgressInv, OwnerInv, Owner,
        OutcomeIsHonest, UnknownIsNotReplayed, RunNodes, CallNodes, Node, NoMutation
<1>1. CASE BrainTurnsExhausted(Run)
  BY <1>1 DEF BrainTurnsExhausted, Goto, shared
<1>2. CASE BrainReflectionBlocked(Run)
  BY <1>2 DEF BrainReflectionBlocked, Goto, shared
<1>3. CASE BrainCloses(Run)
  BY <1>3 DEF BrainCloses, AfterLoop, Goto, shared
<1>4. CASE BrainFails(Run)
  BY <1>4 DEF BrainFails, Goto, shared
<1>5. CASE PermissionGranted(Run)
  BY <1>5 DEF PermissionGranted, Goto
<1>6. CASE PermissionDenied(Run)
  BY <1>6 DEF PermissionDenied, Goto, shared
<1>7. CASE DryRunSucceeds(Run)
  BY <1>7 DEF DryRunSucceeds, Goto, shared
<1>8. CASE DryRunFails(Run)
  BY <1>8 DEF DryRunFails, MoveThen, Goto, shared
<1>9. CASE RequestApproval(Run)
  BY <1>9 DEF RequestApproval, MoveThen, Goto, Checkpoint
<1>10. CASE Finalize(Run)
  BY <1>10 DEF Finalize, NoCheckpoint, FreshBrain, Goto
<1> QED
  BY RunStopsAtApproval, <1>1, <1>2, <1>3, <1>4, <1>5, <1>6, <1>7, <1>8, <1>9, <1>10 DEF
         Step, BrainStep, ProposalStep

\* The API server decides the fate of a write and touches nothing else an
\* invocation can see.
LEMMA InvServer ==
    ASSUME TypeOK, IInv, NEW i \in Invocations, ServerApplies(i) \/ ServerDrops(i)
    PROVE  IInv'
<1>1. mutation[i].request = "sent" /\ mutation'[i].outcome = mutation[i].outcome
      /\ mutation'[i].request \in {"applied", "dropped"}
      /\ \A j \in Invocations : j # i => mutation'[j] = mutation[j]
  <2>1. mutation[i] \in [outcome : {None, "attempting", "succeeded", "failed", "unknown"},
                        request : {None, "sent", "applied", "dropped"},
                        base : TargetState, at : TargetState]
    BY DEF TypeOK, Mutation
  <2>2. CASE ServerApplies(i)
    <3>1. /\ mutation[i].request = "sent"
          /\ mutation' = [mutation EXCEPT ![i] = [@ EXCEPT !.request = "applied", !.at = target]]
      BY <2>2 DEF ServerApplies
    <3> QED
      BY <2>1, <3>1 DEF TypeOK
  <2>3. CASE ServerDrops(i)
    <3>1. mutation[i].request = "sent" /\ mutation' = [mutation EXCEPT ![i].request = "dropped"]
      BY <2>3 DEF ServerDrops
    <3> QED
      BY <2>1, <3>1 DEF TypeOK
  <2> QED
    BY <2>2, <2>3
<1>2. i # Run
  BY <1>1 DEF IInv, ShapeInv, NoMutation, None
<1>3. /\ pc' = pc /\ status' = status /\ brain' = brain /\ approval' = approval
      /\ checkpoint' = checkpoint /\ claims' = claims /\ expired' = expired
  BY DEF ServerApplies, ServerDrops, shared
<1>4. \A j \in Invocations :
         /\ mutation'[j].outcome = mutation[j].outcome
         /\ (mutation'[j].request # None) <=> (mutation[j].request # None)
  BY <1>1 DEF None
<1>5. ShapeInv'
  BY <1>1, <1>2, <1>3, <1>4, InvocationAssumption DEF IInv, ShapeInv, Invocations
<1>6. ReflectionInv'
  BY <1>3 DEF IInv, ReflectionInv
<1>7. ProgressInv'
  <2>1. pc[i] \notin {"idle", "approval", "executor"}
    BY <1>1, <1>2 DEF IInv, ProgressInv, NoMutation, None, Invocations
  <2> QED
    BY <1>1, <1>3, <1>4, <2>1 DEF IInv, ProgressInv, Invocations
<1>8. OwnerInv'
  <2>1. \A j \in Calls : Owner(j)' <=> Owner(j)
    BY <1>3, <1>4 DEF Owner, Invocations, None
  <2> QED
    BY <1>3, <2>1 DEF IInv, OwnerInv
<1>9. OutcomeIsHonest'
  BY <1>1, <1>4 DEF IInv, OutcomeIsHonest, None
<1>10. UnknownIsNotReplayed'
  BY <1>3, <1>4 DEF IInv, UnknownIsNotReplayed, Invocations
<1> QED
  BY <1>5, <1>6, <1>7, <1>8, <1>9, <1>10 DEF IInv

\* A step of the environment keeps the invariant.
LEMMA InvEnvironment ==
    ASSUME TypeOK, IInv, Environment
    PROVE  IInv'
<1> USE InvocationAssumption
    DEF TypeOK, Invocations, IInv, ShapeInv, ReflectionInv, ProgressInv, OwnerInv, Owner,
        OutcomeIsHonest, UnknownIsNotReplayed, RunNodes, CallNodes, Node, NoMutation
<1>1. ASSUME NEW i \in Calls, Resume(i) PROVE IInv'
  BY <1>1 DEF Resume, Goto, shared
<1>2. ASSUME NEW i \in Calls, ResumeWithoutCheckpoint(i) PROVE IInv'
  BY <1>2 DEF ResumeWithoutCheckpoint, Goto, shared
<1>3. ASSUME NEW i \in Invocations, ServerApplies(i) \/ ServerDrops(i) PROVE IInv'
  BY <1>3, InvServer
<1>4. CASE TargetChanges
  BY <1>4 DEF TargetChanges, private
<1>5. CASE Expire
  BY <1>5 DEF Expire, private
<1>6. CASE Crash
  BY <1>6 DEF Crash, Stopped
<1>7. ASSUME NEW k \in Keys, ClaimExpires(k) PROVE IInv'
  BY <1>7 DEF ClaimExpires, private
<1> QED
  BY <1>1, <1>2, <1>3, <1>4, <1>5, <1>6, <1>7 DEF Environment

\* Every step keeps the invariant.
LEMMA InvNext == TypeOK /\ IInv /\ [Next]_vars => IInv'
<1> SUFFICES ASSUME TypeOK, IInv, [Next]_vars PROVE IInv'
  OBVIOUS
<1>1. CASE Environment
  BY <1>1, InvEnvironment
<1>2. ASSUME NEW i \in Invocations, Step(i) PROVE IInv'
  BY <1>2, InvRun, InvCall DEF Invocations
<1>3. CASE UNCHANGED vars
  BY <1>3 DEF vars, private, shared, IInv, ShapeInv, ReflectionInv, ProgressInv, OwnerInv,
       Owner, OutcomeIsHonest, UnknownIsNotReplayed
<1> QED
  BY <1>1, <1>2, <1>3 DEF Next

\* The inductive invariant holds in every state.
THEOREM InvariantCorrect == Spec => []IInv
<1>1. Init => IInv
  BY InvInit
<1>2. TypeOK /\ IInv /\ [Next]_vars => IInv'
  BY InvNext
<1> QED
  BY <1>1, <1>2, TypeCorrect, PTL DEF Spec

\* However many Resume calls use a key, at most one of them sends a write to
\* the cluster (ClaimAction in KubernetesExecutor.Execute).
THEOREM OneMutationPerKey == Spec => []AtMostOneMutationPerKey
<1>1. IInv => AtMostOneMutationPerKey
  BY DEF IInv, OwnerInv, Owner, AtMostOneMutationPerKey
<1> QED
  BY <1>1, InvariantCorrect, PTL

\* A recorded failure was never sent, a recorded success was applied
\* (ErrActionResultUnknown covers the rest).
THEOREM HonestOutcome == Spec => []OutcomeIsHonest
<1>1. IInv => OutcomeIsHonest
  BY DEF IInv
<1> QED
  BY <1>1, InvariantCorrect, PTL

\* An unknown outcome ends the invocation and asks for attention.
THEOREM UnknownIsFinal == Spec => []UnknownIsNotReplayed
<1>1. IInv => UnknownIsNotReplayed
  BY DEF IInv
<1> QED
  BY <1>1, InvariantCorrect, PTL

\* A failed, unknown or finished recovery is never taken to a second dry run,
\* approval or execution by the same invocation (brainRecoveryPermissionNode
\* asks the transitions table).
THEOREM NoSecondRecovery == Spec => []FailedRecoveryIsNotReproposed
<1>1. IInv => FailedRecoveryIsNotReproposed
  BY InvocationAssumption
     DEF IInv, ShapeInv, ProgressInv, CallNodes, NoMutation, Invocations,
         FailedRecoveryIsNotReproposed
<1> QED
  BY <1>1, InvariantCorrect, PTL

-----------------------------------------------------------------------------
(* What a verdict of the verification rests on *)

\* The window holds the sample read last behind what it held before, without
\* its first sample when there were three.
LEMMA LastThreeAppend ==
    ASSUME NEW S, NEW s \in Seq(S), NEW e \in S, NEW w, w = LastThree(Append(s, e))
    PROVE  /\ Len(s) < 3 => /\ Len(w) = Len(s) + 1 /\ w[Len(s) + 1] = e
                            /\ \A n \in 1..Len(s) : w[n] = s[n]
           /\ Len(s) = 3 => /\ Len(w) = 3 /\ w[1] = s[2] /\ w[2] = s[3] /\ w[3] = e
<1> DEFINE t == Append(s, e)
<1>1. /\ t \in Seq(S) /\ Len(t) = Len(s) + 1 /\ Len(s) \in Nat
      /\ t[Len(s) + 1] = e
      /\ \A n \in 1..Len(s) : t[n] = s[n]
  BY AppendProperties, LenProperties
<1>2. w = IF Len(t) <= 3 THEN t ELSE SubSeq(t, Len(t) - 2, Len(t))
  BY DEF LastThree
<1> HIDE DEF t
<1>3. CASE Len(s) < 3
  BY <1>1, <1>2, <1>3
<1>4. CASE Len(s) = 3
  <2>1. Len(t) = 4 /\ w = SubSeq(t, 2, 4)
    BY <1>1, <1>2, <1>4
  <2>2. Len(w) = 3 /\ \A n \in 1..3 : w[n] = t[2 + n - 1]
    BY <1>1, <2>1, SubSeqProperties
  <2>3. w[1] = t[2] /\ w[2] = t[3] /\ w[3] = t[4]
    BY <2>2
  <2> QED
    BY <1>1, <1>4, <2>2, <2>3
<1> QED
  BY <1>1, <1>3, <1>4

\* A round keeps the meaning of the streak (runVerificationController).
LEMMA StreakKeeps ==
    ASSUME TypeOK, NEW i \in Invocations, NEW sample \in Sample, SampleAllowed(sample),
           StreakOf(verify[i]), verify[i].streak < 3
    PROVE  StreakOf(AfterRound(i, sample))
<1> DEFINE s == verify[i].samples
           k == verify[i].streak
           m == Len(s)
           w == LastThree(Append(s, sample))
           l == Len(w)
           u == AfterRound(i, sample)
<1>1. /\ k \in Nat /\ s \in Seq(Sample) /\ verify[i].previous \in NoCount..MaxRestarts
      /\ sample.healthy \in BOOLEAN /\ sample.restarts \in NoCount..MaxRestarts
  BY DEF TypeOK, Verify, Sample
<1>2. m <= 3 /\ k <= m /\ (k > 0 => verify[i].previous = s[m].restarts
                                    /\ verify[i].previous # NoCount)
  BY DEF StreakOf
<1>3. ASSUME NEW n \in 1..m
      PROVE  /\ n > m - k => s[n].healthy
             /\ n > m - k + 1 => s[n].restarts <= s[n - 1].restarts
  BY DEF StreakOf
<1>4. m \in Nat
  BY <1>1, LenProperties
<1>5. /\ m < 3 => l = m + 1 /\ w[m + 1] = sample /\ \A n \in 1..m : w[n] = s[n]
      /\ m = 3 => l = 3 /\ w[1] = s[2] /\ w[2] = s[3] /\ w[3] = sample
  BY <1>1, LastThreeAppend
<1>6. /\ u.samples = w /\ Len(u.samples) = l
      /\ u.streak = IF sample.healthy /\ RestartsStable(i, sample) THEN k + 1 ELSE 0
      /\ u.previous = IF sample.restarts = NoCount THEN verify[i].previous ELSE sample.restarts
  BY DEF AfterRound
<1> HIDE DEF s, k, m, w, l, u
<1>7. k \in 0..2 /\ m \in 0..3 /\ l \in 1..3 /\ k < l
  BY <1>1, <1>2, <1>4, <1>5 DEF k
<1>8. w[l] = sample
  BY <1>5, <1>7
<1>9. CASE ~(sample.healthy /\ RestartsStable(i, sample))
  <2>1. u.streak = 0
    BY <1>6, <1>9
  <2>2. \A n \in 1..l : ~(n > l - 0) /\ ~(n > l - 0 + 1)
    BY <1>7
  <2> QED
    BY <1>6, <1>7, <2>1, <2>2 DEF StreakOf, u
<1>10. CASE sample.healthy /\ RestartsStable(i, sample)
  <2>1. sample.restarts # NoCount /\ u.previous = sample.restarts /\ u.streak = k + 1
    BY <1>6, <1>10 DEF SampleAllowed
  <2>2. k > 0 => sample.restarts <= s[m].restarts
    BY <1>2, <1>10, <2>1 DEF RestartsStable
  <2>3. ASSUME NEW n \in 1..l
        PROVE  /\ n > l - (k + 1) => w[n].healthy
               /\ n > l - (k + 1) + 1 => w[n].restarts <= w[n - 1].restarts
    <3>1. CASE n = l
      <4>1. l > l - (k + 1) + 1 => k > 0 /\ w[l - 1] = s[m]
        BY <1>5, <1>7
      <4> QED
        BY <1>8, <1>10, <2>2, <3>1, <4>1
    <3>2. CASE n < l /\ m < 3
      <4>1. n \in 1..m /\ w[n] = s[n] /\ (n - 1 \in 1..m => w[n - 1] = s[n - 1])
        BY <1>5, <1>7, <3>2
      <4>2. /\ n > l - (k + 1) => n > m - k
            /\ n > l - (k + 1) + 1 => n > m - k + 1 /\ n - 1 \in 1..m
        BY <1>5, <1>7, <3>2
      <4> QED
        BY <1>3, <4>1, <4>2
    <3>3. CASE n < l /\ m = 3
      <4>1. n + 1 \in 1..m /\ w[n] = s[n + 1] /\ (n = 2 => w[n - 1] = s[n])
        BY <1>5, <1>7, <3>3
      <4>2. /\ n > l - (k + 1) => n + 1 > m - k
            /\ n > l - (k + 1) + 1 => n + 1 > m - k + 1 /\ n = 2
        BY <1>5, <1>7, <3>3
      <4>3. /\ n + 1 > m - k => s[n + 1].healthy
            /\ n + 1 > m - k + 1 => s[n + 1].restarts <= s[(n + 1) - 1].restarts
        BY <1>3, <4>1
      <4>4. (n + 1) - 1 = n
        OBVIOUS
      <4> QED
        BY <4>1, <4>2, <4>3, <4>4
    <3> QED
      BY <1>7, <3>1, <3>2, <3>3
  <2> QED
    BY <1>6, <1>7, <1>8, <2>1, <2>3 DEF StreakOf, u
<1> QED
  BY <1>9, <1>10 DEF u

\* Three in a row are a clean window.
LEMMA ThreeAreClean ==
    ASSUME NEW v \in Verify, StreakOf(v), v.streak >= 3
    PROVE  CleanWindow(v.samples)
<1> DEFINE k == v.streak
           m == Len(v.samples)
<1>1. k \in Nat /\ m \in Nat /\ k >= 3
  BY LenProperties DEF Verify
<1>2. m <= 3 /\ k <= m
  BY DEF StreakOf
<1> HIDE DEF k, m
<1>3. m = 3 /\ k = 3
  BY <1>1, <1>2
<1>4. \A n \in 1..3 :
        /\ n > 3 - 3 => v.samples[n].healthy
        /\ n > 3 - 3 + 1 => v.samples[n].restarts <= v.samples[n - 1].restarts
  BY <1>3 DEF StreakOf, k, m
<1>5. \A n \in 1..3 : n > 3 - 3 /\ (n \in 2..3 => n > 3 - 3 + 1)
  OBVIOUS
<1>6. 2..3 \subseteq 1..3
  OBVIOUS
<1> QED
  BY <1>3, <1>4, <1>5, <1>6 DEF CleanWindow, m

\* No sample was taken, and nothing is resolved.
LEMMA VerdictInit == Init => VerdictInv
<1> SUFFICES ASSUME Init PROVE VerdictInv
  OBVIOUS
<1>1. StreakOf(NoVerify)
  BY DEF StreakOf, NoVerify
<1> QED
  BY <1>1 DEF Init, VerdictInv, ResolvedIsEarned, NoVerify

\* A step of an invocation keeps what its verdict rests on.
LEMMA VerdictStep ==
    ASSUME TypeOK, IInv, VerdictInv, NEW i \in Invocations, Step(i)
    PROVE  VerdictInv'
<1> USE InvocationAssumption
    DEF TypeOK, Invocations, IInv, ShapeInv, ProgressInv, OutcomeIsHonest, RunNodes, CallNodes,
        Node, NoMutation, VerdictInv, ResolvedIsEarned, BeforeVerification
<1>1. CASE BrainStep(i)
  <2>1. pc[i] = "brain" /\ pc' \in {[pc EXCEPT ![i] = "permission"], [pc EXCEPT ![i] = "graph_error"]}
    BY <1>1 DEF BrainStep, BrainTurnsExhausted, BrainReflectionBlocked, BrainCloses, BrainFails,
           Goto
  <2>2. UNCHANGED <<status, mutation, verify>>
    BY <1>1 DEF BrainStep, BrainTurnsExhausted, BrainReflectionBlocked, BrainCloses, BrainFails
  <2> QED
    BY <2>1, <2>2
<1>2. CASE PermissionGranted(i) \/ PermissionDenied(i)
  BY <1>2 DEF PermissionGranted, PermissionDenied, CanMove, Successors, Goto, shared
<1>3. CASE DryRunSucceeds(i) \/ DryRunFails(i) \/ RequestApproval(i)
  BY <1>3 DEF DryRunSucceeds, DryRunFails, RequestApproval, MoveThen, CanMove, Successors, Goto,
         shared
<1>4. CASE ApprovalStep(i)
  BY <1>4 DEF ApprovalStep, Reject, Approve, ApprovalContextRejected, MoveThen, CanMove,
         Successors, Goto, shared
<1>5. CASE BeginExecution(i) \/ ExecutionRefused(i) \/ TargetStateMatches(i) \/ ClaimAction(i)
  BY <1>5 DEF BeginExecution, ExecutionRefused, TargetStateMatches, ClaimAction, AfterMove,
         CanMove, Successors, Routed, Goto, shared
<1>6. CASE TargetStateRefused(i) \/ ClaimError(i)
  BY <1>6 DEF TargetStateRefused, ClaimError, ExecutionFailed, AfterMove, CanMove, Successors,
         Routed, AfterFailure, Goto, shared
<1>7. CASE ClaimTaken(i) \/ MutationUnconfirmed(i)
  BY <1>7 DEF ClaimTaken, MutationUnconfirmed, ExecutionUnknown, AfterMove, CanMove, Successors,
         Routed, Goto, shared
<1>8. CASE Mutate(i)
  BY <1>8 DEF Mutate, Goto, shared
<1>9. CASE MutationConfirmed(i)
  BY <1>9 DEF MutationConfirmed, MoveThen, CanMove, Successors, Routed, NoVerify, Goto
<1>10. CASE VerificationSucceeds(i)
  <2>1. PICK sample \in Sample :
          /\ SampleAllowed(sample) /\ AfterRound(i, sample).streak >= 3
          /\ verify' = [verify EXCEPT ![i] = AfterRound(i, sample)]
    BY <1>10 DEF VerificationSucceeds
  <2>2. StreakOf(AfterRound(i, sample)) /\ AfterRound(i, sample) \in Verify
    BY <1>10, <2>1, StreakKeeps, AfterRoundType DEF VerificationSucceeds
  <2>3. CleanWindow(AfterRound(i, sample).samples)
    BY <2>1, <2>2, ThreeAreClean
  <2>4. i \in Calls /\ mutation[i].outcome = "succeeded" /\ mutation[i].request = "applied"
    BY <1>10 DEF VerificationSucceeds
  <2> QED
    BY <1>10, <2>1, <2>2, <2>3, <2>4
       DEF VerificationSucceeds, MoveThen, CanMove, Successors, Routed, Goto, shared
<1>11. CASE VerificationTimesOut(i) \/ VerificationContinues(i)
  <2>1. PICK sample \in Sample :
          /\ SampleAllowed(sample) /\ AfterRound(i, sample).streak < 3
          /\ verify' = [verify EXCEPT ![i] = AfterRound(i, sample)]
    BY <1>11 DEF VerificationTimesOut, VerificationContinues
  <2>2. StreakOf(AfterRound(i, sample))
    BY <1>11, <2>1, StreakKeeps DEF VerificationTimesOut, VerificationContinues
  <2>3. i \in Calls /\ status[i] = "VERIFYING"
    BY <1>11 DEF VerificationTimesOut, VerificationContinues
  <2> QED
    BY <1>11, <2>1, <2>2, <2>3
       DEF VerificationTimesOut, VerificationContinues, CanMove, Successors, Routed, AfterFailure,
           Goto, shared
<1>12. CASE Finalize(i)
  BY <1>12 DEF Finalize, Goto
<1> QED
  BY <1>1, <1>2, <1>3, <1>4, <1>5, <1>6, <1>7, <1>8, <1>9, <1>10, <1>11, <1>12
     DEF Step, ProposalStep, ExecutionStep, VerificationStep

\* Every step keeps what verdicts rest on: the surroundings take no sample, and
\* a write that was applied stays applied.
LEMMA VerdictNext == TypeOK /\ IInv /\ VerdictInv /\ [Next]_vars => VerdictInv'
<1> SUFFICES ASSUME TypeOK, IInv, VerdictInv, [Next]_vars PROVE VerdictInv'
  OBVIOUS
<1> USE DEF VerdictInv, ResolvedIsEarned, BeforeVerification
<1>1. ASSUME NEW i \in Calls, Resume(i) \/ ResumeWithoutCheckpoint(i) PROVE VerdictInv'
  BY <1>1 DEF Resume, ResumeWithoutCheckpoint, TypeOK, Invocations, Goto, shared
<1>2. ASSUME NEW i \in Invocations, ServerApplies(i) \/ ServerDrops(i) PROVE VerdictInv'
  <2>1. mutation[i].request = "sent" /\ pc' = pc /\ status' = status /\ verify' = verify
        /\ \A j \in Invocations : j # i => mutation'[j] = mutation[j]
    BY <1>2 DEF ServerApplies, ServerDrops, TypeOK, shared
  <2> QED
    BY <2>1
<1>3. CASE TargetChanges \/ Expire \/ \E k \in Keys : ClaimExpires(k)
  BY <1>3 DEF TargetChanges, Expire, ClaimExpires, private
<1>4. CASE Crash
  BY <1>4 DEF Crash, TypeOK, Stopped
<1>5. ASSUME NEW i \in Invocations, Step(i) PROVE VerdictInv'
  BY <1>5, VerdictStep
<1>6. CASE UNCHANGED vars
  BY <1>6 DEF vars, private, shared
<1> QED
  BY <1>1, <1>2, <1>3, <1>4, <1>5, <1>6 DEF Next, Environment

\* The invariant behind the two theorems below.
THEOREM VerdictCorrect == Spec => []VerdictInv
<1>1. Init => VerdictInv
  BY VerdictInit
<1>2. TypeOK /\ IInv /\ VerdictInv /\ [Next]_vars => VerdictInv'
  BY VerdictNext
<1> QED
  BY <1>1, <1>2, TypeCorrect, InvariantCorrect, PTL DEF Spec

\* An incident is resolved only when the approved write was applied and the last
\* three rounds were healthy with no more restarts (runVerificationController).
THEOREM ResolutionIsEarned == Spec => []ResolvedIsEarned
<1>1. VerdictInv => ResolvedIsEarned
  BY DEF VerdictInv
<1> QED
  BY <1>1, VerdictCorrect, PTL

\* The statuses an invocation does not leave again.
Settled == {"RESOLVED", "REJECTED", "RECOVERY_FAILED", "NEEDS_ATTENTION"}

\* The table leads from a settled status to RECEIVED only, which no node of the
\* graph asks for: a refused transition leaves the status alone.
LEMMA StatusStep ==
    ASSUME TypeOK, NEW i \in Invocations, Step(i), status[i] \in Settled
    PROVE  status' = status
<1> USE DEF TypeOK, Settled, CanMove, Successors, AfterMove
<1>1. CASE BrainStep(i)
  BY <1>1 DEF BrainStep, BrainTurnsExhausted, BrainReflectionBlocked, BrainCloses, BrainFails
<1>2. CASE PermissionGranted(i) \/ PermissionDenied(i)
  BY <1>2 DEF PermissionGranted, PermissionDenied
<1>3. CASE DryRunSucceeds(i) \/ DryRunFails(i) \/ RequestApproval(i)
  BY <1>3 DEF DryRunSucceeds, DryRunFails, RequestApproval, MoveThen
<1>4. CASE ApprovalStep(i)
  BY <1>4 DEF ApprovalStep, Reject, Approve, ApprovalContextRejected, MoveThen
<1>5. CASE BeginExecution(i) \/ ExecutionRefused(i) \/ TargetStateMatches(i) \/ ClaimAction(i)
           \/ Mutate(i)
  BY <1>5 DEF BeginExecution, ExecutionRefused, TargetStateMatches, ClaimAction, Mutate
<1>6. CASE TargetStateRefused(i) \/ ClaimError(i)
  BY <1>6 DEF TargetStateRefused, ClaimError, ExecutionFailed
<1>7. CASE ClaimTaken(i) \/ MutationUnconfirmed(i)
  BY <1>7 DEF ClaimTaken, MutationUnconfirmed, ExecutionUnknown
<1>8. CASE MutationConfirmed(i) \/ VerificationStep(i)
  BY <1>8 DEF MutationConfirmed, VerificationStep, VerificationSucceeds, VerificationTimesOut,
         VerificationContinues, MoveThen
<1>9. CASE Finalize(i)
  BY <1>9 DEF Finalize
<1> QED
  BY <1>1, <1>2, <1>3, <1>4, <1>5, <1>6, <1>7, <1>8, <1>9
     DEF Step, ProposalStep, ExecutionStep

\* A step of one invocation is private to it.
LEMMA OnlyOwnStatus ==
    ASSUME TypeOK, NEW i \in Invocations, Step(i), NEW j \in Invocations, i # j
    PROVE  status'[j] = status[j]
BY DEF TypeOK, Step, BrainStep, BrainTurnsExhausted, BrainReflectionBlocked, BrainCloses, BrainFails,
       ProposalStep, PermissionGranted, PermissionDenied, DryRunSucceeds, DryRunFails,
       RequestApproval, ApprovalStep, Reject, Approve, ApprovalContextRejected, ExecutionStep,
       BeginExecution, ExecutionRefused, TargetStateMatches, TargetStateRefused, ClaimAction,
       ClaimTaken, ClaimError, Mutate, MutationConfirmed, MutationUnconfirmed, ExecutionFailed,
       ExecutionUnknown, VerificationStep, VerificationSucceeds, VerificationTimesOut,
       VerificationContinues, Finalize, MoveThen

\* Within an invocation a settled status never changes, although the graph can
\* run the Brain and the permission node again behind it (transition).
THEOREM SettledIsFinal == Spec => SettledStatusIsFinal
<1> DEFINE Stays == \A i \in Invocations : status[i] \in Settled => status'[i] = status[i]
<1>1. TypeOK /\ IInv /\ VerdictInv /\ [Next]_vars => [Stays]_vars
  <2> SUFFICES ASSUME TypeOK, IInv, VerdictInv, Next, NEW j \in Invocations, status[j] \in Settled
               PROVE  status'[j] = status[j]
    OBVIOUS
  <2>1. ASSUME NEW i \in Invocations, Step(i) PROVE status'[j] = status[j]
    <3>1. CASE i = j
      BY <2>1, <3>1, StatusStep
    <3>2. CASE i # j
      BY <2>1, <3>2, OnlyOwnStatus
    <3> QED
      BY <3>1, <3>2
  <2>2. ASSUME NEW i \in Calls, Resume(i) \/ ResumeWithoutCheckpoint(i)
        PROVE  status'[j] = status[j]
    BY <2>2 DEF Resume, ResumeWithoutCheckpoint, TypeOK, VerdictInv, Settled, Invocations
  <2>3. CASE Environment /\ ~ \E i \in Calls : Resume(i) \/ ResumeWithoutCheckpoint(i)
    BY <2>3 DEF Environment, ServerApplies, ServerDrops, TargetChanges, Expire, Crash,
           ClaimExpires, private
  <2> QED
    BY <2>1, <2>2, <2>3 DEF Next
<1>2. [Stays]_vars => [\A i \in Invocations :
         status[i] \in {"RESOLVED", "REJECTED", "RECOVERY_FAILED", "NEEDS_ATTENTION"}
            => status'[i] = status[i]]_vars
  BY DEF Settled
<1> QED
  BY <1>1, <1>2, TypeCorrect, InvariantCorrect, VerdictCorrect, PTL DEF Spec, SettledStatusIsFinal

-----------------------------------------------------------------------------
(* The approval behind a write *)

\* Nothing is frozen, checkpointed or approved at first.
LEMMA ApprovalInit == Init => ApprovalInv
BY InvocationAssumption DEF Init, ApprovalInv, Invocations

\* A step of a Resume keeps the approval invariant.
LEMMA ApprovalCall ==
    ASSUME TypeOK, IInv, ApprovalInv, NEW i \in Calls, Step(i)
    PROVE  ApprovalInv'
<1> USE InvocationAssumption DEF TypeOK, Invocations, IInv, ShapeInv, ApprovalInv
<1>1. CASE BrainTurnsExhausted(i)
  BY <1>1 DEF BrainTurnsExhausted, Goto, shared
<1>2. CASE BrainReflectionBlocked(i)
  BY <1>2 DEF BrainReflectionBlocked, Goto, shared
<1>3. CASE BrainCloses(i)
  BY <1>3 DEF BrainCloses, Goto, shared
<1>4. CASE BrainFails(i)
  BY <1>4 DEF BrainFails, Goto, shared
<1>5. CASE PermissionGranted(i)
  <2>1. pc' \in {[pc EXCEPT ![i] = "dry_run"], [pc EXCEPT ![i] = "graph_error"]}
    BY <1>5 DEF PermissionGranted, Goto
  <2> QED
    BY <1>5, <2>1 DEF PermissionGranted
<1>6. CASE PermissionDenied(i)
  BY <1>6 DEF PermissionDenied, Goto, shared
<1>7. CASE Reject(i)
  BY <1>7 DEF Reject, MoveThen, Goto, shared
<1>8. CASE Approve(i)
  BY <1>8 DEF Approve, MoveThen, Goto, shared
<1>9. CASE ApprovalContextRejected(i)
  BY <1>9 DEF ApprovalContextRejected, MoveThen, Goto, shared
<1>10. CASE BeginExecution(i)
  BY <1>10 DEF BeginExecution, ContextValid, Goto, shared
<1>11. CASE ExecutionRefused(i)
  BY <1>11 DEF ExecutionRefused, Routed, Goto, shared
<1>12. CASE TargetStateMatches(i)
  BY <1>12 DEF TargetStateMatches, Goto, shared
<1>13. CASE TargetStateRefused(i)
  BY <1>13 DEF TargetStateRefused, ExecutionFailed, Routed, Goto, shared
<1>14. CASE ClaimAction(i)
  BY <1>14 DEF ClaimAction, Goto
<1>15. CASE ClaimTaken(i)
  BY <1>15 DEF ClaimTaken, ExecutionUnknown, Routed, Goto, shared
<1>16. CASE ClaimError(i)
  BY <1>16 DEF ClaimError, ExecutionFailed, Routed, Goto
<1>17. CASE Mutate(i)
  BY <1>17 DEF Mutate, Goto, shared
<1>18. CASE MutationConfirmed(i)
  BY <1>18 DEF MutationConfirmed, MoveThen, Routed, Goto
<1>19. CASE MutationUnconfirmed(i)
  BY <1>19 DEF MutationUnconfirmed, ExecutionUnknown, Routed, Goto
<1>20. CASE VerificationSucceeds(i)
  BY <1>20 DEF VerificationSucceeds, MoveThen, Routed, Goto, shared
<1>21. CASE VerificationTimesOut(i)
  BY <1>21 DEF VerificationTimesOut, Routed, Goto, shared
<1>22. CASE VerificationContinues(i)
  BY <1>22 DEF VerificationContinues, shared
<1>23. CASE Finalize(i)
  BY <1>23 DEF Finalize, Goto
<1>24. ~(DryRunSucceeds(i) \/ DryRunFails(i) \/ RequestApproval(i))
  BY DEF DryRunSucceeds, DryRunFails, RequestApproval, CallNodes, Node
<1> HIDE DEF TypeOK, IInv, ApprovalInv
<1> QED
  BY <1>1, <1>2, <1>3, <1>4, <1>5, <1>6, <1>7, <1>8, <1>9, <1>10, <1>11, <1>12, <1>13,
         <1>14, <1>15, <1>16, <1>17, <1>18, <1>19, <1>20, <1>21, <1>22, <1>23, <1>24 DEF Step,
         BrainStep, ProposalStep, ApprovalStep, ExecutionStep, VerificationStep

\* A step of the Run keeps it: the last one freezes the proposal in the
\* checkpoint, and before that there are neither checkpoint nor Resume.
LEMMA ApprovalRun ==
    ASSUME TypeOK, IInv, ApprovalInv, Step(Run)
    PROVE  ApprovalInv'
<1>1. pc[Run] # "interrupted"
  BY RunStopsAtApproval
     DEF Step, BrainStep, ProposalStep, BrainTurnsExhausted, BrainReflectionBlocked,
         BrainCloses, BrainFails, PermissionGranted, PermissionDenied, DryRunSucceeds,
         DryRunFails, RequestApproval, Finalize
<1>2. checkpoint = NoCheckpoint /\ \A i \in Calls : pc[i] = "idle" /\ approval[i] = NoApproval
  BY <1>1 DEF IInv, ShapeInv, ApprovalInv
<1>3. approval' = approval /\ \A i \in Calls : pc'[i] = "idle"
  BY <1>2, RunStopsAtApproval, InvocationAssumption
     DEF TypeOK, Invocations, Step, BrainStep, ProposalStep, BrainTurnsExhausted,
         BrainReflectionBlocked, BrainCloses, BrainFails, PermissionGranted, PermissionDenied,
         DryRunSucceeds, DryRunFails, RequestApproval, Finalize, MoveThen, Goto
<1>4. CASE RequestApproval(Run)
  <2>1. checkpoint'.proposal = proposal[Run] /\ proposal' = proposal
    BY <1>4 DEF RequestApproval
  <2>2. pc'[Run] = "interrupted"
    <3>1. status[Run] = "PROPOSING" /\ pc \in [Invocations -> Node] /\ Run \in Invocations
      BY <1>4 DEF RequestApproval, TypeOK, Invocations
    <3> QED
      BY <1>4, <3>1 DEF RequestApproval, MoveThen, CanMove, Successors, Goto
  <2> QED
    BY <1>2, <1>3, <2>1, <2>2 DEF ApprovalInv
<1>5. CASE ~RequestApproval(Run)
  <2>1. checkpoint' = NoCheckpoint
    BY <1>2, <1>5, RunStopsAtApproval
       DEF Step, BrainStep, ProposalStep, BrainTurnsExhausted, BrainReflectionBlocked,
           BrainCloses, BrainFails, PermissionGranted, PermissionDenied, DryRunSucceeds,
           DryRunFails, Finalize, shared
  <2> QED
    BY <1>2, <1>3, <2>1 DEF ApprovalInv
<1> QED
  BY <1>4, <1>5

\* A step of the environment keeps it: a Resume restores what was frozen.
LEMMA ApprovalEnvironment ==
    ASSUME TypeOK, IInv, ApprovalInv, Environment
    PROVE  ApprovalInv'
<1> USE InvocationAssumption DEF TypeOK, Invocations, ApprovalInv
<1>1. ASSUME NEW i \in Calls, Resume(i) PROVE ApprovalInv'
  BY <1>1 DEF Resume, Goto, shared
<1>2. ASSUME NEW i \in Calls, ResumeWithoutCheckpoint(i) PROVE ApprovalInv'
  BY <1>2 DEF ResumeWithoutCheckpoint, Goto, shared
<1>3. ASSUME NEW i \in Invocations, ServerApplies(i) \/ ServerDrops(i) PROVE ApprovalInv'
  BY <1>3 DEF ServerApplies, ServerDrops, shared
<1>4. CASE TargetChanges
  BY <1>4 DEF TargetChanges, private
<1>5. CASE Expire
  BY <1>5 DEF Expire, private
<1>6. CASE Crash
  BY <1>6 DEF Crash, Stopped
<1>7. ASSUME NEW k \in Keys, ClaimExpires(k) PROVE ApprovalInv'
  BY <1>7 DEF ClaimExpires, private
<1> QED
  BY <1>1, <1>2, <1>3, <1>4, <1>5, <1>6, <1>7 DEF Environment

\* Every step keeps it.
LEMMA ApprovalNext == TypeOK /\ IInv /\ ApprovalInv /\ [Next]_vars => ApprovalInv'
<1> SUFFICES ASSUME TypeOK, IInv, ApprovalInv, [Next]_vars PROVE ApprovalInv'
  OBVIOUS
<1>1. ASSUME NEW i \in Invocations, Step(i) PROVE ApprovalInv'
  BY <1>1, ApprovalRun, ApprovalCall DEF Invocations
<1>2. CASE UNCHANGED vars
  BY <1>2 DEF vars, private, shared, ApprovalInv
<1> QED
  BY <1>1, <1>2, ApprovalEnvironment DEF Next

\* The approval invariant holds in every state.
THEOREM ApprovalCorrect == Spec => []ApprovalInv
<1>1. Init => ApprovalInv
  BY ApprovalInit
<1>2. TypeOK /\ IInv /\ ApprovalInv /\ [Next]_vars => ApprovalInv'
  BY ApprovalNext
<1> QED
  BY <1>1, <1>2, TypeCorrect, InvariantCorrect, PTL DEF Spec

-----------------------------------------------------------------------------
(* The writes of a step *)

\* An invocation changes no approval, and only the mutate node sends a write.
LEMMA WritesStep ==
    ASSUME TypeOK, NEW i \in Invocations, Step(i)
    PROVE  /\ approval' = approval
           /\ Mutate(i) \/ \A j \in Invocations : mutation'[j].request = mutation[j].request
<1>1. ASSUME NEW outcome, mutation' = [mutation EXCEPT ![i].outcome = outcome]
      PROVE  \A j \in Invocations : mutation'[j].request = mutation[j].request
  <2>1. mutation \in [Invocations -> Mutation]
    BY DEF TypeOK
  <2> QED
    BY <1>1, <2>1 DEF Mutation
<1>2. CASE BrainStep(i)
  BY <1>2 DEF BrainStep, BrainTurnsExhausted, BrainReflectionBlocked, BrainCloses, BrainFails
<1>3. CASE ProposalStep(i)
  BY <1>3 DEF ProposalStep, PermissionGranted, PermissionDenied, DryRunSucceeds, DryRunFails,
         RequestApproval
<1>4. CASE ApprovalStep(i)
  BY <1>4 DEF ApprovalStep, Reject, Approve, ApprovalContextRejected
<1>5. CASE BeginExecution(i)
  BY <1>1, <1>5 DEF BeginExecution
<1>6. CASE ExecutionRefused(i) \/ TargetStateMatches(i) \/ ClaimAction(i)
  BY <1>6 DEF ExecutionRefused, TargetStateMatches, ClaimAction
<1>7. CASE TargetStateRefused(i) \/ ClaimError(i)
  BY <1>1, <1>7 DEF TargetStateRefused, ClaimError, ExecutionFailed
<1>8. CASE ClaimTaken(i) \/ MutationUnconfirmed(i)
  BY <1>1, <1>8 DEF ClaimTaken, MutationUnconfirmed, ExecutionUnknown
<1>9. CASE MutationConfirmed(i)
  BY <1>1, <1>9 DEF MutationConfirmed
<1>10. CASE Mutate(i)
  BY <1>10 DEF Mutate
<1>11. CASE VerificationStep(i)
  BY <1>11 DEF VerificationStep, VerificationSucceeds, VerificationTimesOut,
         VerificationContinues
<1>12. CASE Finalize(i)
  BY <1>12 DEF Finalize
<1> QED
  BY <1>2, <1>3, <1>4, <1>5, <1>6, <1>7, <1>8, <1>9, <1>10, <1>11, <1>12
     DEF Step, ExecutionStep

\* The mutate node belongs to a Resume and sends its first write.
LEMMA MutateSends ==
    ASSUME TypeOK, IInv, NEW i \in Invocations, Mutate(i)
    PROVE  /\ i \in Calls /\ pc[i] = "mutate"
           /\ mutation[i].request = None /\ mutation'[i].request = "sent"
           /\ \A j \in Invocations \ {i} : mutation'[j] = mutation[j]
<1>1. pc[i] = "mutate"
  BY DEF Mutate
<1>2. i \in Calls
  BY <1>1 DEF IInv, ShapeInv, RunNodes, Invocations
<1>3. mutation[i].request = None
  BY <1>1, <1>2 DEF IInv, ProgressInv
<1>4. mutation[i] \in Mutation
  BY DEF TypeOK
<1>5. \E base \in {NoTarget, target} :
        mutation' = [mutation EXCEPT ![i] = [@ EXCEPT !.request = "sent", !.base = base]]
  BY DEF Mutate
<1>6. mutation'[i].request = "sent" /\ \A j \in Invocations \ {i} : mutation'[j] = mutation[j]
  BY <1>4, <1>5 DEF TypeOK, Mutation
<1> QED
  BY <1>1, <1>2, <1>3, <1>6

\* The API server settles a write that was sent, by a Resume.
LEMMA ServerSettles ==
    ASSUME TypeOK, IInv, NEW i \in Invocations, ServerApplies(i) \/ ServerDrops(i)
    PROVE  /\ approval' = approval /\ i \in Calls
           /\ mutation[i].request = "sent"
           /\ mutation'[i].request \in {"applied", "dropped"}
           /\ \A j \in Invocations \ {i} : mutation'[j] = mutation[j]
<1>1. mutation[i].request = "sent" /\ approval' = approval
  BY DEF ServerApplies, ServerDrops
<1>2. i \in Calls
  BY <1>1 DEF IInv, ShapeInv, NoMutation, None, Invocations
<1>3. mutation[i] \in Mutation
  BY DEF TypeOK
<1>4. CASE ServerApplies(i)
  <2>1. mutation' = [mutation EXCEPT ![i] = [@ EXCEPT !.request = "applied", !.at = target]]
    BY <1>4 DEF ServerApplies
  <2> QED
    BY <1>1, <1>2, <1>3, <2>1 DEF TypeOK, Mutation
<1>5. CASE ServerDrops(i)
  BY <1>1, <1>2, <1>3, <1>5 DEF ServerDrops, TypeOK, Mutation
<1> QED
  BY <1>4, <1>5

\* The rest of the environment writes nothing; a Resume brings the decision of
\* an invocation that had none.
LEMMA EnvironmentWrites ==
    ASSUME TypeOK, ApprovalInv, Environment,
           ~ \E i \in Invocations : ServerApplies(i) \/ ServerDrops(i)
    PROVE  /\ mutation' = mutation
           /\ \/ approval' = approval
              \/ \E i \in Calls : Resume(i) /\ approval[i] = NoApproval
BY DEF Environment, Resume, ResumeWithoutCheckpoint, TargetChanges, Expire, ClaimExpires, Crash,
       shared, private, ApprovalInv

\* Every write is of the proposal the Run froze, under an approval that
\* matches it (approvalNode, safety_action_executor, ActionExecutor).
THEOREM OnlyApprovedMutations == Spec => MutationIsApproved
<1> DEFINE Approved == \A i \in Invocations :
                         mutation[i].request = None /\ mutation'[i].request # None =>
                            /\ approval[i].decision = "approve" /\ approval[i].matches
                            /\ proposal[i] = proposal[Run] /\ proposal[Run] # NoTarget
<1>1. TypeOK /\ IInv /\ ApprovalInv /\ [Next]_vars => [Approved]_vars
  <2> SUFFICES ASSUME TypeOK, IInv, ApprovalInv, Next PROVE Approved
    OBVIOUS
  <2>1. ASSUME NEW i \in Invocations, Step(i) PROVE Approved
    <3>1. CASE Mutate(i)
      <4>1. i \in Calls /\ pc[i] = "mutate"
            /\ \A j \in Invocations \ {i} : mutation'[j] = mutation[j]
        BY <3>1, MutateSends
      <4> QED
        BY <4>1 DEF ApprovalInv
    <3>2. CASE ~Mutate(i)
      BY <2>1, <3>2, WritesStep
    <3> QED
      BY <3>1, <3>2
  <2>2. ASSUME NEW i \in Invocations, ServerApplies(i) \/ ServerDrops(i) PROVE Approved
    BY <2>2, ServerSettles DEF None
  <2>3. CASE Environment /\ ~ \E i \in Invocations : ServerApplies(i) \/ ServerDrops(i)
    BY <2>3, EnvironmentWrites
  <2> QED
    BY <2>1, <2>2, <2>3 DEF Next
<1> QED
  BY <1>1, TypeCorrect, InvariantCorrect, ApprovalCorrect, PTL DEF Spec, MutationIsApproved

-----------------------------------------------------------------------------
(* The refinement of ApprovedMutation *)

\* At first nothing is approved and nothing is written.
LEMMA LedgerInit == Init => Ledger!Init
<1> SUFFICES ASSUME Init PROVE Ledger!Init
  OBVIOUS
<1>1. ApprovedKeys = {}
  BY DEF Init, ApprovedKeys, NoApproval, None, Invocations
<1>2. \A k \in Keys : WritesOf(k) = {}
  BY DEF Init, WritesOf, NoMutation, Invocations
<1> QED
  BY <1>1, <1>2 DEF Ledger!Init

\* A step that changes neither a decision nor the fate of a write is a stutter.
LEMMA LedgerStutters ==
    ASSUME approval' = approval,
           \A j \in Calls : mutation'[j].request = mutation[j].request
    PROVE  ApprovedKeys' = ApprovedKeys /\ \A k \in Keys : WritesOf(k)' = WritesOf(k)
BY DEF ApprovedKeys, WritesOf

\* The one write of a key goes from one fate to the next, the writes of the
\* other keys keep theirs.
LEMMA LedgerWrites ==
    ASSUME IInv, NEW i \in Calls, NEW key \in Keys, NEW fate, fate # None,
           approval' = approval, approval[i].key = key,
           Owner(i)', OwnerInv', mutation'[i].request = fate,
           \A j \in Calls \ {i} : mutation'[j] = mutation[j]
    PROVE  /\ ApprovedKeys' = ApprovedKeys
           /\ WritesOf(key)' = {fate}
           /\ WritesOf(key) = {mutation[i].request} \ {None}
           /\ \A k \in Keys \ {key} : WritesOf(k)' = WritesOf(k)
<1>1. \A j \in Calls \ {i} : approval[j].key = key
                              => mutation'[j].request = None /\ mutation[j].request = None
  BY DEF OwnerInv, Owner
<1>2. ApprovedKeys' = ApprovedKeys
  BY DEF ApprovedKeys
<1>3. WritesOf(key)' = {fate}
  BY <1>1 DEF WritesOf
<1>4. WritesOf(key) = {mutation[i].request} \ {None}
  BY <1>1 DEF WritesOf
<1>5. \A k \in Keys \ {key} : WritesOf(k)' = WritesOf(k)
  BY DEF WritesOf
<1> QED
  BY <1>2, <1>3, <1>4, <1>5

\* Two functions that agree but at one argument differ by an EXCEPT.
LEMMA OneChange ==
    ASSUME NEW S, NEW f, NEW g, NEW x \in S, NEW v,
           f = [y \in S |-> f[y]], g = [y \in S |-> g[y]],
           g[x] = v, \A y \in S \ {x} : g[y] = f[y]
    PROVE  g = [f EXCEPT ![x] = v]
OBVIOUS

\* Every step is a step of the ledger or a stutter.
LEMMA LedgerNext ==
    TypeOK /\ IInv /\ IInv' /\ ApprovalInv /\ [Next]_vars => [Ledger!Next]_(Ledger!vars)
<1> SUFFICES ASSUME TypeOK, IInv, IInv', ApprovalInv, [Next]_vars
             PROVE  [Ledger!Next]_(Ledger!vars)
  OBVIOUS
<1> DEFINE write == [k \in Keys |-> WritesOf(k)]
<1>0. /\ write = [k \in Keys |-> write[k]] /\ write' = [k \in Keys |-> write'[k]]
      /\ \A k \in Keys : write[k] = WritesOf(k) /\ write'[k] = WritesOf(k)'
  OBVIOUS
<1>1. ASSUME approval' = approval,
             \A j \in Calls : mutation'[j].request = mutation[j].request
      PROVE  UNCHANGED Ledger!vars
  BY <1>1, LedgerStutters DEF Ledger!vars
<1>2. ASSUME NEW i \in Invocations, Mutate(i) PROVE Ledger!Next
  <2>1. i \in Calls /\ pc[i] = "mutate" /\ mutation[i].request = None
        /\ mutation'[i].request = "sent" /\ \A j \in Invocations \ {i} : mutation'[j] = mutation[j]
    BY <1>2, MutateSends
  <2>2. PICK key \in Keys : key = approval[i].key /\ key \in ApprovedKeys
    BY <2>1 DEF IInv, ShapeInv, ApprovalInv, ApprovedKeys
  <2>3. approval' = approval
    BY <1>2 DEF Mutate
  <2>4. Owner(i)' /\ OwnerInv'
    BY <2>1 DEF Owner, IInv, None
  <2>5. /\ ApprovedKeys' = ApprovedKeys
        /\ WritesOf(key)' = {"sent"} /\ WritesOf(key) = {}
        /\ \A k \in Keys \ {key} : WritesOf(k)' = WritesOf(k)
    BY <2>1, <2>2, <2>3, <2>4, LedgerWrites DEF None, Invocations
  <2>6. write' = [write EXCEPT ![key] = {"sent"}]
    <3>1. write'[key] = {"sent"} /\ \A k \in Keys \ {key} : write'[k] = write[k]
      BY <1>0, <2>2, <2>5
    <3> HIDE DEF write
    <3> QED
      BY <1>0, <2>2, <3>1, OneChange
  <2>7. Ledger!Send(key)
    BY <2>2, <2>5, <2>6 DEF Ledger!Send
  <2> QED
    BY <2>2, <2>7 DEF Ledger!Next
<1>3. ASSUME NEW i \in Invocations, ServerApplies(i) \/ ServerDrops(i) PROVE Ledger!Next
  <2> DEFINE fate == mutation'[i].request
  <2>1. approval' = approval /\ i \in Calls /\ mutation[i].request = "sent"
        /\ fate \in {"applied", "dropped"}
        /\ \A j \in Invocations \ {i} : mutation'[j] = mutation[j]
    BY <1>3, ServerSettles
  <2>2. PICK key \in Keys : key = approval[i].key
    BY <2>1 DEF IInv, ShapeInv, None
  <2>3. Owner(i)' /\ OwnerInv'
    BY <2>1 DEF Owner, IInv, None
  <2>4. /\ ApprovedKeys' = ApprovedKeys
        /\ WritesOf(key)' = {fate} /\ WritesOf(key) = {"sent"}
        /\ \A k \in Keys \ {key} : WritesOf(k)' = WritesOf(k)
    BY <2>1, <2>2, <2>3, LedgerWrites DEF None, Invocations
  <2>5. write' = [write EXCEPT ![key] = {fate}]
    <3>1. write'[key] = {fate} /\ \A k \in Keys \ {key} : write'[k] = write[k]
      BY <1>0, <2>2, <2>4
    <3> HIDE DEF write
    <3> QED
      BY <1>0, <2>2, <3>1, OneChange
  <2>6. Ledger!Settle(key, fate)
    BY <2>2, <2>4, <2>5 DEF Ledger!Settle
  <2> QED
    BY <2>1, <2>2, <2>6 DEF Ledger!Next
<1>4. ASSUME NEW i \in Calls, Resume(i), approval[i] = NoApproval
      PROVE  [Ledger!Next]_(Ledger!vars)
  <2>1. PICK decision \in {"approve", "reject"}, key \in Keys, matches \in BOOLEAN :
            approval' = [approval EXCEPT ![i] =
                           [decision |-> decision, key |-> key, matches |-> matches]]
    BY <1>4 DEF Resume
  <2>2. i \in Invocations /\ approval \in [Invocations -> Approval]
    BY DEF Invocations, TypeOK
  <2>3. mutation' = mutation /\ mutation[i].request = None
    <3>1. pc[i] = "idle"
      BY <1>4 DEF Resume
    <3> QED
      BY <1>4, <3>1 DEF Resume, IInv, ProgressInv, NoMutation
  <2>4. \A k \in Keys : WritesOf(k)' = WritesOf(k)
    BY <2>1, <2>2, <2>3 DEF WritesOf
  <2>5. write' = write
    BY <2>4
  <2>6. CASE decision = "approve"
    <3>1. ApprovedKeys' = ApprovedKeys \union {key}
      BY <1>4, <2>1, <2>2, <2>6 DEF ApprovedKeys, NoApproval, None
    <3>2. Ledger!Approve(key)
      BY <2>5, <3>1 DEF Ledger!Approve
    <3> QED
      BY <3>2 DEF Ledger!Next
  <2>7. CASE decision = "reject"
    <3>1. ApprovedKeys' = ApprovedKeys
      BY <1>4, <2>1, <2>2, <2>7 DEF ApprovedKeys, NoApproval, None
    <3> QED
      BY <2>5, <3>1 DEF Ledger!vars
  <2> QED
    BY <2>6, <2>7
<1>5. CASE Environment
  BY <1>1, <1>3, <1>4, <1>5, EnvironmentWrites
<1>6. ASSUME NEW i \in Invocations, Step(i) PROVE [Ledger!Next]_(Ledger!vars)
  BY <1>1, <1>2, <1>6, WritesStep DEF Invocations
<1>7. CASE UNCHANGED vars
  BY <1>1, <1>7 DEF vars, private
<1> QED
  BY <1>5, <1>6, <1>7 DEF Next

\* The recovery path implements the ledger of approved mutations: an approved
\* key is worth at most one write (Resume, approvalNode, KubernetesExecutor).
THEOREM LedgerImplemented == Spec => ImplementsLedger
<1>1. Init => Ledger!Init
  BY LedgerInit
<1>2. TypeOK /\ IInv /\ IInv' /\ ApprovalInv /\ [Next]_vars => [Ledger!Next]_(Ledger!vars)
  BY LedgerNext
<1> QED
  BY <1>1, <1>2, TypeCorrect, InvariantCorrect, ApprovalCorrect, PTL
     DEF Spec, ImplementsLedger, Ledger!Spec
=============================================================================
