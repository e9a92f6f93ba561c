-------------------------- MODULE RecoveryWorkflow --------------------------
(***************************************************************************)
(* The safety-governed recovery half of the Supervisor graph for one       *)
(* incident (agent/supervisor.go, agent/brain_recovery.go,                 *)
(* agent/recovery.go, internal/execution/action_executor.go):              *)
(*                                                                         *)
(*   brain -> permission -> dry_run -> validator -> approval -> executor   *)
(*         -> verification -> finalizer                                    *)
(*                                                                         *)
(* One invocation is the Supervisor.Run that proposes the recovery; the    *)
(* others are Supervisor.Resume calls.  Every Resume deserialises its own  *)
(* copy of the workflow state from the checkpoint store, so the calls run  *)
(* concurrently on private state and meet only in the checkpoint, in the   *)
(* Redis action guard and in the Kubernetes target.                        *)
(***************************************************************************)
EXTENDS Integers, Sequences, IncidentStatus

CONSTANTS
    Run,            \* the Supervisor.Run invocation
    Calls,          \* the Supervisor.Resume invocations
    Keys,           \* idempotency keys operators send
    ReflectionOn,   \* FALSE for the kubepilot-no-reflection method
    MaxTurns,       \* BrainBudget.Limits.MaxTurns
    MaxUnits,       \* BrainBudget.Limits.MaxReflectionCostUnits
    MaxRounds,      \* verification rounds that fit in VerificationTimeout
    MaxRestarts,    \* bound: restart counts a sample may show
    MaxVersion,     \* bound: target versions the environment creates
    MaxCrashes      \* bound: server crashes

ASSUME InvocationAssumption == Run \notin Calls
ASSUME BudgetAssumption == /\ MaxTurns \in Nat /\ MaxUnits \in Nat
                           /\ ReflectionOn \in BOOLEAN
ASSUME BoundAssumption == /\ MaxRounds \in Nat \ {0} /\ MaxRestarts \in Nat
                          /\ MaxVersion \in Nat \ {0} /\ MaxCrashes \in Nat

Invocations == {Run} \union Calls

VARIABLES
    (***********************************************************************)
    (* Private to one invocation (its deserialised WorkflowState)          *)
    (***********************************************************************)
    pc,         \* the graph node (or step of it) the invocation executes next
    status,     \* state.Incident.Status
    proposal,   \* the target uid/resourceVersion frozen into Incident.Proposal
    brain,      \* budget, plan, pending reflection and termination
    approval,   \* the ApprovalResumeData the caller passed
    mutation,   \* RecoveryExecution.Outcome and the fate of the API request
    verify,     \* VerificationState and the samples it was computed from
    (***********************************************************************)
    (* Shared and durable                                                  *)
    (***********************************************************************)
    checkpoint, \* Redis: the "incident:<id>" Eino checkpoint
    claims,     \* Redis: the "kubepilot:action:<incident>:<key>" entries
    target,     \* Kubernetes: uid and resourceVersion of the deployment
    expired,    \* the proposal's ExpiresAt has passed
    crashes

private == <<pc, status, proposal, brain, approval, mutation, verify>>
shared  == <<checkpoint, claims, target, expired, crashes>>
vars    == <<private, shared>>

-----------------------------------------------------------------------------
(* Types *)

None == "none"

Node == {"idle", "brain", "permission", "dry_run", "approval_request", "approval",
         "executor", "target_state", "claim", "mutate", "reply", "verification",
         "finalizer", "interrupted", "end", "graph_error", "crashed"}

\* Nodes in which no goroutine of the invocation is running.
Stopped == {"idle", "interrupted", "end", "graph_error", "crashed"}

TargetState == [uid : Nat, version : Nat]

\* No preconditions captured yet; an update that is not conditional.
NoTarget == [uid |-> 0, version |-> 0]

\* No restart count: the Kubernetes read of a round failed.
NoCount == -1

Trigger == {None, "RECOVERY_FAILURE", "VERIFICATION_FAILURE"}

\* HUMAN_ESCALATION stands for every reason other than a confident diagnosis
\* that the model itself may ask for in finish_investigation.
Termination == {None, "DIAGNOSIS_CONFIDENT", "HUMAN_ESCALATION", "BUDGET_EXHAUSTED",
                "SAFETY_BLOCKED", "APPROVAL_REJECTED", "RECOVERY_SUCCEEDED",
                "RECOVERY_FAILED", "EXECUTION_OUTCOME_UNKNOWN",
                "FATAL_INFRASTRUCTURE_ERROR"}

Brain == [turns : Nat, units : Nat, plan : BOOLEAN, pending : Trigger,
          pendingTermination : BOOLEAN, termination : Termination]

NoApproval == [decision |-> None, key |-> None, matches |-> FALSE]
Approval == {NoApproval} \union [decision : {"approve", "reject"}, key : Keys, matches : BOOLEAN]

\* outcome is RecoveryExecution.Outcome; request is the fate of the write sent
\* to the API server, base the resourceVersion it is conditional on (NoTarget
\* for the restart patch) and at the deployment it was applied to.
Mutation == [outcome : {None, "attempting", "succeeded", "failed", "unknown"},
             request : {None, "sent", "applied", "dropped"},
             base : TargetState, at : TargetState]

\* One combined verification round: did every applicable probe and the
\* Kubernetes readiness check pass, and which restart count (if any) was seen.
Sample == [healthy : BOOLEAN, restarts : NoCount..MaxRestarts]

Verify == [rounds : Nat, streak : Nat, previous : NoCount..MaxRestarts,
           samples : Seq(Sample)]

Checkpoint == [proposal : TargetState, brain : Brain]

TypeOK ==
    /\ pc \in [Invocations -> Node]
    /\ status \in [Invocations -> Status]
    /\ proposal \in [Invocations -> TargetState]
    /\ brain \in [Invocations -> Brain]
    /\ approval \in [Invocations -> Approval]
    /\ mutation \in [Invocations -> Mutation]
    /\ verify \in [Invocations -> Verify]
    /\ checkpoint \in Checkpoint
    /\ claims \in [Keys -> {None, "running", "succeeded", "unknown"}]
    /\ target \in TargetState
    /\ expired \in BOOLEAN
    /\ crashes \in Nat

-----------------------------------------------------------------------------
(* Initial state: the intake node has moved the incident to COLLECTING and *)
(* the Run invocation enters the Brain; no Resume call has been made.      *)

FreshBrain == [turns |-> 0, units |-> 0, plan |-> FALSE, pending |-> None,
               pendingTermination |-> FALSE, termination |-> None]

NoMutation == [outcome |-> None, request |-> None, base |-> NoTarget, at |-> NoTarget]

NoCheckpoint == [proposal |-> NoTarget, brain |-> FreshBrain]

NoVerify == [rounds |-> 0, streak |-> 0, previous |-> NoCount, samples |-> <<>>]

Init ==
    /\ pc = [i \in Invocations |-> IF i = Run THEN "brain" ELSE "idle"]
    /\ status = [i \in Invocations |-> "COLLECTING"]
    /\ proposal = [i \in Invocations |-> NoTarget]
    /\ brain = [i \in Invocations |-> FreshBrain]
    /\ approval = [i \in Invocations |-> NoApproval]
    /\ mutation = [i \in Invocations |-> NoMutation]
    /\ verify = [i \in Invocations |-> NoVerify]
    /\ checkpoint = NoCheckpoint
    /\ claims = [k \in Keys |-> None]
    /\ target = [uid |-> 1, version |-> 1]
    /\ expired = FALSE
    /\ crashes = 0

-----------------------------------------------------------------------------
(* Helpers *)

Goto(i, node) == pc' = [pc EXCEPT ![i] = node]

\* transition() followed by the next node; a move the table does not list is
\* returned as an error and aborts the graph.
MoveThen(i, to, node) ==
    IF CanMove(status[i], to)
    THEN status' = [status EXCEPT ![i] = to] /\ Goto(i, node)
    ELSE status' = status /\ Goto(i, "graph_error")

\* The branches behind the executor and the verification controller: a pending
\* reflection goes back to the Brain, whatever else the node decided.
Routed(b, node) == IF b.pending # None THEN "brain" ELSE node

ReflectionCost(trigger) ==
    IF trigger \in {"RECOVERY_FAILURE", "VERIFICATION_FAILURE"} THEN 3 ELSE 0

\* brainReflectionAvailable
ReflectionAvailable(i, trigger) ==
    ReflectionOn /\ brain[i].units + ReflectionCost(trigger) <= MaxUnits

\* The Brain state after a failed action or verification: one reflection is
\* scheduled when the budget allows it, else RECOVERY_FAILED is final.
AfterFailure(i, trigger) ==
    IF ReflectionAvailable(i, trigger)
    THEN [brain[i] EXCEPT !.pending = trigger, !.pendingTermination = TRUE, !.termination = None]
    ELSE [brain[i] EXCEPT !.termination = "RECOVERY_FAILED"]

\* Mutant: the frozen chain is not compared with the context.
ContextValid_AnyChain(i) ==
    approval[i].decision = "approve" /\ proposal[i] # NoTarget /\ ~expired

\* validateExecutionContext: the ids, hashes, target preconditions and
\* namespace of the context match the frozen chain and it has not expired.
ContextValid(i) ==
    /\ approval[i].decision = "approve"
    /\ approval[i].matches
    /\ proposal[i] # NoTarget
    /\ ~expired

-----------------------------------------------------------------------------
(* Brain, permission and dry run *)

\* The reflection charge on entry: the termination router sends a pending
\* reflection to the reflection router, which charges its cost, or drops it
\* for nothing when the method has no reflection.
EntryCharge(i) == IF ReflectionOn THEN ReflectionCost(brain[i].pending) ELSE 0

\* What the model spends in the loop before it closes: some turns, further
\* reflections of its own, and possibly a recovery plan.
AfterLoop(i, turns, units, plan, pendingTermination, reason) ==
    [turns |-> turns, units |-> units, plan |-> plan, pending |-> None,
     pendingTermination |-> pendingTermination, termination |-> reason]

\* terminationRouter on entry: the turn budget is spent already.
BrainTurnsExhausted(i) ==
    /\ pc[i] = "brain"
    /\ brain[i].turns >= MaxTurns
    /\ brain' = [brain EXCEPT ![i].termination = "BUDGET_EXHAUSTED"]
    /\ Goto(i, "permission")
    /\ UNCHANGED <<status, proposal, approval, mutation, verify, shared>>

\* reflectionRoute: no units are left for a reflection on a failed recovery.
BrainReflectionBlocked(i) ==
    /\ pc[i] = "brain"
    /\ brain[i].turns < MaxTurns
    /\ brain[i].pending # None /\ ReflectionOn
    /\ ~ReflectionAvailable(i, brain[i].pending)
    /\ brain' = [brain EXCEPT ![i] = [@ EXCEPT !.pending = None, !.termination = "SAFETY_BLOCKED"]]
    /\ Goto(i, "permission")
    /\ UNCHANGED <<status, proposal, approval, mutation, verify, shared>>

\* The loop runs and closes: the model asks for it, the turns run out, or the
\* reflection on a failed mutation or verification is accepted, which ends
\* the loop with the pending RECOVERY_FAILED termination.  Tool calls are not
\* counted: once they are spent, a pending reflection is dropped uncharged and
\* the model can close the loop, but not plan.
BrainCloses(i) ==
    /\ pc[i] = "brain"
    /\ brain[i].turns < MaxTurns
    /\ \E turns \in (brain[i].turns + 1)..MaxTurns, units \in brain[i].units..MaxUnits,
          plan \in {brain[i].plan, TRUE} :
         LET reflected == units >= brain[i].units + EntryCharge(i) IN
         /\ ~reflected => plan = brain[i].plan
         /\ \/ \E reason \in {"DIAGNOSIS_CONFIDENT", "HUMAN_ESCALATION"} :
                 brain' = [brain EXCEPT ![i] =
                    AfterLoop(i, turns, units, plan, @.pendingTermination, reason)]
            \/ /\ turns = MaxTurns
               /\ brain' = [brain EXCEPT ![i] =
                    AfterLoop(i, turns, units, plan, @.pendingTermination, "BUDGET_EXHAUSTED")]
            \/ /\ brain[i].pendingTermination /\ ReflectionOn /\ reflected
               /\ brain' = [brain EXCEPT ![i] =
                    AfterLoop(i, turns, units, plan, FALSE, "RECOVERY_FAILED")]
    /\ Goto(i, "permission")
    /\ UNCHANGED <<status, proposal, approval, mutation, verify, shared>>

\* The model, a tool or the graph itself fails (finalizeGraphFailure), or the
\* runtime no longer matches the frozen execution snapshot (contextBuilder).
BrainFails(i) ==
    /\ pc[i] = "brain"
    /\ brain[i].turns < MaxTurns
    /\ \E reason \in {"FATAL_INFRASTRUCTURE_ERROR", "SAFETY_BLOCKED"} :
         brain' = [brain EXCEPT ![i].termination = reason]
    /\ Goto(i, "graph_error")
    /\ UNCHANGED <<status, proposal, approval, mutation, verify, shared>>

\* Mutant: the node sets the status without asking the transitions table.
PermissionGranted_Unchecked(i) ==
    /\ pc[i] = "permission"
    /\ brain[i].plan
    /\ status' = [status EXCEPT ![i] = "PROPOSING"]
    /\ proposal' = [proposal EXCEPT ![i] = NoTarget]
    /\ expired' = FALSE
    /\ Goto(i, "dry_run")
    /\ UNCHANGED <<brain, approval, mutation, verify, checkpoint, claims, target, crashes>>

\* brainRecoveryPermissionNode with an eligible diagnosis and a plan whose
\* snapshots match: a proposal that expires in five minutes is created and
\* the incident moves COLLECTING -> DIAGNOSING -> PROPOSING.
PermissionGranted(i) ==
    LET from == IF status[i] = "COLLECTING" THEN "DIAGNOSING" ELSE status[i] IN
    /\ pc[i] = "permission"
    /\ brain[i].plan
    /\ IF CanMove(from, "PROPOSING")
       THEN /\ status' = [status EXCEPT ![i] = "PROPOSING"]
            /\ expired' = FALSE
            /\ Goto(i, "dry_run")
       ELSE /\ status' = [status EXCEPT ![i] = from]
            /\ expired' = expired
            /\ Goto(i, "graph_error")
    /\ proposal' = [proposal EXCEPT ![i] = NoTarget]
    /\ UNCHANGED <<brain, approval, mutation, verify, checkpoint, claims, target, crashes>>

\* finishBrainWithoutRecovery: not eligible, or no usable plan.  SAFETY_BLOCKED
\* stands for DIAGNOSIS_PROVISIONAL too.
PermissionDenied(i) ==
    LET from == IF status[i] = "COLLECTING" THEN "DIAGNOSING" ELSE status[i] IN
    /\ pc[i] = "permission"
    /\ brain' = [brain EXCEPT ![i].termination =
                   IF @ \in {None, "DIAGNOSIS_CONFIDENT"} THEN "SAFETY_BLOCKED" ELSE @]
    /\ IF CanMove(from, "NEEDS_ATTENTION")
       THEN status' = [status EXCEPT ![i] = "NEEDS_ATTENTION"] /\ Goto(i, "finalizer")
       ELSE status' = [status EXCEPT ![i] = from] /\ Goto(i, "graph_error")
    /\ UNCHANGED <<proposal, approval, mutation, verify, shared>>

\* brainDryRunNode: Prepare reads the target, the server-side dry run passes.
DryRunSucceeds(i) ==
    /\ pc[i] = "dry_run"
    /\ proposal' = [proposal EXCEPT ![i] = target]
    /\ Goto(i, "approval_request")
    /\ UNCHANGED <<status, brain, approval, mutation, verify, shared>>

\* ... or fails: plan, permission and proposal are dropped, a reflection is
\* requested and the incident goes back to DIAGNOSING.
DryRunFails(i) ==
    /\ pc[i] = "dry_run"
    /\ brain' = [brain EXCEPT ![i] = [@ EXCEPT !.plan = FALSE, !.pending = "RECOVERY_FAILURE",
                                               !.termination = None]]
    /\ proposal' = [proposal EXCEPT ![i] = NoTarget]
    /\ MoveThen(i, "DIAGNOSING", "brain")
    /\ UNCHANGED <<approval, mutation, verify, shared>>

\* recovery_proposal_validator and the first pass of approvalNode: the
\* interrupt writes the checkpoint and Run returns.
RequestApproval(i) ==
    /\ pc[i] = "approval_request"
    /\ status[i] = "PROPOSING" /\ proposal[i] # NoTarget
    /\ MoveThen(i, "AWAITING_APPROVAL", "interrupted")
    /\ checkpoint' = [proposal |-> proposal[i], brain |-> brain[i]]
    /\ UNCHANGED <<proposal, brain, approval, mutation, verify, claims, target, expired, crashes>>

-----------------------------------------------------------------------------
(* Resume and approval *)

\* Supervisor.Resume: the graph restarts at the interrupted node on a private
\* copy of the checkpointed state.  IncidentManager calls it only for an
\* incident whose Run was interrupted.
Resume(i) ==
    /\ i \in Calls
    /\ pc[i] = "idle" /\ pc[Run] = "interrupted"
    /\ checkpoint # NoCheckpoint
    /\ \E decision \in {"approve", "reject"}, key \in Keys, matches \in BOOLEAN :
         /\ decision = "reject" => ~matches
         /\ approval' = [approval EXCEPT ![i] =
                           [decision |-> decision, key |-> key, matches |-> matches]]
    /\ status' = [status EXCEPT ![i] = "AWAITING_APPROVAL"]
    /\ proposal' = [proposal EXCEPT ![i] = checkpoint.proposal]
    /\ brain' = [brain EXCEPT ![i] = checkpoint.brain]
    /\ Goto(i, "approval")
    /\ UNCHANGED <<mutation, verify, shared>>

\* ... or finds no checkpoint and starts the graph over on a nil state, which
\* the intake node cannot serve.
ResumeWithoutCheckpoint(i) ==
    /\ i \in Calls
    /\ pc[i] = "idle" /\ pc[Run] = "interrupted"
    /\ checkpoint = NoCheckpoint
    /\ Goto(i, "graph_error")
    /\ UNCHANGED <<status, proposal, brain, approval, mutation, verify, shared>>

\* approvalNode on resume, operator rejected.
Reject(i) ==
    /\ pc[i] = "approval" /\ approval[i].decision = "reject"
    /\ brain' = [brain EXCEPT ![i].termination = "APPROVAL_REJECTED"]
    /\ MoveThen(i, "REJECTED", "finalizer")
    /\ UNCHANGED <<proposal, approval, mutation, verify, shared>>

\* approvalNode on resume, the context matches the frozen chain.
Approve(i) ==
    /\ pc[i] = "approval" /\ approval[i].decision = "approve"
    /\ ContextValid(i)
    /\ MoveThen(i, "RECOVERING", "executor")
    /\ UNCHANGED <<proposal, brain, approval, mutation, verify, shared>>

\* approvalNode on resume, the context is stale or foreign.
ApprovalContextRejected(i) ==
    /\ pc[i] = "approval" /\ approval[i].decision = "approve"
    /\ ~ContextValid(i)
    /\ brain' = [brain EXCEPT ![i].termination = "SAFETY_BLOCKED"]
    /\ MoveThen(i, "NEEDS_ATTENTION", "finalizer")
    /\ UNCHANGED <<proposal, approval, mutation, verify, shared>>

-----------------------------------------------------------------------------
(* Safety action executor *)

\* The node validates again, records the attempt and calls the one capability
\* registered for the action.
BeginExecution(i) ==
    /\ pc[i] = "executor" /\ ContextValid(i)
    /\ mutation' = [mutation EXCEPT ![i].outcome = "attempting"]
    /\ Goto(i, "target_state")
    /\ UNCHANGED <<status, proposal, brain, approval, verify, shared>>

ExecutionRefused(i) ==
    /\ pc[i] = "executor" /\ ~ContextValid(i)
    /\ status' = [status EXCEPT ![i] = AfterMove(@, "NEEDS_ATTENTION")]
    /\ Goto(i, Routed(brain[i], "finalizer"))
    /\ UNCHANGED <<proposal, brain, approval, mutation, verify, shared>>

\* The error branch of the node for every error but an unknown result: outcome
\* "failed", RECOVERY_FAILED, and a reflection when the budget has one.
ExecutionFailed(i) ==
    /\ mutation' = [mutation EXCEPT ![i].outcome = "failed"]
    /\ brain' = [brain EXCEPT ![i] = AfterFailure(i, "RECOVERY_FAILURE")]
    /\ status' = [status EXCEPT ![i] = AfterMove(@, "RECOVERY_FAILED")]
    /\ Goto(i, Routed(AfterFailure(i, "RECOVERY_FAILURE"), "finalizer"))

\* Mutant: an unknown result is handled like any other failure.
ExecutionUnknown_Reflected(i) ==
    /\ mutation' = [mutation EXCEPT ![i].outcome = "unknown"]
    /\ brain' = [brain EXCEPT ![i] = AfterFailure(i, "RECOVERY_FAILURE")]
    /\ status' = [status EXCEPT ![i] = AfterMove(@, "RECOVERY_FAILED")]
    /\ Goto(i, Routed(AfterFailure(i, "RECOVERY_FAILURE"), "finalizer"))

\* ErrActionResultUnknown: outcome "unknown", never reflected on.
ExecutionUnknown(i) ==
    /\ mutation' = [mutation EXCEPT ![i].outcome = "unknown"]
    /\ brain' = [brain EXCEPT ![i].termination = "EXECUTION_OUTCOME_UNKNOWN"]
    /\ status' = [status EXCEPT ![i] = AfterMove(@, "NEEDS_ATTENTION")]
    /\ Goto(i, Routed(brain[i], "finalizer"))

\* The capability validates a third time and KubernetesExecutor.Execute reads
\* the target: uid and resourceVersion must be the proposal's.
TargetStateMatches(i) ==
    /\ pc[i] = "target_state"
    /\ ContextValid(i) /\ target = proposal[i]
    /\ Goto(i, "claim")
    /\ UNCHANGED <<status, proposal, brain, approval, mutation, verify, shared>>

\* ... they are not, the context expired, or the read fails.
TargetStateRefused(i) ==
    /\ pc[i] = "target_state"
    /\ ExecutionFailed(i)
    /\ UNCHANGED <<proposal, approval, verify, shared>>

\* Mutant: SET instead of SETNX.
ClaimAction_Overwrites(i) ==
    /\ pc[i] = "claim"
    /\ claims' = [claims EXCEPT ![approval[i].key] = "running"]
    /\ Goto(i, "mutate")
    /\ UNCHANGED <<status, proposal, brain, approval, mutation, verify,
                   checkpoint, target, expired, crashes>>

\* ClaimAction (SETNX) wins the idempotency key.
ClaimAction(i) ==
    /\ pc[i] = "claim" /\ claims[approval[i].key] = None
    /\ claims' = [claims EXCEPT ![approval[i].key] = "running"]
    /\ Goto(i, "mutate")
    /\ UNCHANGED <<status, proposal, brain, approval, mutation, verify,
                   checkpoint, target, expired, crashes>>

\* ClaimAction loses it: the action was started before and is not replayed.
ClaimTaken(i) ==
    /\ pc[i] = "claim" /\ claims[approval[i].key] # None
    /\ ExecutionUnknown(i)
    /\ UNCHANGED <<proposal, approval, verify, shared>>

\* The Redis call fails, before or after the key was set.
ClaimError(i) ==
    /\ pc[i] = "claim"
    /\ ExecutionFailed(i)
    /\ \/ claims' = claims
       \/ /\ claims[approval[i].key] = None
          /\ claims' = [claims EXCEPT ![approval[i].key] = "running"]
    /\ UNCHANGED <<proposal, approval, verify, checkpoint, target, expired, crashes>>

\* The write is sent: a strategic merge patch without precondition (restart),
\* or an update conditional on a resourceVersion read just before (scale,
\* rollback).
Mutate(i) ==
    /\ pc[i] = "mutate"
    /\ \E base \in {NoTarget, target} :
         mutation' = [mutation EXCEPT ![i] = [@ EXCEPT !.request = "sent", !.base = base]]
    /\ Goto(i, "reply")
    /\ UNCHANGED <<status, proposal, brain, approval, verify, shared>>

\* Mutants: the claim is released when the result is unknown; a status the
\* guard does not know is stored.
CompleteAction_Releases(i, result) ==
    claims' = [claims EXCEPT ![approval[i].key] = IF result = "unknown" THEN None ELSE result]
CompleteAction_OtherStatus(i, result) ==
    claims' = [claims EXCEPT ![approval[i].key] = IF @ = None THEN None ELSE "failed"]

\* CompleteAction overwrites the claim; its error is discarded.
CompleteAction(i, result) ==
    \/ claims' = [claims EXCEPT ![approval[i].key] = IF @ = None THEN None ELSE result]
    \/ claims' = claims

\* The API server confirms: MUTATION_CONFIRMED, and verification starts.
MutationConfirmed(i) ==
    /\ pc[i] = "reply" /\ mutation[i].request = "applied"
    /\ mutation' = [mutation EXCEPT ![i].outcome = "succeeded"]
    /\ CompleteAction(i, "succeeded")
    /\ MoveThen(i, "VERIFYING", Routed(brain[i], "verification"))
    /\ UNCHANGED <<proposal, brain, approval, verify, checkpoint, target, expired, crashes>>

\* Mutant: an error of the mutation call is taken for a failed mutation.
MutationUnconfirmed_Failed(i) ==
    /\ pc[i] \in {"mutate", "reply"}
    /\ ExecutionFailed(i)
    /\ CompleteAction(i, "unknown")
    /\ UNCHANGED <<proposal, approval, verify, checkpoint, target, expired, crashes>>

\* Any error or the 30 s capability timeout, whether or not the server has
\* applied, will apply or has rejected the write; a failed read before the
\* write (scale, rollback) never sends it.
MutationUnconfirmed(i) ==
    /\ pc[i] \in {"mutate", "reply"}
    /\ ExecutionUnknown(i)
    /\ CompleteAction(i, "unknown")
    /\ UNCHANGED <<proposal, approval, verify, checkpoint, target, expired, crashes>>

-----------------------------------------------------------------------------
(* Verification and finalizer *)

\* The last three samples, kept to state what a verdict was earned with.
LastThree(samples) ==
    IF Len(samples) <= 3 THEN samples ELSE SubSeq(samples, Len(samples) - 2, Len(samples))

\* restarts_stable: a restart count must not exceed the previous one read.
RestartsStable(i, sample) ==
    \/ sample.restarts = NoCount
    \/ verify[i].previous = NoCount
    \/ sample.restarts <= verify[i].previous

\* Mutants: a failed round does not reset the streak; rounds are not counted
\* against the deadline.
AfterRound_NoReset(i, sample) ==
    [rounds   |-> verify[i].rounds + 1,
     streak   |-> verify[i].streak
                    + (IF sample.healthy /\ RestartsStable(i, sample) THEN 1 ELSE 0),
     previous |-> IF sample.restarts = NoCount THEN verify[i].previous ELSE sample.restarts,
     samples  |-> LastThree(Append(verify[i].samples, sample))]
AfterRound_NoDeadline(i, sample) ==
    [rounds   |-> verify[i].rounds,
     streak   |-> IF sample.healthy /\ RestartsStable(i, sample) THEN verify[i].streak + 1 ELSE 0,
     previous |-> IF sample.restarts = NoCount THEN verify[i].previous ELSE sample.restarts,
     samples  |-> LastThree(Append(verify[i].samples, sample))]

\* One round of runVerificationController: attempts, the streak of successes
\* and the restart count remembered for the next round.
AfterRound(i, sample) ==
    LET success == sample.healthy /\ RestartsStable(i, sample) IN
    [rounds   |-> verify[i].rounds + 1,
     streak   |-> IF success THEN verify[i].streak + 1 ELSE 0,
     previous |-> IF sample.restarts = NoCount THEN verify[i].previous ELSE sample.restarts,
     samples  |-> LastThree(Append(verify[i].samples, sample))]

\* A healthy sample carries a restart count: the Kubernetes read succeeded.
SampleAllowed(sample) == sample.healthy => sample.restarts # NoCount

\* The third consecutive success resolves the incident, whatever the clock.
VerificationSucceeds(i) ==
    /\ pc[i] = "verification"
    /\ \E sample \in Sample :
         /\ SampleAllowed(sample)
         /\ AfterRound(i, sample).streak >= 3
         /\ verify' = [verify EXCEPT ![i] = AfterRound(i, sample)]
    /\ brain' = [brain EXCEPT ![i].termination =
                   IF CanMove(status[i], "RESOLVED") THEN "RECOVERY_SUCCEEDED" ELSE @]
    /\ MoveThen(i, "RESOLVED", Routed(brain[i], "finalizer"))
    /\ UNCHANGED <<proposal, approval, mutation, shared>>

\* Otherwise the deadline is checked; rounds may be slow, so it can pass
\* before MaxRounds rounds were run.  The wait for the next round would also end
\* with its context, but newWorkflowContext gives it no deadline and cancels it
\* only when the workflow returns, so that exit is never taken.
VerificationTimesOut(i) ==
    /\ pc[i] = "verification"
    /\ \E sample \in Sample :
         /\ SampleAllowed(sample)
         /\ AfterRound(i, sample).streak < 3
         /\ verify' = [verify EXCEPT ![i] = AfterRound(i, sample)]
    /\ IF CanMove(status[i], "RECOVERY_FAILED")
       THEN /\ status' = [status EXCEPT ![i] = "RECOVERY_FAILED"]
            /\ brain' = [brain EXCEPT ![i] = AfterFailure(i, "VERIFICATION_FAILURE")]
            /\ Goto(i, Routed(AfterFailure(i, "VERIFICATION_FAILURE"), "finalizer"))
       ELSE /\ UNCHANGED <<status, brain>>
            /\ Goto(i, "graph_error")
    /\ UNCHANGED <<proposal, approval, mutation, shared>>

VerificationContinues(i) ==
    /\ pc[i] = "verification"
    /\ \E sample \in Sample :
         /\ SampleAllowed(sample)
         /\ AfterRound(i, sample).streak < 3
         /\ AfterRound(i, sample).rounds < MaxRounds
         /\ verify' = [verify EXCEPT ![i] = AfterRound(i, sample)]
    /\ UNCHANGED <<pc, status, proposal, brain, approval, mutation, shared>>

\* incident_finalizer, after which Run or Resume deletes the checkpoint and
\* discards the error of the deletion.
Finalize(i) ==
    /\ pc[i] = "finalizer"
    /\ Goto(i, "end")
    /\ checkpoint' \in {NoCheckpoint, checkpoint}
    /\ UNCHANGED <<status, proposal, brain, approval, mutation, verify,
                   claims, target, expired, crashes>>

-----------------------------------------------------------------------------
(* Environment: the API server, other writers of the deployment, the clock *)
(* and the server process                                                  *)

\* The API server applies a write it received, possibly after the caller gave
\* up or died; a conditional one only to the version it is based on.
ServerApplies(i) ==
    /\ mutation[i].request = "sent"
    /\ mutation[i].base \in {NoTarget, target}
    /\ mutation' = [mutation EXCEPT ![i] = [@ EXCEPT !.request = "applied", !.at = target]]
    /\ target' = [target EXCEPT !.version = @ + 1]
    /\ UNCHANGED <<pc, status, proposal, brain, approval, verify,
                   checkpoint, claims, expired, crashes>>

\* The write is lost or refused (conflict, admission).
ServerDrops(i) ==
    /\ mutation[i].request = "sent"
    /\ mutation' = [mutation EXCEPT ![i].request = "dropped"]
    /\ UNCHANGED <<pc, status, proposal, brain, approval, verify, shared>>

\* Another controller or an operator updates or recreates the deployment.
TargetChanges ==
    /\ target.version < MaxVersion
    /\ \E recreated \in {0, 1} :
         target' = [uid |-> target.uid + recreated, version |-> target.version + 1]
    /\ UNCHANGED <<private, checkpoint, claims, expired, crashes>>

\* time.Now().After(ExpiresAt): five minutes after the permission node.
Expire ==
    /\ ~expired /\ expired' = TRUE
    /\ UNCHANGED <<private, checkpoint, claims, target, crashes>>

\* The 24 h TTL of a claim, long after the proposal's five minutes and the
\* 30 s an execution may take.
ClaimExpires(k) ==
    /\ expired
    /\ claims[k] # None
    /\ \A i \in Invocations :
         pc[i] \notin {"executor", "target_state", "claim", "mutate", "reply"}
    /\ claims' = [claims EXCEPT ![k] = None]
    /\ UNCHANGED <<private, checkpoint, target, expired, crashes>>

\* The server process dies: every running invocation is lost, what is in
\* Redis and in the API server stays.
Crash ==
    /\ crashes < MaxCrashes
    /\ crashes' = crashes + 1
    /\ pc' = [i \in Invocations |-> IF pc[i] \in Stopped THEN pc[i] ELSE "crashed"]
    /\ UNCHANGED <<status, proposal, brain, approval, mutation, verify,
                   checkpoint, claims, target, expired>>

-----------------------------------------------------------------------------
(* The specification *)

BrainStep(i) ==
    \/ BrainTurnsExhausted(i) \/ BrainReflectionBlocked(i)
    \/ BrainCloses(i) \/ BrainFails(i)

ProposalStep(i) ==
    \/ PermissionGranted(i) \/ PermissionDenied(i)
    \/ DryRunSucceeds(i) \/ DryRunFails(i) \/ RequestApproval(i)

ApprovalStep(i) == Reject(i) \/ Approve(i) \/ ApprovalContextRejected(i)

ExecutionStep(i) ==
    \/ BeginExecution(i) \/ ExecutionRefused(i)
    \/ TargetStateMatches(i) \/ TargetStateRefused(i)
    \/ ClaimAction(i) \/ ClaimTaken(i) \/ ClaimError(i)
    \/ Mutate(i) \/ MutationConfirmed(i) \/ MutationUnconfirmed(i)

VerificationStep(i) ==
    VerificationSucceeds(i) \/ VerificationTimesOut(i) \/ VerificationContinues(i)

\* One step of the goroutine that runs invocation i.
Step(i) ==
    \/ BrainStep(i) \/ ProposalStep(i) \/ ApprovalStep(i)
    \/ ExecutionStep(i) \/ VerificationStep(i) \/ Finalize(i)

Environment ==
    \/ \E i \in Calls : Resume(i) \/ ResumeWithoutCheckpoint(i)
    \/ \E i \in Invocations : ServerApplies(i) \/ ServerDrops(i)
    \/ TargetChanges \/ Expire \/ Crash
    \/ \E k \in Keys : ClaimExpires(k)

Next == Environment \/ \E i \in Invocations : Step(i)

\* A goroutine that can take a step takes one: every call it makes carries a
\* timeout.  Operators, the cluster and the clock owe nothing.
Fairness == \A i \in Invocations : WF_vars(Step(i))

Spec == Init /\ [][Next]_vars /\ Fairness

-----------------------------------------------------------------------------
(* Properties *)

\* An idempotency key carries at most one write to the cluster, however many
\* Resume calls use it at once, whatever Redis or the API server loses, and
\* after the claim's TTL too (ClaimAction in KubernetesExecutor.Execute).
AtMostOneMutationPerKey ==
    \A i, j \in Calls :
        /\ mutation[i].request # None /\ mutation[j].request # None
        /\ approval[i].key = approval[j].key
        => i = j

\* RecoveryExecution.Outcome never lies: "failed" means that no write was sent
\* (it is the one outcome the Brain may reflect on), "succeeded" that the
\* server applied it.  Whatever lies between is "unknown".
OutcomeIsHonest ==
    \A i \in Invocations :
        /\ mutation[i].outcome = "failed" => mutation[i].request = None
        /\ mutation[i].outcome = "succeeded" => mutation[i].request = "applied"

\* Only an operator's approval of exactly the proposal the Run froze leads to
\* a write (approvalNode, safety_action_executor, ActionExecutor).
MutationIsApproved ==
    [][\A i \in Invocations :
         mutation[i].request = None /\ mutation'[i].request # None =>
            /\ approval[i].decision = "approve" /\ approval[i].matches
            /\ proposal[i] = proposal[Run] /\ proposal[Run] # NoTarget]_vars

\* The samples of the window were all healthy, and no restart count in it was
\* above the one before.
CleanWindow(samples) ==
    /\ Len(samples) = 3
    /\ \A n \in 1..3 : samples[n].healthy
    /\ \A n \in 2..3 : samples[n].restarts <= samples[n - 1].restarts

\* RESOLVED is earned: the approved write was applied and the last three
\* rounds of runVerificationController were clean.
ResolvedIsEarned ==
    \A i \in Invocations :
        status[i] = "RESOLVED" =>
            /\ mutation[i].request = "applied" /\ mutation[i].outcome = "succeeded"
            /\ CleanWindow(verify[i].samples)

\* An unknown outcome is final for the invocation: it asks for attention and
\* is neither reflected on, verified nor replayed (ErrActionResultUnknown).
UnknownIsNotReplayed ==
    \A i \in Invocations :
        mutation[i].outcome = "unknown" =>
            /\ pc[i] \in {"finalizer", "end", "crashed"}
            /\ status[i] = "NEEDS_ATTENTION"
            /\ brain[i].termination = "EXECUTION_OUTCOME_UNKNOWN"

\* A recovery that failed after the approval sends the invocation back to the
\* Brain, which may plan again, but never to a second dry run or approval.
FailedRecoveryIsNotReproposed ==
    \A i \in Invocations :
        mutation[i].outcome # None =>
            pc[i] \notin {"dry_run", "approval_request", "interrupted", "approval", "executor"}

\* Within an invocation a settled status never changes, although the graph can
\* run the Brain and the permission node again behind it.
SettledStatusIsFinal ==
    [][\A i \in Invocations :
         status[i] \in {"RESOLVED", "REJECTED", "RECOVERY_FAILED", "NEEDS_ATTENTION"}
            => status'[i] = status[i]]_vars

\* Every invocation reaches the approval interrupt, the finalizer or an error:
\* the turn and reflection budgets bound the Brain and its dry runs, the
\* deadline bounds verification.
EveryInvocationSettles ==
    \A i \in Invocations : (pc[i] \notin Stopped) ~> (pc[i] \in Stopped)

\* The refinement mapping to ApprovedMutation: the keys approved so far and,
\* for each key, the fates of all the writes sent under it.
ApprovedKeys ==
    {k \in Keys : \E i \in Calls : approval[i].decision = "approve" /\ approval[i].key = k}

WritesOf(k) ==
    {mutation[i].request : i \in {c \in Calls : approval[c].key = k}} \ {None}

Ledger == INSTANCE ApprovedMutation
            WITH approvals <- ApprovedKeys, write <- [k \in Keys |-> WritesOf(k)]

\* The recovery path implements the ledger of approved mutations.
ImplementsLedger == Ledger!Spec

(***************************************************************************)
(* The inductive invariant behind AtMostOneMutationPerKey, OutcomeIsHonest *)
(* and UnknownIsNotReplayed                                                *)
(***************************************************************************)

\* The Run never gets past the interrupt, a Resume never gets before it.
RunNodes == {"brain", "permission", "dry_run", "approval_request", "interrupted",
             "finalizer", "end", "graph_error", "crashed"}

CallNodes == Node \ {"dry_run", "approval_request", "interrupted"}

ShapeInv ==
    /\ pc[Run] \in RunNodes /\ mutation[Run] = NoMutation
    /\ \A i \in Calls :
         /\ pc[i] \in CallNodes
         /\ pc[i] # "idle" => pc[Run] = "interrupted"
         /\ pc[i] \notin {"idle", "graph_error"} \/ mutation[i].request # None
              => approval[i].key \in Keys

\* A pending reflection belongs to a plan that was dropped, so it is never
\* carried into the checkpoint or the executor.
ReflectionInv ==
    /\ pc[Run] \in {"brain", "permission"} /\ brain[Run].pending # None => ~brain[Run].plan
    /\ pc[Run] \in {"dry_run", "approval_request"} => brain[Run].pending = None
    /\ checkpoint.brain.pending = None
    /\ \A i \in Calls :
         pc[i] \in {"approval", "executor", "target_state", "claim", "mutate", "reply",
                    "verification"}
            => brain[i].pending = None

\* How far the status and the execution record of a Resume have come.
ProgressInv ==
    \A i \in Calls :
        /\ pc[i] \in {"idle", "approval", "executor"} => mutation[i] = NoMutation
        /\ pc[i] = "approval" => status[i] = "AWAITING_APPROVAL"
        /\ pc[i] \in {"executor", "target_state", "claim", "mutate", "reply"}
             => status[i] = "RECOVERING"
        /\ pc[i] \in {"target_state", "claim", "mutate"}
             => mutation[i].request = None /\ mutation[i].outcome = "attempting"
        /\ pc[i] = "reply" => mutation[i].outcome = "attempting"
        /\ pc[i] = "verification"
             => status[i] = "VERIFYING" /\ mutation[i].outcome = "succeeded"
        /\ pc[i] \in {"brain", "permission"}
             => status[i] = "RECOVERY_FAILED" /\ mutation[i].outcome \in {"failed", "succeeded"}

\* Resume i has won the claim of its key and may have written.
Owner(i) == pc[i] = "mutate" \/ mutation[i].request # None

\* A key has one owner, and its claim stands until nobody can claim it again.
OwnerInv ==
    \A i \in Calls : Owner(i) =>
        /\ \A j \in Calls : Owner(j) /\ approval[j].key = approval[i].key => i = j
        /\ \/ claims[approval[i].key] # None
           \/ expired /\ \A j \in Calls : pc[j] # "claim"

IInv == /\ ShapeInv /\ ReflectionInv /\ ProgressInv /\ OwnerInv
        /\ OutcomeIsHonest /\ UnknownIsNotReplayed

(***************************************************************************)
(* ... and behind MutationIsApproved and ImplementsLedger, on top of IInv  *)
(***************************************************************************)

\* What is checkpointed, approved and written is what the Run froze, and a
\* Resume behind the executor node carries a matching approval of it.
ApprovalInv ==
    /\ checkpoint # NoCheckpoint
         => pc[Run] = "interrupted" /\ checkpoint.proposal = proposal[Run]
    /\ \A i \in Calls :
         /\ pc[i] = "idle" => approval[i] = NoApproval
         /\ pc[i] \in {"approval", "executor", "target_state", "claim", "mutate"}
              => proposal[i] = proposal[Run]
         /\ pc[i] \in {"target_state", "claim", "mutate"}
              => /\ approval[i].decision = "approve" /\ approval[i].matches
                 /\ proposal[i] # NoTarget

(***************************************************************************)
(* ... and behind ResolvedIsEarned and SettledStatusIsFinal                *)
(***************************************************************************)

\* The nodes of a Resume before its first verification round.
BeforeVerification ==
    {"idle", "approval", "executor", "target_state", "claim", "mutate", "reply"}

\* The last streak samples were healthy, none after the first of them saw more
\* restarts than the one before, and the count remembered is that of the last.
StreakOf(v) ==
    /\ Len(v.samples) <= 3 /\ v.streak <= Len(v.samples)
    /\ \A n \in 1..Len(v.samples) :
         /\ n > Len(v.samples) - v.streak => v.samples[n].healthy
         /\ n > Len(v.samples) - v.streak + 1 => v.samples[n].restarts <= v.samples[n - 1].restarts
    /\ v.streak > 0 =>
         /\ v.previous = v.samples[Len(v.samples)].restarts
         /\ v.previous # NoCount

\* What the verification of a Resume has seen; a status is set by its own node.
VerdictInv ==
    /\ \A i \in Invocations :
         /\ pc[i] = "idle" => status[i] = "COLLECTING"
         /\ StreakOf(verify[i])
         /\ pc[i] \in BeforeVerification => verify[i] = NoVerify
         /\ pc[i] = "verification" => verify[i].streak < 3
    /\ ResolvedIsEarned

(***************************************************************************)
(* Statements of the repository that the code does not keep                *)
(***************************************************************************)

\* README.md:112, "duplicate mutation [is a] protected invariant[]": one
\* approved proposal is applied at most once.
ProposalAppliedOnce ==
    \A i, j \in Invocations :
        mutation[i].request = "applied" /\ mutation[j].request = "applied" => i = j
=============================================================================
