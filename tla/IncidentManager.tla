--------------------------- MODULE IncidentManager ---------------------------
(***************************************************************************)
(* IncidentManager and the stored row of one incident                      *)
(* (internal/service/incidents.go, internal/store/postgres.go, store.go).  *)
(*                                                                         *)
(* Every HTTP handler and workflow goroutine reads a snapshot of the row,  *)
(* works on it for as long as it takes and writes the whole of it back;    *)
(* only status events and alerts are merged into the row as it is.  A      *)
(* handler and the goroutine it spawns are one task here.  The workflow    *)
(* graph shows only the statuses it passes through: RecoveryWorkflow has   *)
(* its recovery half.                                                      *)
(***************************************************************************)
EXTENDS Integers, IncidentStatus

CONSTANTS
    Creation,     \* the diagnosis spawned by Create or IngestAlert
    Retries,      \* Retry calls, each with the diagnosis it spawns
    Approvals,    \* Approve calls, each with the resumeWorkflow it spawns
    Alerts,       \* alerts IngestAlert merges into the incident
    Keys,         \* idempotency keys of Approve calls
    PolicyHash,   \* RuntimeHashes()'s policy hash
    MaxFaults     \* bound: failed store writes and server crashes

ASSUME TaskAssumption ==
    /\ Creation \notin Retries /\ Creation \notin Approvals
    /\ Retries \intersect Approvals = {}
ASSUME BoundAssumption == MaxFaults \in Nat

Diagnoses == {Creation} \union Retries
Tasks     == Diagnoses \union Approvals

VARIABLES
    row,        \* the stored incident
    checkpoint, \* the "incident:<id>" checkpoint: {} or the incident it would restore
    approvals,  \* the approvals table: keys taken
    expired,    \* proposals whose ExpiresAt has passed
    pc,         \* the step a task takes next
    in,         \* the snapshot a handler or goroutine read (`in` in the code)
    state,      \* state.Incident of the running graph, or what will be stored
    used,       \* the key and decision an Approve call recorded
    found,      \* per alert, the incident IngestAlert found for it, or {}
    merged,     \* alerts AppendAlert has merged
    faults

vars == <<row, checkpoint, approvals, expired, pc, in, state, used, found, merged, faults>>

-----------------------------------------------------------------------------
(* Types *)

None == "none"

\* An attempt and a proposal are named after the diagnosis that created them,
\* an interrupt after the diagnosis whose graph was interrupted.  hashed says
\* that SkillSnapshotHash is set; RankingPolicyHash is the empty string in
\* every incident: Retry clears it and nothing sets it.
Incident == [status : Status, attempt : {None} \union Diagnoses,
             proposal : {None} \union Diagnoses, interrupt : {None} \union Diagnoses,
             hashed : BOOLEAN, alerts : SUBSET Alerts]

NoHash == ""

NoDecision == [key |-> None, decision |-> None]
Decision == {NoDecision} \union [key : Keys, decision : {"approve", "reject"}]

Pc == {"idle", "invalidate", "clear", "restart", "get", "intake", "graph", "fails",
       "record", "resume", "restore", "persist", "done", "refused", "crashed"}

\* No goroutine of the task runs.
Quiet == {"idle", "done", "crashed"}

TypeOK ==
    /\ row \in Incident
    /\ checkpoint \subseteq Incident
    /\ approvals \subseteq Keys
    /\ expired \subseteq Diagnoses
    /\ pc \in [Tasks -> Pc]
    /\ in \in [Tasks -> Incident] /\ state \in [Tasks -> Incident]
    /\ used \in [Approvals -> Decision]
    /\ found \in [Alerts -> SUBSET Incident] /\ merged \subseteq Alerts
    /\ faults \in 0..MaxFaults

-----------------------------------------------------------------------------
(* Initial state: Create has stored the incident and spawned its diagnosis *)

Created == [status |-> "RECEIVED", attempt |-> None, proposal |-> None, interrupt |-> None,
            hashed |-> FALSE, alerts |-> {}]

Init ==
    /\ row = Created
    /\ checkpoint = {}
    /\ approvals = {} /\ expired = {}
    /\ pc = [t \in Tasks |-> IF t = Creation THEN "get" ELSE "idle"]
    /\ in = [t \in Tasks |-> Created] /\ state = [t \in Tasks |-> Created]
    /\ used = [a \in Approvals |-> NoDecision]
    /\ found = [n \in Alerts |-> {}] /\ merged = {}
    /\ faults = 0

-----------------------------------------------------------------------------
(* Store operations *)

Goto(t, step) == pc' = [pc EXCEPT ![t] = step]

\* The goroutine returns and its snapshots are gone.
Ends(t) ==
    /\ Goto(t, "done")
    /\ in' = [in EXCEPT ![t] = Created] /\ state' = [state EXCEPT ![t] = Created]

Fault == faults < MaxFaults /\ faults' = faults + 1

\* Update replaces the whole row; the other branch is a failed write.
Update(incident) ==
    \/ row' = incident /\ faults' = faults
    \/ row' = row /\ Fault

\* ObserveWorkflowEvent: UpdateWorkflowStatus changes the status alone, and
\* its error is discarded.
StatusEvent(to) == Update([row EXCEPT !.status = to])

\* Mutant: the incident that failed keeps its status.
Failed_KeepsStatus(incident) == incident

\* What a handler makes of an incident whose workflow failed.
Failed(incident) == [incident EXCEPT !.status = AfterMove(@, "NEEDS_ATTENTION")]

-----------------------------------------------------------------------------
(* diagnose: read the incident, run the graph, store the result *)

\* A failed read ends the goroutine.
DiagnoseGet(t) ==
    /\ t \in Diagnoses /\ pc[t] = "get"
    /\ \/ /\ in' = [in EXCEPT ![t] = row] /\ state' = [state EXCEPT ![t] = row]
          /\ Goto(t, "intake") /\ faults' = faults
       \/ Fault /\ Ends(t)
    /\ UNCHANGED <<row, checkpoint, approvals, expired, used, found, merged>>

\* incident_intake accepts an incident nobody has begun to collect for.
Intake(t) ==
    /\ pc[t] = "intake"
    /\ IF CanMove(state[t].status, "CORRELATING")
       THEN /\ state' = [state EXCEPT ![t] = [@ EXCEPT !.status = "CORRELATING", !.hashed = TRUE]]
            /\ StatusEvent("CORRELATING")
            /\ Goto(t, "graph")
       ELSE /\ state' = [state EXCEPT ![t].hashed = TRUE]
            /\ Goto(t, "fails")
            /\ UNCHANGED <<row, faults>>
    /\ UNCHANGED <<checkpoint, approvals, expired, in, used, found, merged>>

\* The statuses the graph moves through: the Brain and the proposal in a
\* diagnosis, the approved recovery in a resume.
GraphMovesFrom(from) ==
    CASE from = "CORRELATING" -> {"COLLECTING"}
      [] from = "COLLECTING"  -> {"DIAGNOSING"}
      [] from = "DIAGNOSING"  -> {"PROPOSING", "NEEDS_ATTENTION"}
      [] from = "PROPOSING"   -> {"DIAGNOSING", "AWAITING_APPROVAL"}
      [] from = "RECOVERING"  -> {"VERIFYING", "NEEDS_ATTENTION", "RECOVERY_FAILED"}
      [] from = "VERIFYING"   -> {"RESOLVED", "RECOVERY_FAILED"}
      [] OTHER -> {}

\* The incident after the move: the Brain names the attempt if there is none,
\* the permission node proposes and a failed dry run drops the proposal.
Moved(t, incident, to) ==
    [incident EXCEPT
        !.status   = to,
        !.attempt  = IF to = "COLLECTING" /\ @ = None THEN t ELSE @,
        !.proposal = IF to = "PROPOSING" THEN t ELSE IF to = "DIAGNOSING" THEN None ELSE @]

\* transition: the running incident moves and an event tells the store.
GraphMoves(t) ==
    /\ pc[t] = "graph"
    /\ \E to \in GraphMovesFrom(state[t].status) :
         /\ state' = [state EXCEPT ![t] = Moved(t, @, to)]
         /\ StatusEvent(to)
    /\ UNCHANGED <<checkpoint, approvals, expired, pc, in, used, found, merged>>

\* The approval interrupt: the graph is checkpointed and diagnose notes the
\* interrupt in the incident it will store.
GraphInterrupts(t) ==
    /\ t \in Diagnoses
    /\ pc[t] = "graph" /\ state[t].status = "AWAITING_APPROVAL"
    /\ checkpoint' = {state[t]}
    /\ state' = [state EXCEPT ![t].interrupt = t]
    /\ Goto(t, "persist")
    /\ UNCHANGED <<row, approvals, expired, in, used, found, merged, faults>>

\* The graph reaches incident_finalizer; Run or Resume deletes the checkpoint
\* and discards the error of the deletion.
GraphFinishes(t) ==
    /\ pc[t] = "graph"
    /\ state[t].status \in {"NEEDS_ATTENTION", "REJECTED", "RESOLVED", "RECOVERY_FAILED"}
    /\ checkpoint' \in {{}, checkpoint}
    /\ state' = [state EXCEPT ![t].interrupt = IF t \in Approvals THEN None ELSE @]
    /\ Goto(t, "persist")
    /\ UNCHANGED <<row, approvals, expired, in, used, found, merged, faults>>

\* The graph fails anywhere; a resume falls back on the snapshot it read when
\* the graph returns no state.
GraphFails(t) ==
    /\ pc[t] \in {"graph", "fails"}
    /\ \E incident \in {state[t]} \union (IF t \in Approvals THEN {in[t]} ELSE {}) :
         state' = [state EXCEPT ![t] = Failed(incident)]
    /\ Goto(t, "persist")
    /\ UNCHANGED <<row, checkpoint, approvals, expired, in, used, found, merged, faults>>

\* Store.Update with the goroutine's incident; its error is logged at most.
Persist(t) ==
    /\ pc[t] = "persist"
    /\ Update(state[t])
    /\ Ends(t)
    /\ UNCHANGED <<checkpoint, approvals, expired, used, found, merged>>

-----------------------------------------------------------------------------
(* Retry *)

RetryGet(r) ==
    /\ r \in Retries /\ pc[r] = "idle"
    /\ row.status \in {"NEEDS_ATTENTION", "RECOVERY_FAILED"}
    /\ in' = [in EXCEPT ![r] = row]
    /\ Goto(r, IF row.attempt = None THEN "clear" ELSE "invalidate")
    /\ UNCHANGED <<row, checkpoint, approvals, expired, state, used, found, merged, faults>>

\* The previous attempt is marked invalidated in the stored payload; a failed
\* write ends the call.
RetryInvalidates(r) ==
    /\ pc[r] = "invalidate"
    /\ \/ row' = in[r] /\ faults' = faults /\ Goto(r, "clear") /\ UNCHANGED <<in, state>>
       \/ row' = row /\ Fault /\ Ends(r)
    /\ UNCHANGED <<checkpoint, approvals, expired, used, found, merged>>

\* Diagnosis, recovery, hashes and interrupt are cleared, a new attempt begins.
Restarted(incident, r) ==
    [incident EXCEPT !.status = "RECEIVED", !.attempt = r, !.proposal = None,
                     !.interrupt = None, !.hashed = FALSE]

\* The checkpoint is deleted before the restarted incident is stored.
RetryClears(r) ==
    /\ pc[r] = "clear"
    /\ checkpoint' \in {{}, checkpoint}
    /\ in' = [in EXCEPT ![r] = Restarted(@, r)]
    /\ Goto(r, "restart")
    /\ UNCHANGED <<row, approvals, expired, state, used, found, merged, faults>>

\* Mutant: the diagnosis is not spawned.
RetryRestarts_NoDiagnosis(r) ==
    /\ pc[r] = "restart"
    /\ \/ row' = in[r] /\ faults' = faults
       \/ row' = row /\ Fault
    /\ Ends(r)
    /\ UNCHANGED <<checkpoint, approvals, expired, used, found, merged>>

\* The restarted incident is stored and its diagnosis spawned.
RetryRestarts(r) ==
    /\ pc[r] = "restart"
    /\ \/ row' = in[r] /\ faults' = faults /\ Goto(r, "get") /\ UNCHANGED <<in, state>>
       \/ row' = row /\ Fault /\ Ends(r)
    /\ UNCHANGED <<checkpoint, approvals, expired, used, found, merged>>

-----------------------------------------------------------------------------
(* Approve and resumeWorkflow *)

\* The handler's checks on a snapshot; the proposal the operator names is the
\* one in it, and a refused request changes nothing, except that a workflow
\* without an interrupt asks for attention.
ApproveGet(a) ==
    /\ a \in Approvals /\ pc[a] = "idle"
    /\ row.status = "AWAITING_APPROVAL" /\ row.proposal # None
    /\ \/ /\ row.interrupt = None
          /\ state' = [state EXCEPT ![a] = Failed(row)]
          /\ Goto(a, "persist")
       \/ /\ row.interrupt # None /\ row.proposal \notin expired
          /\ Goto(a, "record")
          /\ UNCHANGED state
    /\ in' = [in EXCEPT ![a] = row]
    /\ UNCHANGED <<row, checkpoint, approvals, expired, used, found, merged, faults>>

\* Mutant: ON CONFLICT DO UPDATE.
Unclaimed_Always(key) == TRUE

\* RecordApproval inserts the key ON CONFLICT DO NOTHING.
Unclaimed(key) == key \notin approvals

\* A key seen before is answered with the snapshot and spawns nothing.
RecordApproval(a) ==
    /\ pc[a] = "record"
    /\ \E key \in Keys, decision \in {"approve", "reject"} :
         IF Unclaimed(key)
         THEN /\ approvals' = approvals \union {key}
              /\ used' = [used EXCEPT ![a] = [key |-> key, decision |-> decision]]
              /\ Goto(a, "resume")
              /\ UNCHANGED <<in, state>>
         ELSE /\ Ends(a)
              /\ UNCHANGED <<approvals, used>>
    /\ UNCHANGED <<row, checkpoint, expired, found, merged, faults>>

\* RecordApproval fails and so does the request.
RecordApprovalFails(a) ==
    /\ pc[a] = "record"
    /\ Fault /\ Ends(a)
    /\ UNCHANGED <<row, checkpoint, approvals, expired, used, found, merged>>

\* The hash comparison of resumeWorkflow: skills are fixed for the process.
RuntimeUnchanged(incident) == incident.hashed /\ PolicyHash = NoHash

\* resumeWorkflow reads the row again; a failed read ends the goroutine.
ResumeGet(a) ==
    /\ pc[a] = "resume"
    /\ \/ /\ in' = [in EXCEPT ![a] = row] /\ faults' = faults
          /\ IF RuntimeUnchanged(row)
             THEN Goto(a, "restore") /\ UNCHANGED state
             ELSE Goto(a, "refused") /\ state' = [state EXCEPT ![a] = Failed(row)]
       \/ Fault /\ Ends(a)
    /\ UNCHANGED <<row, checkpoint, approvals, expired, used, found, merged>>

\* The refusal is stored.
ResumeRefused(a) ==
    /\ pc[a] = "refused"
    /\ Update(state[a])
    /\ Ends(a)
    /\ UNCHANGED <<checkpoint, approvals, expired, used, found, merged>>

\* What approvalNode makes of the decision: a context that does not match the
\* restored chain, or is stale by now, asks for attention.
Decided(a, restored) ==
    IF used[a].decision = "reject" THEN {"REJECTED"}
    ELSE IF in[a].proposal = restored.proposal /\ in[a].proposal \notin expired
         THEN {"RECOVERING", "NEEDS_ATTENTION"} ELSE {"NEEDS_ATTENTION"}

\* An approved resume reads the fields of the proposal of the row: there is none once
\* a Retry has replaced it.
Panics(a) == used[a].decision = "approve" /\ in[a].proposal = None

\* Supervisor.Resume restores the checkpoint of the interrupt the row names.
ResumeRestores(a) ==
    /\ pc[a] = "restore" /\ ~Panics(a)
    /\ \E restored \in checkpoint :
         /\ in[a].interrupt = restored.proposal
         /\ \E to \in Decided(a, restored) :
              /\ state' = [state EXCEPT ![a] = [restored EXCEPT !.status = to]]
              /\ StatusEvent(to)
    /\ Goto(a, "graph")
    /\ UNCHANGED <<checkpoint, approvals, expired, in, used, found, merged>>

\* ... there is none, it belongs to another interrupt, or the model configuration of
\* the diagnosis is not to be had any more.
ResumeFails(a) ==
    /\ pc[a] = "restore"
    /\ state' = [state EXCEPT ![a] = in[a]]
    /\ Goto(a, "fails")
    /\ UNCHANGED <<row, checkpoint, approvals, expired, in, used, found, merged, faults>>

-----------------------------------------------------------------------------
(* IngestAlert into an existing incident, the clock, and crashes *)

\* FindByFingerprint or correlate finds the incident.
FindIncident(n) ==
    /\ n \notin merged /\ found[n] = {}
    /\ found' = [found EXCEPT ![n] = {row}]
    /\ UNCHANGED <<row, checkpoint, approvals, expired, pc, in, state, used, merged, faults>>

\* Mutant: the compatibility fallback for stores without AppendAlert, which
\* writes the snapshot that was found.
AppendAlert_Snapshot(n) ==
    /\ \E existing \in found[n] : row' = [existing EXCEPT !.alerts = @ \union {n}]
    /\ found' = [found EXCEPT ![n] = {}] /\ merged' = merged \union {n}
    /\ UNCHANGED <<checkpoint, approvals, expired, pc, in, state, used, faults>>

\* AppendAlert reads, merges and writes under a row lock.
AppendAlert(n) ==
    /\ found[n] # {}
    /\ row' = [row EXCEPT !.alerts = @ \union {n}]
    /\ found' = [found EXCEPT ![n] = {}] /\ merged' = merged \union {n}
    /\ UNCHANGED <<checkpoint, approvals, expired, pc, in, state, used, faults>>

\* Five minutes after the permission node proposed.
Expire ==
    /\ row.proposal \in Diagnoses \ expired
    /\ expired' = expired \union {row.proposal}
    /\ UNCHANGED <<row, checkpoint, approvals, pc, in, state, used, found, merged, faults>>

\* Nothing restarts the workflows of a server that died.
ServerDies ==
    /\ pc' = [t \in Tasks |-> IF pc[t] \in Quiet THEN pc[t] ELSE "crashed"]
    /\ UNCHANGED <<row, checkpoint, approvals, expired, in, state, used, found, merged>>

Crash == Fault /\ ServerDies

\* The panic of one goroutine ends the process.
ResumePanics(a) == pc[a] = "restore" /\ Panics(a) /\ ServerDies /\ faults' = faults

-----------------------------------------------------------------------------
(* The specification *)

DiagnoseStep(t) ==
    \/ DiagnoseGet(t) \/ Intake(t) \/ GraphMoves(t) \/ GraphInterrupts(t)
    \/ GraphFinishes(t) \/ GraphFails(t) \/ Persist(t)

RetryStep(r) == RetryInvalidates(r) \/ RetryClears(r) \/ RetryRestarts(r)

ResumeStep(a) ==
    \/ RecordApproval(a) \/ RecordApprovalFails(a)
    \/ ResumeGet(a) \/ ResumeRefused(a) \/ ResumeRestores(a) \/ ResumeFails(a)

Step(t) == DiagnoseStep(t) \/ RetryStep(t) \/ ResumeStep(t)

Operator ==
    \/ \E r \in Retries : RetryGet(r)
    \/ \E a \in Approvals : ApproveGet(a)

Next ==
    \/ \E t \in Tasks : Step(t)
    \/ Operator
    \/ \E n \in Alerts : FindIncident(n) \/ AppendAlert(n)
    \/ Expire \/ Crash \/ \E a \in Approvals : ResumePanics(a)

\* A goroutine that can take a step takes one, and a graph does not propose
\* and drop recoveries for ever: its budgets bound it (RecoveryWorkflow).
Fairness ==
    \A t \in Tasks :
        /\ WF_vars(Step(t))
        /\ WF_vars(GraphInterrupts(t) \/ GraphFinishes(t) \/ GraphFails(t))

Spec == Init /\ [][Next]_vars /\ Fairness

-----------------------------------------------------------------------------
(* Properties *)

\* No write failed, and no goroutine was lost with the server.
Undisturbed == faults = 0 /\ \A t \in Tasks : pc[t] # "crashed"

Settled == {"AWAITING_APPROVAL", "RESOLVED", "REJECTED", "NEEDS_ATTENTION", "RECOVERY_FAILED"}

\* The state is well formed, and whatever the order in which stale snapshots,
\* status events and restarts reach the row, once nobody works on the incident its status is one an
\* operator can act on or a final one, unless a write failed or the server
\* crashed (the Store.Update calls that end diagnose and resumeWorkflow).
QuietIncidentIsSettled ==
    /\ TypeOK
    /\ Undisturbed /\ (\A t \in Tasks : pc[t] \in Quiet) => row.status \in Settled

\* An incident in progress gets there: no order of events leaves it waiting
\* for a goroutine that has gone (diagnose, Retry, resumeWorkflow).
IncidentSettles == (row.status \notin Settled) ~> (row.status \in Settled \/ ~Undisturbed)

\* The statuses only an approved resume moves an incident to.
RecoveryStatus == {"RECOVERING", "VERIFYING", "RESOLVED", "RECOVERY_FAILED"}

\* No recovery without an approval, whatever stale snapshots, status events and
\* restarts do to the row: it shows one only after an operator approved.  The
\* resume that runs one holds its idempotency key alone and works on the
\* proposal that the row it read named, in its proposal and in its interrupt,
\* which attempts that overtake each other can set apart (Approve,
\* RecordApproval, resumeWorkflow, approvalNode).
RecoveryIsApproved ==
    /\ row.status \in RecoveryStatus => \E a \in Approvals : used[a].decision = "approve"
    /\ \A a \in Approvals : pc[a] = "graph" /\ state[a].status \in RecoveryStatus =>
         /\ used[a].decision = "approve"
         /\ \A b \in Approvals : used[b].decision # None /\ used[b].key = used[a].key => a = b
         /\ state[a].proposal = in[a].proposal /\ in[a].interrupt = in[a].proposal

\* Merging an alert never takes a workflow's write back: what the row says of
\* the workflow changes only by a step of a handler or goroutine (AppendAlert).
AlertsKeepWorkflowState ==
    [][[row' EXCEPT !.alerts = {}] # [row EXCEPT !.alerts = {}] => pc' # pc \/ state' # state]_vars

(***************************************************************************)
(* The inductive invariant behind QuietIncidentIsSettled and               *)
(* RecoveryIsApproved                                                      *)
(***************************************************************************)

\* Which task takes which steps, and which statuses its graph passes through.
TaskInv ==
    \A t \in Tasks :
        /\ pc[t] \in {"get", "intake"} => t \in Diagnoses
        /\ pc[t] \in {"invalidate", "clear", "restart"} => t \in Retries
        /\ pc[t] \in {"record", "resume", "restore", "refused"} => t \in Approvals
        /\ pc[t] = "graph" =>
             state[t].status \in
                IF t \in Approvals THEN RecoveryStatus \union {"REJECTED", "NEEDS_ATTENTION"}
                ELSE {"CORRELATING", "COLLECTING", "DIAGNOSING", "PROPOSING",
                      "AWAITING_APPROVAL", "NEEDS_ATTENTION"}

\* What the last write of a task, and a Retry's first one, put into the row.
\* Nothing cancels an incident, which would keep a failed one from settling.
WriteInv ==
    /\ row.status # "CANCELLED"
    /\ \A t \in Tasks :
         /\ in[t].status # "CANCELLED" /\ state[t].status # "CANCELLED"
         /\ pc[t] \in {"persist", "refused"} => state[t].status \in Settled
         /\ pc[t] = "invalidate" => in[t].status \in Settled

\* An incident in progress has a task that will still write its result.
ProgressInv ==
    Undisturbed /\ row.status \notin Settled =>
        \E t \in Tasks : pc[t] \in {"get", "intake", "graph", "fails", "persist"}

\* The copies of the incident that show a recovery are younger than an approval.
CopyInv ==
    \A t \in Tasks :
        in[t].status \in RecoveryStatus \/ state[t].status \in RecoveryStatus =>
            \E a \in Approvals : used[a].decision = "approve"

\* The approvals table holds every decision, each under a key of its own.
DecisionInv ==
    \A a \in Approvals :
        /\ pc[a] \in {"idle", "record"} => used[a] = NoDecision
        /\ pc[a] \in {"resume", "restore"} => used[a] # NoDecision
        /\ used[a] # NoDecision =>
             /\ used[a].key \in approvals
             /\ \A b \in Approvals :
                  used[b] # NoDecision /\ used[b].key = used[a].key => a = b

IInv == TaskInv /\ WriteInv /\ ProgressInv /\ CopyInv /\ DecisionInv /\ RecoveryIsApproved

(***************************************************************************)
(* Statements of the repository that the code does not keep                *)
(***************************************************************************)

\* README.md:54, "resume requires the same snapshot": a resume of the proposal
\* that awaits approval, in the runtime that froze it, is not refused.
SameRuntimeResumes ==
    \A a \in Approvals : pc[a] = "refused" => in[a].status # "AWAITING_APPROVAL"
=============================================================================
