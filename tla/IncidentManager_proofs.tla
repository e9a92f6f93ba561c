----------------------- MODULE IncidentManager_proofs -----------------------
(***************************************************************************)
(* Proofs about IncidentManager, for any retries, approvals, alerts and    *)
(* faults and for both outcomes of the hash comparison: what the row says  *)
(* when nobody works on the incident, that only an approved resume         *)
(* recovers, and that merging an alert takes no workflow's write back.     *)
(***************************************************************************)
EXTENDS IncidentManager, TLAPS

\* Every task is a diagnosis (the first one or a Retry's) or an approval.
LEMMA TaskKinds ==
    /\ Creation \in Tasks /\ Creation \in Diagnoses /\ Diagnoses \subseteq Tasks
    /\ Retries \subseteq Diagnoses /\ Approvals \subseteq Tasks
    /\ \A t \in Tasks : t \in Diagnoses <=> t \notin Approvals
BY TaskAssumption DEF Tasks, Diagnoses

\* A failed workflow asks for attention, unless the incident was settled.
LEMMA FailedSettles ==
    ASSUME NEW x \in Incident, x.status # "CANCELLED"
    PROVE  /\ Failed(x) \in Incident
           /\ Failed(x).status \in Settled
           /\ Failed(x).status \in RecoveryStatus => x.status \in RecoveryStatus
<1>1. AfterMove(x.status, "NEEDS_ATTENTION") \in Settled \ {"CANCELLED"}
  BY DEF AfterMove, CanMove, Successors, Settled, Incident, Status
<1>2. AfterMove(x.status, "NEEDS_ATTENTION") \in {x.status, "NEEDS_ATTENTION"}
  BY DEF AfterMove
<1>3. Settled \subseteq Status
  BY DEF Settled, Status
<1> QED
  BY <1>1, <1>2, <1>3 DEF Failed, Incident, RecoveryStatus

\* Every update the code makes of one field of an incident keeps it one.
LEMMA IncidentUpdates ==
    ASSUME NEW x \in Incident
    PROVE  /\ \A s \in Status : [x EXCEPT !.status = s] \in Incident
           /\ \A d \in {None} \union Diagnoses : [x EXCEPT !.interrupt = d] \in Incident
           /\ [x EXCEPT !.hashed = TRUE] \in Incident
           /\ \A s \in Status : [x EXCEPT !.status = s, !.hashed = TRUE] \in Incident
           /\ \A n \in Alerts : [x EXCEPT !.alerts = @ \union {n}] \in Incident
           /\ \A r \in Diagnoses : Restarted(x, r) \in Incident
           /\ Failed(x) \in Incident
<1>1. "RECEIVED" \in Status /\ "NEEDS_ATTENTION" \in Status
  BY DEF Status
<1>2. \A r \in Diagnoses : Restarted(x, r) \in Incident
  BY <1>1 DEF Restarted, Incident
<1>3. Failed(x) \in Incident
  BY <1>1 DEF Failed, AfterMove, Incident
<1>4. \A n \in Alerts : [x EXCEPT !.alerts = @ \union {n}] \in Incident
  BY DEF Incident
<1> QED
  BY <1>2, <1>3, <1>4 DEF Incident

\* A fault is counted against its bound.
LEMMA FaultCounts ==
    ASSUME faults \in 0..MaxFaults, Fault
    PROVE  faults' \in 0..MaxFaults /\ faults' # 0
BY BoundAssumption DEF Fault

-----------------------------------------------------------------------------
(* The state is well formed *)

LEMMA TypeInit == Init => TypeOK /\ TaskInv
BY TaskKinds, BoundAssumption
   DEF Init, TypeOK, TaskInv, Created, Incident, Status, Pc, Decision, NoDecision

LEMMA CreatedType == Created \in Incident
BY DEF Created, Incident, Status

\* One step of a diagnosis or of the graph of a resume.
LEMMA TypeDiagnose ==
    ASSUME TypeOK, TaskInv, NEW t \in Tasks, DiagnoseStep(t)
    PROVE  TypeOK'
<1> USE TaskKinds, CreatedType DEF TypeOK, Goto, Ends, Update, StatusEvent
<1>f. Fault => faults' \in 0..MaxFaults
  BY FaultCounts
<1>1. CASE DiagnoseGet(t)
  BY <1>f, <1>1 DEF DiagnoseGet, Pc
<1>2. CASE Intake(t)
  <2>1. /\ [state[t] EXCEPT !.status = "CORRELATING", !.hashed = TRUE] \in Incident
        /\ [state[t] EXCEPT !.hashed = TRUE] \in Incident
        /\ [row EXCEPT !.status = "CORRELATING"] \in Incident
    BY IncidentUpdates DEF Status
  <2>2. pc' \in [Tasks -> Pc]
    BY <1>2 DEF Intake, Pc
  <2>3. row' \in Incident /\ faults' \in 0..MaxFaults
    BY <1>f, <1>2, <2>1 DEF Intake
  <2>4. state' \in [Tasks -> Incident]
    BY <1>2, <2>1 DEF Intake
  <2> QED
    BY <1>2, <2>2, <2>3, <2>4 DEF Intake
<1>3. CASE GraphMoves(t)
  <2>1. PICK to \in GraphMovesFrom(state[t].status) :
          /\ state' = [state EXCEPT ![t] = Moved(t, @, to)]
          /\ StatusEvent(to)
    BY <1>3 DEF GraphMoves
  <2>2. to \in Status /\ (to \in {"COLLECTING", "PROPOSING"} => t \in Diagnoses)
    BY <1>3, <2>1 DEF GraphMoves, GraphMovesFrom, Status, RecoveryStatus, TaskInv
  <2>3. Moved(t, state[t], to) \in Incident
    BY <2>2 DEF Moved, Incident
  <2>4. row' \in Incident /\ faults' \in 0..MaxFaults
    BY <1>f, <2>1, <2>2, IncidentUpdates
  <2> QED
    BY <1>3, <2>1, <2>3, <2>4 DEF GraphMoves
<1>4. CASE GraphInterrupts(t)
  <2>1. [state[t] EXCEPT !.interrupt = t] \in Incident
    BY <1>4, IncidentUpdates DEF GraphInterrupts
  <2> QED
    BY <1>4, <2>1 DEF GraphInterrupts, Pc
<1>5. CASE GraphFinishes(t)
  <2>1. [state[t] EXCEPT !.interrupt = IF t \in Approvals THEN None ELSE @] \in Incident
    <3>1. state[t] \in Incident /\ state[t].interrupt \in {None} \union Diagnoses
      BY DEF Incident
    <3> QED
      BY <3>1, IncidentUpdates
  <2> QED
    BY <1>5, <2>1 DEF GraphFinishes, Pc
<1>6. CASE GraphFails(t)
  <2>1. PICK x \in Incident : state' = [state EXCEPT ![t] = Failed(x)]
    BY <1>6 DEF GraphFails
  <2> QED
    BY <1>6, <2>1, IncidentUpdates DEF GraphFails, Pc
<1>7. CASE Persist(t)
  BY <1>f, <1>7 DEF Persist, Pc
<1> QED
  BY <1>1, <1>2, <1>3, <1>4, <1>5, <1>6, <1>7 DEF DiagnoseStep

\* One step of a Retry call.
LEMMA TypeRetry ==
    ASSUME TypeOK, TaskInv, NEW r \in Tasks, RetryStep(r)
    PROVE  TypeOK'
<1> USE TaskKinds, CreatedType DEF TypeOK, Goto, Ends
<1>f. Fault => faults' \in 0..MaxFaults
  BY FaultCounts
<1>1. CASE RetryInvalidates(r)
  BY <1>f, <1>1 DEF RetryInvalidates, Pc
<1>2. CASE RetryClears(r)
  <2>1. r \in Diagnoses
    BY <1>2 DEF RetryClears, TaskInv
  <2> QED
    BY <1>2, <2>1, IncidentUpdates DEF RetryClears, Pc
<1>3. CASE RetryRestarts(r)
  BY <1>f, <1>3 DEF RetryRestarts, Pc
<1> QED
  BY <1>1, <1>2, <1>3 DEF RetryStep

\* One step of an Approve call or of the resume it spawns.
LEMMA TypeResume ==
    ASSUME TypeOK, TaskInv, NEW a \in Tasks, ResumeStep(a)
    PROVE  TypeOK'
<1> USE TaskKinds, CreatedType DEF TypeOK, Goto, Ends, Update, StatusEvent
<1>f. Fault => faults' \in 0..MaxFaults
  BY FaultCounts
<1>1. CASE RecordApproval(a)
  <2>1. a \in Approvals
    BY <1>1 DEF RecordApproval, TaskInv
  <2> QED
    BY <1>1, <2>1 DEF RecordApproval, Decision, Pc
<1>2. CASE RecordApprovalFails(a)
  BY <1>f, <1>2 DEF RecordApprovalFails, Pc
<1>3. CASE ResumeGet(a)
  <2>1. row \in Incident /\ Failed(row) \in Incident
    BY IncidentUpdates
  <2>2. in' \in [Tasks -> Incident] /\ state' \in [Tasks -> Incident]
    BY <1>3, <2>1 DEF ResumeGet
  <2>3. pc' \in [Tasks -> Pc] /\ faults' \in 0..MaxFaults
    BY <1>f, <1>3 DEF ResumeGet, Pc
  <2> QED
    BY <1>3, <2>2, <2>3 DEF ResumeGet
<1>4. CASE ResumeRefused(a)
  BY <1>f, <1>4 DEF ResumeRefused, Pc
<1>5. CASE ResumeRestores(a)
  <2>1. PICK restored \in checkpoint, to \in Status :
          /\ state' = [state EXCEPT ![a] = [restored EXCEPT !.status = to]]
          /\ StatusEvent(to)
    BY <1>5 DEF ResumeRestores, Decided, Status
  <2>2. [restored EXCEPT !.status = to] \in Incident
    BY IncidentUpdates
  <2>3. row' \in Incident /\ faults' \in 0..MaxFaults
    BY <1>f, <2>1, IncidentUpdates
  <2> QED
    BY <1>5, <2>1, <2>2, <2>3 DEF ResumeRestores, Pc
<1>6. CASE ResumeFails(a)
  BY <1>6 DEF ResumeFails, Pc
<1> QED
  BY <1>1, <1>2, <1>3, <1>4, <1>5, <1>6 DEF ResumeStep

LEMMA TypeNext == TypeOK /\ TaskInv /\ [Next]_vars => TypeOK'
<1> SUFFICES ASSUME TypeOK, TaskInv, [Next]_vars PROVE TypeOK'
  OBVIOUS
<1> USE TaskKinds DEF TypeOK, Goto
<1>1. ASSUME NEW t \in Tasks, Step(t) PROVE TypeOK'
  BY <1>1, TypeDiagnose, TypeRetry, TypeResume DEF Step
<1>2. ASSUME NEW r \in Retries, RetryGet(r) PROVE TypeOK'
  BY <1>2 DEF RetryGet, Pc
<1>3. ASSUME NEW a \in Approvals, ApproveGet(a) PROVE TypeOK'
  BY <1>3, IncidentUpdates DEF ApproveGet, Pc
<1>4. ASSUME NEW n \in Alerts, FindIncident(n) \/ AppendAlert(n) PROVE TypeOK'
  <2>1. [row EXCEPT !.alerts = @ \union {n}] \in Incident
    BY IncidentUpdates
  <2>2. CASE FindIncident(n)
    BY <2>2 DEF FindIncident
  <2>3. CASE AppendAlert(n)
    BY <2>1, <2>3 DEF AppendAlert
  <2> QED
    BY <1>4, <2>2, <2>3
<1>5. CASE Expire
  BY <1>5 DEF Expire
<1>6. CASE Crash \/ \E a \in Approvals : ResumePanics(a)
  BY <1>6, FaultCounts DEF Crash, ResumePanics, ServerDies, Pc
<1>7. CASE UNCHANGED vars
  BY <1>7 DEF vars
<1> QED
  BY <1>1, <1>2, <1>3, <1>4, <1>5, <1>6, <1>7 DEF Next, Operator

-----------------------------------------------------------------------------
(* Which task takes which steps *)

LEMMA TaskStep ==
    ASSUME TypeOK, TaskInv, NEW t \in Tasks, Step(t)
    PROVE  TaskInv'
<1> USE TaskKinds DEF TypeOK, TaskInv, Goto, Ends, RecoveryStatus
<1>1. CASE DiagnoseGet(t)
  BY <1>1 DEF DiagnoseGet
<1>2. CASE Intake(t)
  <2>1. [state[t] EXCEPT !.status = "CORRELATING", !.hashed = TRUE].status = "CORRELATING"
    BY DEF Incident
  <2>2. t \in Diagnoses /\ \A j \in Tasks : j # t => pc'[j] = pc[j] /\ state'[j] = state[j]
    BY <1>2 DEF Intake
  <2>3. pc'[t] = "fails" \/ (pc'[t] = "graph" /\ state'[t].status = "CORRELATING")
    <3>1. CASE CanMove(state[t].status, "CORRELATING")
      <4>1. state' = [state EXCEPT ![t] = [state[t] EXCEPT !.status = "CORRELATING", !.hashed = TRUE]]
        BY <1>2, <3>1 DEF Intake
      <4> QED
        BY <1>2, <2>1, <3>1, <4>1 DEF Intake
    <3>2. CASE ~CanMove(state[t].status, "CORRELATING")
      BY <1>2, <3>2 DEF Intake
    <3> QED
      BY <3>1, <3>2
  <2> QED
    BY <2>2, <2>3
<1>3. CASE GraphMoves(t)
  <2>1. PICK to \in GraphMovesFrom(state[t].status) : state' = [state EXCEPT ![t] = Moved(t, @, to)]
    BY <1>3 DEF GraphMoves
  <2>2. Moved(t, state[t], to).status = to
    BY DEF Moved, Incident
  <2> QED
    BY <1>3, <2>1, <2>2 DEF GraphMoves, GraphMovesFrom
<1>4. CASE GraphInterrupts(t) \/ GraphFinishes(t) \/ GraphFails(t) \/ Persist(t)
  BY <1>4 DEF GraphInterrupts, GraphFinishes, GraphFails, Persist
<1>5. CASE RetryStep(t)
  BY <1>5 DEF RetryStep, RetryInvalidates, RetryClears, RetryRestarts
<1>6. CASE RecordApproval(t) \/ RecordApprovalFails(t) \/ ResumeGet(t) \/ ResumeRefused(t)
           \/ ResumeFails(t)
  BY <1>6 DEF RecordApproval, RecordApprovalFails, ResumeGet, ResumeRefused, ResumeFails
<1>7. CASE ResumeRestores(t)
  <2>1. PICK restored \in checkpoint, to \in {"REJECTED", "RECOVERING", "NEEDS_ATTENTION"} :
          state' = [state EXCEPT ![t] = [restored EXCEPT !.status = to]]
    BY <1>7 DEF ResumeRestores, Decided
  <2>2. [restored EXCEPT !.status = to].status = to
    BY DEF Incident
  <2>3. t \in Approvals /\ state'[t].status = to
    BY <1>7, <2>1, <2>2 DEF ResumeRestores
  <2>4. \A j \in Tasks : j # t => pc'[j] = pc[j] /\ state'[j] = state[j]
    BY <1>7, <2>1 DEF ResumeRestores
  <2>5. pc'[t] = "graph"
    BY <1>7 DEF ResumeRestores
  <2> QED
    BY <2>3, <2>4, <2>5
<1> QED
  BY <1>1, <1>2, <1>3, <1>4, <1>5, <1>6, <1>7 DEF Step, DiagnoseStep, ResumeStep

LEMMA TaskNext == TypeOK /\ TaskInv /\ [Next]_vars => TaskInv'
<1> SUFFICES ASSUME TypeOK, TaskInv, [Next]_vars PROVE TaskInv'
  OBVIOUS
<1> USE TaskKinds DEF TypeOK, TaskInv, Goto
<1>1. ASSUME NEW r \in Retries, RetryGet(r) PROVE TaskInv'
  BY <1>1 DEF RetryGet
<1>2. ASSUME NEW a \in Approvals, ApproveGet(a) PROVE TaskInv'
  BY <1>2 DEF ApproveGet
<1>3. ASSUME NEW n \in Alerts, FindIncident(n) \/ AppendAlert(n) PROVE TaskInv'
  BY <1>3 DEF FindIncident, AppendAlert
<1>4. CASE Expire \/ UNCHANGED vars
  BY <1>4 DEF Expire, vars
<1>5. CASE Crash \/ \E a \in Approvals : ResumePanics(a)
  BY <1>5 DEF Crash, ResumePanics, ServerDies
<1> QED
  BY <1>1, <1>2, <1>3, <1>4, <1>5, TaskStep DEF Next, Operator

-----------------------------------------------------------------------------
(* Where the statuses of the copies of an incident come from *)

\* The status of an updated incident.
LEMMA StatusOf ==
    ASSUME NEW x \in Incident
    PROVE  /\ \A s : [x EXCEPT !.status = s].status = s
           /\ \A s : [x EXCEPT !.status = s, !.hashed = TRUE].status = s
           /\ \A d : [x EXCEPT !.interrupt = d].status = x.status
           /\ [x EXCEPT !.hashed = TRUE].status = x.status
           /\ \A r : Restarted(x, r).status = "RECEIVED"
           /\ \A t, to : Moved(t, x, to).status = to
BY DEF Incident, Restarted, Moved

\* A graph enters the recovery statuses only from one of them.
LEMMA GraphMovesTo ==
    ASSUME NEW from \in Status, NEW to \in GraphMovesFrom(from)
    PROVE  /\ to \in Status \ {"CANCELLED"}
           /\ to \in RecoveryStatus => from \in RecoveryStatus
BY DEF GraphMovesFrom, Status, RecoveryStatus

\* A step of one task is private to it.
LEMMA OnlyOwnStep ==
    ASSUME TypeOK, NEW t \in Tasks, Step(t), NEW j \in Tasks, j # t
    PROVE  pc'[j] = pc[j] /\ in'[j] = in[j] /\ state'[j] = state[j]
<1> USE DEF TypeOK, Goto, Ends
<1>1. CASE DiagnoseStep(t)
  BY <1>1 DEF DiagnoseStep, DiagnoseGet, Intake, GraphMoves, GraphInterrupts, GraphFinishes,
         GraphFails, Persist
<1>2. CASE RetryStep(t)
  BY <1>2 DEF RetryStep, RetryInvalidates, RetryClears, RetryRestarts
<1>3. CASE ResumeStep(t)
  BY <1>3 DEF ResumeStep, RecordApproval, RecordApprovalFails, ResumeGet, ResumeRefused,
         ResumeRestores, ResumeFails
<1> QED
  BY <1>1, <1>2, <1>3 DEF Step

\* Every status but those of a recovery and CANCELLED.
Plain == Status \ (RecoveryStatus \union {"CANCELLED"})

LEMMA PlainStatus ==
    {"RECEIVED", "CORRELATING", "NEEDS_ATTENTION", "REJECTED"} \subseteq Plain
BY DEF Plain, Status, RecoveryStatus

\* A task's own copies take their statuses from each other, from the row, or
\* from moves of the graph, and into a recovery only under an approval.
LEMMA StatusStep ==
    ASSUME TypeOK, TaskInv, WriteInv, DecisionInv, RecoveryIsApproved,
           NEW t \in Tasks, Step(t)
    PROVE  /\ in'[t].status \in {in[t].status, row.status} \union Plain
           /\ \/ state'[t].status \in {in[t].status, state[t].status, row.status} \union Plain
              \/ /\ state'[t].status \in RecoveryStatus
                 /\ t \in Approvals /\ used[t].decision = "approve" /\ used' = used
           /\ row'.status \in {row.status, in[t].status, state[t].status, state'[t].status}
<1> USE TaskKinds, CreatedType, StatusOf, PlainStatus
    DEF TypeOK, Goto, Ends, Update, StatusEvent, Fault
<1>c. Created.status = "RECEIVED"
  BY DEF Created
<1>r. row \in Incident /\ in[t] \in Incident /\ state[t] \in Incident
  OBVIOUS
<1>f. \A x \in Incident : x.status # "CANCELLED" => Failed(x).status \in {x.status} \union Plain
  <2> SUFFICES ASSUME NEW x \in Incident, x.status # "CANCELLED"
               PROVE  Failed(x).status \in {x.status} \union Plain
    OBVIOUS
  <2> QED
    BY DEF Failed, AfterMove, Incident
<1>1. CASE DiagnoseGet(t)
  BY <1>c, <1>1 DEF DiagnoseGet
<1>2. CASE Intake(t)
  <2>1. CASE CanMove(state[t].status, "CORRELATING")
    <3>1. state'[t] = [state[t] EXCEPT !.status = "CORRELATING", !.hashed = TRUE]
      BY <1>2, <2>1 DEF Intake
    <3>2. row' \in {row, [row EXCEPT !.status = "CORRELATING"]}
      BY <1>2, <2>1 DEF Intake
    <3>3. state'[t].status = "CORRELATING" /\ row'.status \in {row.status, state'[t].status}
      BY <1>r, <3>1, <3>2 DEF Incident
    <3> QED
      BY <1>2, <3>3 DEF Intake
  <2>2. CASE ~CanMove(state[t].status, "CORRELATING")
    <3>1. state'[t] = [state[t] EXCEPT !.hashed = TRUE] /\ row' = row /\ in' = in
      BY <1>2, <2>2 DEF Intake
    <3> QED
      BY <1>r, <3>1
  <2> QED
    BY <2>1, <2>2
<1>3. CASE GraphMoves(t)
  <2>1. PICK to \in GraphMovesFrom(state[t].status) :
          /\ state' = [state EXCEPT ![t] = Moved(t, @, to)]
          /\ StatusEvent(to)
    BY <1>3 DEF GraphMoves
  <2>2. state[t].status \in Status
    BY DEF Incident
  <2>3. to \in Plain \/ (to \in RecoveryStatus /\ state[t].status \in RecoveryStatus)
    BY <2>2, GraphMovesTo DEF Plain
  <2>4. state[t].status \in RecoveryStatus => t \in Approvals /\ used[t].decision = "approve"
    BY <1>3 DEF GraphMoves, TaskInv, RecoveryIsApproved, RecoveryStatus
  <2>5. state'[t].status = to /\ row'.status \in {row.status, to}
    <3>1. state'[t] = Moved(t, state[t], to) /\ row' \in {row, [row EXCEPT !.status = to]}
      BY <2>1
    <3> QED
      BY <1>r, <3>1 DEF Incident, Moved
  <2> QED
    BY <1>3, <2>3, <2>4, <2>5 DEF GraphMoves
<1>4. CASE GraphInterrupts(t) \/ GraphFinishes(t)
  <2>1. PICK d \in {t, None, state[t].interrupt} : state'[t] = [state[t] EXCEPT !.interrupt = d]
    BY <1>4 DEF GraphInterrupts, GraphFinishes
  <2>2. state'[t].status = state[t].status
    BY <1>r, <2>1
  <2> QED
    BY <1>4, <2>2 DEF GraphInterrupts, GraphFinishes
<1>5. CASE GraphFails(t)
  <2>1. PICK x \in {in[t], state[t]} : state' = [state EXCEPT ![t] = Failed(x)]
    BY <1>5 DEF GraphFails
  <2>2. state'[t].status \in {in[t].status, state[t].status} \union Plain
    BY <2>1, <1>f, <1>r DEF WriteInv
  <2> QED
    BY <1>5, <2>2 DEF GraphFails
<1>6. CASE Persist(t)
  BY <1>c, <1>6 DEF Persist
<1>7. CASE RetryStep(t)
  BY <1>c, <1>7, <1>r DEF RetryStep, RetryInvalidates, RetryClears, RetryRestarts
<1>8. CASE RecordApproval(t) \/ RecordApprovalFails(t)
  BY <1>c, <1>8 DEF RecordApproval, RecordApprovalFails
<1>9. CASE ResumeGet(t)
  <2>1. Failed(row).status \in {row.status} \union Plain
    BY <1>f, <1>r DEF WriteInv
  <2> QED
    BY <1>c, <1>9, <2>1 DEF ResumeGet
<1>10. CASE ResumeRefused(t)
  BY <1>c, <1>10 DEF ResumeRefused
<1>11. CASE ResumeRestores(t)
  <2>0. PICK restored \in checkpoint : \E to \in Decided(t, restored) :
          /\ state' = [state EXCEPT ![t] = [restored EXCEPT !.status = to]]
          /\ StatusEvent(to)
    BY <1>11 DEF ResumeRestores
  <2>1. PICK to \in Decided(t, restored) :
          /\ state' = [state EXCEPT ![t] = [restored EXCEPT !.status = to]]
          /\ StatusEvent(to)
    BY <2>0
  <2>2. t \in Approvals /\ used[t] \in Decision \ {NoDecision}
    BY <1>11 DEF ResumeRestores, TaskInv, DecisionInv
  <2>3. to \in Plain \/ (to \in RecoveryStatus /\ used[t].decision = "approve")
    BY <2>2 DEF Decided, Decision, RecoveryStatus
  <2>4. state'[t].status = to /\ row'.status \in {row.status, to}
    BY <1>r, <2>1
  <2> QED
    BY <1>11, <2>2, <2>3, <2>4 DEF ResumeRestores
<1>12. CASE ResumeFails(t)
  BY <1>12 DEF ResumeFails
<1> QED
  BY <1>1, <1>2, <1>3, <1>4, <1>5, <1>6, <1>7, <1>8, <1>9, <1>10, <1>11, <1>12
     DEF Step, DiagnoseStep, ResumeStep

-----------------------------------------------------------------------------
(* What the last write of a task puts into the row *)

\* A task's last write, prepared by the step before it, settles the incident.
LEMMA LastWriteStep ==
    ASSUME TypeOK, TaskInv, WriteInv, NEW t \in Tasks, Step(t)
    PROVE  /\ pc'[t] \in {"persist", "refused"} => state'[t].status \in Settled
           /\ pc'[t] # "invalidate"
<1> USE TaskKinds DEF TypeOK, Goto, Ends
<1>r. row \in Incident /\ in[t] \in Incident /\ state[t] \in Incident
  OBVIOUS
<1>1. CASE GraphInterrupts(t)
  <2>1. state'[t] = [state[t] EXCEPT !.interrupt = t] /\ state[t].status \in Settled
    BY <1>1 DEF GraphInterrupts, Settled
  <2> QED
    BY <1>1, <1>r, <2>1, StatusOf DEF GraphInterrupts
<1>2. CASE GraphFinishes(t)
  <2>1. PICK d \in {None, state[t].interrupt} : state'[t] = [state[t] EXCEPT !.interrupt = d]
    BY <1>2 DEF GraphFinishes
  <2>2. state[t].status \in Settled
    BY <1>2 DEF GraphFinishes, Settled
  <2> QED
    BY <1>2, <1>r, <2>1, <2>2, StatusOf DEF GraphFinishes
<1>3. CASE GraphFails(t)
  <2>1. PICK x \in {in[t], state[t]} : state'[t] = Failed(x)
    BY <1>3 DEF GraphFails
  <2> QED
    BY <1>3, <1>r, <2>1, FailedSettles DEF GraphFails, WriteInv
<1>4. CASE ResumeGet(t)
  BY <1>4, <1>r, FailedSettles DEF ResumeGet, WriteInv
<1>5. CASE RetryStep(t)
  BY <1>5 DEF RetryStep, RetryInvalidates, RetryClears, RetryRestarts
<1>6. CASE DiagnoseGet(t) \/ Intake(t) \/ GraphMoves(t) \/ Persist(t)
  BY <1>6 DEF DiagnoseGet, Intake, GraphMoves, Persist
<1>7. CASE RecordApproval(t) \/ RecordApprovalFails(t) \/ ResumeRefused(t)
           \/ ResumeRestores(t) \/ ResumeFails(t)
  BY <1>7 DEF RecordApproval, RecordApprovalFails, ResumeRefused, ResumeRestores, ResumeFails
<1> QED
  BY <1>1, <1>2, <1>3, <1>4, <1>5, <1>6, <1>7 DEF Step, DiagnoseStep, ResumeStep

LEMMA WriteNext ==
    TypeOK /\ IInv /\ [Next]_vars => WriteInv'
<1> SUFFICES ASSUME TypeOK, IInv, [Next]_vars PROVE WriteInv'
  OBVIOUS
<1> USE TaskKinds DEF TypeOK, IInv, WriteInv, Goto
<1>r. row \in Incident /\ \A t \in Tasks : in[t] \in Incident /\ state[t] \in Incident
  OBVIOUS
<1>1. ASSUME NEW t \in Tasks, Step(t) PROVE WriteInv'
  <2>1. in'[t].status # "CANCELLED" /\ state'[t].status # "CANCELLED" /\ row'.status # "CANCELLED"
    BY <1>1, StatusStep DEF Plain, RecoveryStatus
  <2> QED
    BY <1>1, <2>1, LastWriteStep, OnlyOwnStep
<1>2. ASSUME NEW r \in Retries, RetryGet(r) PROVE WriteInv'
  BY <1>2 DEF RetryGet, Settled
<1>3. ASSUME NEW a \in Approvals, ApproveGet(a) PROVE WriteInv'
  <2>1. Failed(row).status \in Settled /\ "CANCELLED" \notin Settled
    BY <1>r, FailedSettles DEF Settled
  <2> QED
    BY <1>3, <2>1 DEF ApproveGet
<1>4. ASSUME NEW n \in Alerts, FindIncident(n) \/ AppendAlert(n) PROVE WriteInv'
  BY <1>4 DEF FindIncident, AppendAlert, Incident
<1>5. CASE Expire \/ UNCHANGED vars
  BY <1>5 DEF Expire, vars
<1>6. CASE Crash \/ \E a \in Approvals : ResumePanics(a)
  BY <1>6 DEF Crash, ResumePanics, ServerDies
<1> QED
  BY <1>1, <1>2, <1>3, <1>4, <1>5, <1>6 DEF Next, Operator

-----------------------------------------------------------------------------
(* An incident in progress has a task that will still write its result *)

Finishing == {"get", "intake", "graph", "fails", "persist"}

\* Without a fault a task leaves the finishing steps only by settling the row,
\* and only a finishing task leaves the row in progress.
LEMMA FinishingStep ==
    ASSUME TypeOK, TaskInv, WriteInv, NEW t \in Tasks, Step(t), faults' = 0
    PROVE  /\ faults = 0
           /\ \/ pc'[t] \in Finishing
              \/ row'.status \in Settled
              \/ row' = row /\ pc[t] \notin Finishing
<1> USE TaskKinds DEF TypeOK, Goto, Ends, Update, StatusEvent, Finishing
<1>f. ~Fault
  BY FaultCounts
<1>1. CASE DiagnoseGet(t) \/ Persist(t)
  BY <1>f, <1>1 DEF DiagnoseGet, Persist, WriteInv
<1>2. CASE Intake(t) \/ GraphMoves(t) \/ GraphInterrupts(t) \/ GraphFinishes(t) \/ GraphFails(t)
  BY <1>f, <1>2 DEF Intake, GraphMoves, GraphInterrupts, GraphFinishes, GraphFails
<1>3. CASE RetryStep(t)
  BY <1>f, <1>3 DEF RetryStep, RetryInvalidates, RetryClears, RetryRestarts, WriteInv
<1>4. CASE RecordApproval(t) \/ RecordApprovalFails(t) \/ ResumeGet(t)
  BY <1>f, <1>4 DEF RecordApproval, RecordApprovalFails, ResumeGet
<1>5. CASE ResumeRefused(t) \/ ResumeRestores(t) \/ ResumeFails(t)
  BY <1>f, <1>5 DEF ResumeRefused, ResumeRestores, ResumeFails, WriteInv
<1> QED
  BY <1>1, <1>2, <1>3, <1>4, <1>5 DEF Step, DiagnoseStep, ResumeStep

LEMMA ProgressNext ==
    TypeOK /\ IInv /\ [Next]_vars => ProgressInv'
<1> SUFFICES ASSUME TypeOK, IInv, [Next]_vars, Undisturbed', row'.status \notin Settled
             PROVE  \E t \in Tasks : pc'[t] \in Finishing
  BY DEF ProgressInv, Finishing
<1> USE TaskKinds DEF TypeOK, IInv, Goto
<1>p. Undisturbed /\ row.status \notin Settled => \E t \in Tasks : pc[t] \in Finishing
  BY DEF ProgressInv, Finishing
<1>f. ~Fault /\ faults' = 0
  BY FaultCounts DEF Undisturbed
<1>g. ASSUME NEW a \in Approvals PROVE ~ResumePanics(a)
  BY DEF ResumePanics, ServerDies, Undisturbed, Quiet
<1>1. ASSUME NEW t \in Tasks, Step(t) PROVE \E j \in Tasks : pc'[j] \in Finishing
  <2>1. faults = 0 /\ (pc'[t] \in Finishing \/ (row' = row /\ pc[t] \notin Finishing))
    BY <1>1, <1>f, FinishingStep
  <2>2. CASE pc'[t] \notin Finishing
    <3>1. pc[t] # "crashed"
      BY <1>1 DEF Step, DiagnoseStep, DiagnoseGet, Intake, GraphMoves, GraphInterrupts,
         GraphFinishes, GraphFails, Persist, RetryStep, RetryInvalidates, RetryClears,
         RetryRestarts, ResumeStep, RecordApproval, RecordApprovalFails, ResumeGet, ResumeRefused,
         ResumeRestores, ResumeFails
    <3>2. Undisturbed
      BY <1>1, <2>1, <3>1, OnlyOwnStep DEF Undisturbed
    <3> QED
      BY <1>1, <1>p, <2>1, <2>2, <3>2, OnlyOwnStep
  <2> QED
    BY <2>2
<1>2. ASSUME NEW r \in Retries, RetryGet(r) PROVE \E t \in Tasks : pc'[t] \in Finishing
  BY <1>2, <1>p DEF RetryGet, Finishing, Undisturbed
<1>3. ASSUME NEW a \in Approvals, ApproveGet(a) PROVE \E t \in Tasks : pc'[t] \in Finishing
  BY <1>3, <1>p DEF ApproveGet, Finishing, Undisturbed
<1>4. ASSUME NEW n \in Alerts, FindIncident(n) \/ AppendAlert(n)
      PROVE  \E t \in Tasks : pc'[t] \in Finishing
  <2>1. row'.status = row.status /\ pc' = pc /\ faults' = faults
    BY <1>4 DEF FindIncident, AppendAlert, Incident
  <2> QED
    BY <1>p, <2>1 DEF Undisturbed
<1>5. CASE Expire \/ UNCHANGED vars
  BY <1>5, <1>p DEF Expire, Undisturbed, vars
<1> QED
  BY <1>f, <1>g, <1>1, <1>2, <1>3, <1>4, <1>5 DEF Next, Operator, Crash

-----------------------------------------------------------------------------
(* Decisions and recoveries *)

Approved == \E a \in Approvals : used[a].decision = "approve"

\* A decision is recorded once and is never taken back.
LEMMA DecisionsStay ==
    ASSUME TypeOK, TaskInv, DecisionInv, [Next]_vars, NEW a \in Approvals, used[a] # NoDecision
    PROVE  used'[a] = used[a]
<1> USE TaskKinds DEF TypeOK, DecisionInv
<1>1. ASSUME NEW t \in Tasks, Step(t) PROVE used'[a] = used[a]
  BY <1>1 DEF Step, DiagnoseStep, DiagnoseGet, Intake, GraphMoves, GraphInterrupts, GraphFinishes,
         GraphFails, Persist, RetryStep, RetryInvalidates, RetryClears, RetryRestarts, ResumeStep,
         RecordApproval, RecordApprovalFails, ResumeGet, ResumeRefused, ResumeRestores, ResumeFails
<1>2. CASE Operator
  BY <1>2 DEF Operator, RetryGet, ApproveGet
<1>3. CASE \E n \in Alerts : FindIncident(n) \/ AppendAlert(n)
  BY <1>3 DEF FindIncident, AppendAlert
<1>4. CASE Expire \/ Crash \/ (\E b \in Approvals : ResumePanics(b)) \/ UNCHANGED vars
  BY <1>4 DEF Expire, Crash, ResumePanics, ServerDies, vars
<1> QED
  BY <1>1, <1>2, <1>3, <1>4 DEF Next

LEMMA ApprovedStays ==
    ASSUME TypeOK, TaskInv, DecisionInv, [Next]_vars, Approved
    PROVE  Approved'
<1>1. PICK a \in Approvals : used[a].decision = "approve"
  BY DEF Approved
<1>2. used[a] # NoDecision
  BY <1>1 DEF NoDecision, None
<1> QED
  BY <1>1, <1>2, DecisionsStay DEF Approved

LEMMA DecisionNext ==
    TypeOK /\ IInv /\ [Next]_vars => DecisionInv'
<1> SUFFICES ASSUME TypeOK, IInv, [Next]_vars PROVE DecisionInv'
  OBVIOUS
<1> USE TaskKinds DEF TypeOK, IInv, DecisionInv, Goto, Ends
<1>1. ASSUME NEW t \in Tasks, Step(t) PROVE DecisionInv'
  <2>1. CASE RecordApproval(t)
    <3>1. PICK key \in Keys, decision \in {"approve", "reject"} :
            IF Unclaimed(key)
            THEN /\ approvals' = approvals \union {key}
                 /\ used' = [used EXCEPT ![t] = [key |-> key, decision |-> decision]]
                 /\ pc' = [pc EXCEPT ![t] = "resume"]
            ELSE UNCHANGED <<approvals, used>> /\ pc' = [pc EXCEPT ![t] = "done"]
      BY <2>1 DEF RecordApproval
    <3>2. t \in Approvals /\ pc[t] = "record"
      BY <2>1 DEF RecordApproval, TaskInv
    <3>3. CASE Unclaimed(key)
      <4>1. used'[t] = [key |-> key, decision |-> decision] /\ used'[t] # NoDecision
            /\ used'[t].key = key /\ key \in approvals'
        BY <3>1, <3>2, <3>3 DEF NoDecision, None
      <4>2. \A a \in Approvals : a # t =>
              /\ used'[a] = used[a] /\ pc'[a] = pc[a]
              /\ used[a] # NoDecision => used[a].key # key
        BY <3>1, <3>2, <3>3 DEF Unclaimed
      <4>3. pc'[t] = "resume" /\ approvals \subseteq approvals'
        BY <3>1, <3>2, <3>3
      <4> QED
        BY <4>1, <4>2, <4>3
    <3>4. CASE ~Unclaimed(key)
      BY <3>1, <3>2, <3>4
    <3> QED
      BY <3>3, <3>4
  <2>2. CASE DiagnoseStep(t)
    BY <2>2 DEF DiagnoseStep, DiagnoseGet, Intake, GraphMoves, GraphInterrupts, GraphFinishes,
           GraphFails, Persist, TaskInv
  <2>3. CASE RetryStep(t)
    BY <2>3 DEF RetryStep, RetryInvalidates, RetryClears, RetryRestarts, TaskInv
  <2>4. CASE RecordApprovalFails(t) \/ ResumeGet(t) \/ ResumeRefused(t) \/ ResumeRestores(t)
             \/ ResumeFails(t)
    BY <2>4 DEF RecordApprovalFails, ResumeGet, ResumeRefused, ResumeRestores, ResumeFails
  <2> QED
    BY <1>1, <2>1, <2>2, <2>3, <2>4 DEF Step, ResumeStep
<1>2. CASE Operator
  BY <1>2 DEF Operator, RetryGet, ApproveGet
<1>3. CASE \E n \in Alerts : FindIncident(n) \/ AppendAlert(n)
  BY <1>3 DEF FindIncident, AppendAlert
<1>4. CASE Expire \/ Crash \/ (\E b \in Approvals : ResumePanics(b)) \/ UNCHANGED vars
  BY <1>4 DEF Expire, Crash, ResumePanics, ServerDies, vars
<1> QED
  BY <1>1, <1>2, <1>3, <1>4 DEF Next

\* The row and every copy of it show a recovery only after an approval.
LEMMA CopyNext ==
    ASSUME TypeOK, IInv, [Next]_vars
    PROVE  CopyInv' /\ (row'.status \in RecoveryStatus => Approved')
<1> USE TaskKinds DEF TypeOK, IInv, Goto
<1>a. Approved => Approved'
  BY ApprovedStays
<1>r. /\ row.status \in RecoveryStatus => Approved
      /\ \A t \in Tasks : in[t].status \in RecoveryStatus \/ state[t].status \in RecoveryStatus
                            => Approved
  BY DEF RecoveryIsApproved, CopyInv, Approved
<1> SUFFICES /\ row'.status \in RecoveryStatus => Approved'
             /\ \A t \in Tasks :
                  in'[t].status \in RecoveryStatus \/ state'[t].status \in RecoveryStatus
                    => Approved'
  BY DEF CopyInv, Approved
<1>1. ASSUME NEW t \in Tasks, Step(t)
      PROVE  /\ row'.status \in RecoveryStatus => Approved'
             /\ \A j \in Tasks :
                  in'[j].status \in RecoveryStatus \/ state'[j].status \in RecoveryStatus
                    => Approved'
  <2>1. in'[t].status \in RecoveryStatus \/ state'[t].status \in RecoveryStatus => Approved'
    BY <1>1, <1>a, <1>r, StatusStep DEF Plain, Approved
  <2>2. row'.status \in RecoveryStatus => Approved'
    BY <1>1, <1>a, <1>r, <2>1, StatusStep
  <2> QED
    BY <1>1, <1>a, <1>r, <2>1, <2>2, OnlyOwnStep
<1>2. ASSUME NEW r \in Retries, RetryGet(r)
      PROVE  row' = row /\ in' = [in EXCEPT ![r] = row] /\ state' = state
  BY <1>2 DEF RetryGet
<1>3. ASSUME NEW a \in Approvals, ApproveGet(a)
      PROVE  /\ row' = row /\ in' = [in EXCEPT ![a] = row]
             /\ state' \in {state, [state EXCEPT ![a] = Failed(row)]}
  BY <1>3 DEF ApproveGet
<1>4. Failed(row).status \in RecoveryStatus => row.status \in RecoveryStatus
  BY FailedSettles DEF WriteInv
<1>5. ASSUME NEW n \in Alerts, FindIncident(n) \/ AppendAlert(n)
      PROVE  row'.status = row.status /\ in' = in /\ state' = state
  BY <1>5 DEF FindIncident, AppendAlert, Incident
<1>6. CASE Expire \/ Crash \/ (\E a \in Approvals : ResumePanics(a)) \/ UNCHANGED vars
  BY <1>6, <1>a, <1>r DEF Expire, Crash, ResumePanics, ServerDies, vars
<1> QED
  BY <1>a, <1>r, <1>1, <1>2, <1>3, <1>4, <1>5, <1>6 DEF Next, Operator

\* What RecoveryIsApproved says of one resume whose graph runs.
Recovers(a) == pc[a] = "graph" /\ state[a].status \in RecoveryStatus

Earned(a) ==
    /\ used[a].decision = "approve"
    /\ \A b \in Approvals : used[b].decision # None /\ used[b].key = used[a].key => a = b
    /\ state[a].proposal = in[a].proposal /\ in[a].interrupt = in[a].proposal

\* A step of the resume itself: it enters the recovery through approvalNode and
\* moves through it without touching the proposal.
LEMMA RecoveryStep ==
    ASSUME TypeOK, IInv, NEW a \in Approvals, Step(a), Recovers(a)'
    PROVE  Earned(a)'
<1> USE TaskKinds DEF TypeOK, IInv, Goto, Ends, Recovers, Earned
<1>1. CASE GraphMoves(a)
  <2>1. PICK to \in GraphMovesFrom(state[a].status) :
          state' = [state EXCEPT ![a] = Moved(a, @, to)]
    BY <1>1 DEF GraphMoves
  <2>2. state[a].status \in Status /\ state[a] \in Incident
    BY DEF Incident
  <2>3. state'[a].status = to
    BY <2>1, <2>2, StatusOf
  <2>4. to \in RecoveryStatus /\ state[a].status \in RecoveryStatus
    BY <2>2, <2>3, GraphMovesTo
  <2>5. state'[a].proposal = state[a].proposal
    BY <2>1, <2>2, <2>4 DEF Moved, Incident, RecoveryStatus
  <2> QED
    BY <1>1, <2>4, <2>5 DEF GraphMoves, RecoveryIsApproved
<1>2. CASE ResumeRestores(a)
  <2>1. PICK restored \in checkpoint : in[a].interrupt = restored.proposal
          /\ \E to \in Decided(a, restored) :
               state' = [state EXCEPT ![a] = [restored EXCEPT !.status = to]]
    BY <1>2 DEF ResumeRestores
  <2>2. PICK to \in Decided(a, restored) :
          state' = [state EXCEPT ![a] = [restored EXCEPT !.status = to]]
    BY <2>1
  <2>3. used[a] # NoDecision /\ used[a] \in Decision \ {NoDecision}
    BY <1>2 DEF ResumeRestores, DecisionInv
  <2>4. state'[a].status = to /\ state'[a].proposal = restored.proposal
    BY <2>2 DEF Incident
  <2>5. used[a].decision = "approve" /\ in[a].proposal = restored.proposal
    BY <2>3, <2>4 DEF Decided, Decision, RecoveryStatus
  <2>6. \A b \in Approvals : used[b].decision # None /\ used[b].key = used[a].key => a = b
    BY <2>3 DEF DecisionInv, NoDecision
  <2> QED
    BY <1>2, <2>1, <2>4, <2>5, <2>6 DEF ResumeRestores
<1>3. ~(Intake(a) \/ DiagnoseGet(a) \/ GraphInterrupts(a) \/ RetryStep(a))
  BY DEF Intake, DiagnoseGet, GraphInterrupts, RetryStep, RetryInvalidates, RetryClears,
         RetryRestarts, TaskInv
<1>4. ~(GraphFinishes(a) \/ GraphFails(a) \/ Persist(a) \/ RecordApproval(a)
         \/ RecordApprovalFails(a) \/ ResumeGet(a) \/ ResumeRefused(a) \/ ResumeFails(a))
  BY DEF GraphFinishes, GraphFails, Persist, RecordApproval, RecordApprovalFails, ResumeGet,
         ResumeRefused, ResumeFails
<1> QED
  BY <1>1, <1>2, <1>3, <1>4 DEF Step, DiagnoseStep, ResumeStep

\* What another call records is under another key.
LEMMA KeysApart ==
    ASSUME TypeOK, IInv, [Next]_vars, NEW a \in Approvals, used[a] # NoDecision,
           NEW b \in Approvals, used'[b].decision # None, used'[b].key = used'[a].key
    PROVE  a = b
<1>1. used'[a] = used[a] /\ DecisionInv' /\ TypeOK'
  BY DecisionsStay, DecisionNext, TypeNext DEF IInv
<1> QED
  BY <1>1 DEF DecisionInv, NoDecision

LEMMA RecoveryNext ==
    TypeOK /\ IInv /\ [Next]_vars => RecoveryIsApproved'
<1> SUFFICES ASSUME TypeOK, IInv, [Next]_vars, NEW a \in Approvals, Recovers(a)'
             PROVE  Earned(a)'
  BY CopyNext DEF RecoveryIsApproved, Recovers, Earned, Approved
<1> USE TaskKinds DEF TypeOK, Goto
<1>1. CASE Step(a)
  BY <1>1, RecoveryStep
<1>2. ASSUME pc'[a] = pc[a], state'[a] = state[a], in'[a] = in[a]
      PROVE  Earned(a)'
  <2>1. Recovers(a)
    BY <1>2 DEF Recovers
  <2>2. Earned(a)
    BY <2>1 DEF IInv, RecoveryIsApproved, Recovers, Earned
  <2>3. used[a] # NoDecision
    BY <2>2 DEF Earned, NoDecision, None
  <2>4. used'[a] = used[a]
    BY <2>3, DecisionsStay DEF IInv
  <2>5. \A b \in Approvals : used'[b].decision # None /\ used'[b].key = used'[a].key => a = b
    BY <2>3, KeysApart
  <2> QED
    BY <1>2, <2>2, <2>4, <2>5 DEF Earned
<1>3. ASSUME NEW t \in Tasks, Step(t), t # a
      PROVE  pc'[a] = pc[a] /\ state'[a] = state[a] /\ in'[a] = in[a]
  BY <1>3, OnlyOwnStep
<1>4. CASE Operator
  <2>1. pc'[a] = pc[a] /\ state'[a] = state[a] /\ in'[a] = in[a]
    BY <1>4 DEF Operator, RetryGet, ApproveGet, Recovers
  <2> QED
    BY <1>2, <2>1
<1>5. CASE (\E n \in Alerts : FindIncident(n) \/ AppendAlert(n)) \/ Expire \/ Crash
             \/ (\E b \in Approvals : ResumePanics(b)) \/ UNCHANGED vars
  <2>1. pc'[a] = pc[a] /\ state'[a] = state[a] /\ in'[a] = in[a]
    BY <1>5 DEF FindIncident, AppendAlert, Expire, Crash, ResumePanics, ServerDies, vars, Recovers
  <2> QED
    BY <1>2, <2>1
<1> QED
  BY <1>1, <1>2, <1>3, <1>4, <1>5 DEF Next

-----------------------------------------------------------------------------
(* The theorems *)

LEMMA InvInit == Init => TypeOK /\ IInv
<1> SUFFICES ASSUME Init PROVE TypeOK /\ IInv
  OBVIOUS
<1>1. TypeOK /\ TaskInv
  BY TypeInit
<1>2. WriteInv /\ ProgressInv /\ CopyInv
  BY TaskKinds DEF Init, WriteInv, ProgressInv, CopyInv, Created, RecoveryStatus, Settled
<1>3. DecisionInv /\ RecoveryIsApproved
  BY TaskKinds DEF Init, DecisionInv, RecoveryIsApproved, Created, RecoveryStatus
<1> QED
  BY <1>1, <1>2, <1>3 DEF IInv

\* The inductive invariant: which task takes which steps, what a task's last
\* write leaves, that an incident in progress has a task that will write, and
\* that what shows a recovery is younger than an approval.
THEOREM InvariantCorrect == Spec => [](TypeOK /\ IInv)
<1>1. Init => TypeOK /\ IInv
  BY InvInit
<1>2. TypeOK /\ IInv /\ [Next]_vars => (TypeOK /\ IInv)'
  <2> SUFFICES ASSUME TypeOK, IInv, [Next]_vars PROVE TypeOK' /\ IInv'
    OBVIOUS
  <2>1. TypeOK' /\ TaskInv'
    BY TypeNext, TaskNext DEF IInv
  <2>2. WriteInv' /\ ProgressInv' /\ CopyInv' /\ DecisionInv' /\ RecoveryIsApproved'
    BY WriteNext, ProgressNext, CopyNext, DecisionNext, RecoveryNext
  <2> QED
    BY <2>1, <2>2 DEF IInv
<1> QED
  BY <1>1, <1>2, PTL DEF Spec

\* When nobody works on the incident and no write was lost, its status is one an
\* operator can act on or a final one (diagnose, Retry, resumeWorkflow).
THEOREM QuietIsSettled == Spec => []QuietIncidentIsSettled
<1>1. TypeOK /\ IInv => QuietIncidentIsSettled
  BY DEF IInv, ProgressInv, QuietIncidentIsSettled, Quiet
<1> QED
  BY <1>1, InvariantCorrect, PTL

\* No recovery without an approval of its own, of the proposal and the interrupt
\* the row named (Approve, RecordApproval, resumeWorkflow, approvalNode).
THEOREM RecoveriesAreApproved == Spec => []RecoveryIsApproved
<1>1. TypeOK /\ IInv => RecoveryIsApproved
  BY DEF IInv
<1> QED
  BY <1>1, InvariantCorrect, PTL

\* What the row says of the workflow changes only by a step of a handler or a
\* goroutine, never by an alert (AppendAlert).
THEOREM AlertsKeepState == Spec => AlertsKeepWorkflowState
<1> DEFINE Moves == [row' EXCEPT !.alerts = {}] # [row EXCEPT !.alerts = {}]
                      => pc' # pc \/ state' # state
<1>1. TypeOK /\ TaskInv /\ [Next]_vars => [Moves]_vars
  <2> SUFFICES ASSUME TypeOK, TaskInv, Next PROVE Moves
    OBVIOUS
  <2> USE TaskKinds DEF TypeOK, Goto, Ends
  <2>1. ASSUME NEW t \in Tasks, Step(t), row' # row PROVE pc' # pc \/ state' # state
    <3>1. CASE GraphMoves(t)
      <4>1. PICK to \in GraphMovesFrom(state[t].status) :
              state' = [state EXCEPT ![t] = Moved(t, @, to)]
        BY <3>1 DEF GraphMoves
      <4>2. state'[t].status = to /\ state[t].status # to
        BY <4>1, StatusOf DEF GraphMovesFrom
      <4> QED
        BY <4>2
    <3>2. CASE DiagnoseStep(t) /\ ~GraphMoves(t)
      BY <2>1, <3>2 DEF DiagnoseStep, DiagnoseGet, Intake, GraphInterrupts, GraphFinishes,
             GraphFails, Persist
    <3>3. CASE RetryStep(t)
      BY <2>1, <3>3 DEF RetryStep, RetryInvalidates, RetryClears, RetryRestarts
    <3>4. CASE ResumeStep(t)
      BY <2>1, <3>4 DEF ResumeStep, RecordApproval, RecordApprovalFails, ResumeGet,
             ResumeRefused, ResumeRestores, ResumeFails
    <3> QED
      BY <2>1, <3>1, <3>2, <3>3, <3>4 DEF Step
  <2>2. ASSUME NEW n \in Alerts, FindIncident(n) \/ AppendAlert(n)
        PROVE  [row' EXCEPT !.alerts = {}] = [row EXCEPT !.alerts = {}]
    BY <2>2 DEF FindIncident, AppendAlert, Incident
  <2>3. CASE Operator \/ Expire \/ Crash \/ \E a \in Approvals : ResumePanics(a)
    BY <2>3 DEF Operator, RetryGet, ApproveGet, Expire, Crash, ResumePanics, ServerDies
  <2> QED
    BY <2>1, <2>2, <2>3 DEF Next
<1> QED
  BY <1>1, InvariantCorrect, PTL DEF Spec, AlertsKeepWorkflowState, IInv

=============================================================================
