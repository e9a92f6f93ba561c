----------------------- MODULE BenchmarkManager_proofs -----------------------
(***************************************************************************)
(* Proofs about BenchmarkManager: one execution at a time, and a row that  *)
(* agrees with memory, for any number of attempts, commands and faults.    *)
(***************************************************************************)
EXTENDS BenchmarkManager, TLAPS

-----------------------------------------------------------------------------
(* Types *)

\* An accepted call is a new attempt (Start, Resume).
LEMMA AcceptTypes ==
    ASSUME TypeOK, Accept,
           UNCHANGED <<profile, row, stored, command, fired, cancel, children, dirty, adopted,
                       faults>>
    PROVE  TypeOK'
<1>1. attempts + 1 \in Attempts /\ attempts' \in 0..MaxAttempts
    BY ProfilesAssumption DEF TypeOK, Accept, Attempts
<1>2. step' \in [Attempts -> Steps] /\ run' \in Statuses
    BY <1>1 DEF TypeOK, Accept, Goto, Steps, Statuses
<1>3. {a \in Attempts : step'[a] # "new"} = 1..attempts'
    <2>1. \A a \in Attempts : step'[a] # "new" <=> a = attempts + 1 \/ step[a] # "new"
        BY <1>1 DEF TypeOK, Accept, Goto
    <2>2. \A a \in Attempts : step[a] # "new" <=> a \in 1..attempts
        BY DEF TypeOK
    <2> QED
        BY <2>1, <2>2, <1>1, ProfilesAssumption DEF TypeOK, Accept, Attempts
<1>4. cancel # None => Live(cancel)'
    BY <1>1 DEF TypeOK, Accept, Goto, Live, None, Attempts
<1>5. 1..attempts \subseteq 1..attempts'
    BY ProfilesAssumption DEF TypeOK, Accept
<1> QED
    BY <1>1, <1>2, <1>3, <1>4, <1>5 DEF TypeOK

\* A step of execute moves one attempt on and leaves the number of attempts.
LEMMA ExecuteTypes ==
    ASSUME TypeOK, NEW a \in Attempts, Execute(a)
    PROVE  TypeOK'
<1>1. Live(a) /\ a \in 1..attempts
    BY DEF Execute, PersistQueued, Begin, StartChild, Output, ChildSucceeds, ChildFails,
           LongLine, PersistCaseResults, Finish, Live, TypeOK
<1>2. profile' = profile /\ attempts' = attempts
    BY DEF Execute, PersistQueued, Begin, StartChild, Output, ChildSucceeds, ChildFails,
           LongLine, PersistCaseResults, Finish
<1>3. /\ step' \in [Attempts -> Steps] /\ step'[a] # "new"
      /\ \A b \in Attempts \ {a} : step'[b] = step[b]
    BY <1>1 DEF Execute, PersistQueued, Begin, StartChild, Output, ChildSucceeds, ChildFails,
           LongLine, PersistCaseResults, Finish, Goto, Live, TypeOK, Steps
<1>4. run' \in Statuses /\ row' \in Statuses /\ faults' \in 0..MaxFaults
    <2>1. \A status \in Statuses : Persist(status) => row' \in Statuses /\ faults' \in 0..MaxFaults
        BY ProfilesAssumption DEF Persist, Fault, TypeOK
    <2>2. Outcome(a) \in Statuses /\ {"queued", "running"} \subseteq Statuses
        BY DEF Outcome, Statuses
    <2>3. Fault => faults' \in 0..MaxFaults
        BY ProfilesAssumption DEF Fault, TypeOK
    <2> QED
        BY <2>1, <2>2, <2>3 DEF Execute, PersistQueued, Begin, StartChild, Output, ChildSucceeds,
           ChildFails, LongLine, PersistCaseResults, Finish, TypeOK
<1>5. \A b \in Attempts : command'[b] \in 1..profile.commands
    <2>1. CASE command' = command
        BY <2>1 DEF TypeOK
    <2>2. CASE command' # command
        <3>1. command' = [command EXCEPT ![a] = @ + 1] /\ command[a] < profile.commands
            BY <2>2 DEF Execute, PersistQueued, Begin, StartChild, Output, ChildSucceeds,
               ChildFails, LongLine, PersistCaseResults, Finish
        <3> QED
            BY <3>1, ProfilesAssumption DEF TypeOK
    <2> QED
        BY <2>1, <2>2
<1>6. fired' \subseteq 1..attempts /\ children' \subseteq 1..attempts
    BY <1>1 DEF Execute, PersistQueued, Begin, StartChild, Output, ChildSucceeds, ChildFails,
           LongLine, PersistCaseResults, Finish, TypeOK
<1>7. cancel' \in Attempts \union {None} /\ (cancel' # None => Live(cancel)')
    <2>1. CASE Finish(a)
        BY <2>1 DEF Finish
    <2>2. CASE ~Finish(a)
        <3>1. Live(a)' /\ (cancel' = cancel \/ cancel' = a)
            BY <2>2, <1>1 DEF Execute, PersistQueued, Begin, StartChild, Output, ChildSucceeds,
               ChildFails, LongLine, PersistCaseResults, Goto, Live, TypeOK
        <3> QED
            BY <3>1, <1>3 DEF Live, TypeOK
    <2> QED
        BY <2>1, <2>2
<1>8. {b \in Attempts : step'[b] # "new"} = 1..attempts
    BY <1>1, <1>3 DEF TypeOK
<1> QED
    BY <1>2, <1>3, <1>4, <1>5, <1>6, <1>7, <1>8 DEF TypeOK

\* A restart loses the attempts that were live.
LEMMA RestartTypes ==
    ASSUME TypeOK, Restart
    PROVE  TypeOK'
<1>1. step' \in [Attempts -> Steps] /\ \A a \in Attempts : step'[a] # "new" <=> step[a] # "new"
    BY DEF Restart, TypeOK, Steps, Live
<1>2. faults' \in 0..MaxFaults /\ row' \in Statuses /\ run' \in Statuses
    BY ProfilesAssumption DEF Restart, TypeOK, Fault, Statuses
<1> QED
    BY <1>1, <1>2 DEF Restart, TypeOK

\* The initial state has its types.
LEMMA TypesInitially == Init => TypeOK
BY ProfilesAssumption DEF Init, TypeOK, Statuses, Steps, Attempts, None

\* Every step keeps them.
LEMMA TypesPreserved == TypeOK /\ [Next]_vars => TypeOK'
<1> SUFFICES ASSUME TypeOK, [Next]_vars PROVE TypeOK'
    OBVIOUS
<1>1. CASE StartRequest
    BY <1>1, AcceptTypes DEF StartRequest
<1>2. CASE Resume
    BY <1>2, AcceptTypes DEF Resume
<1>3. CASE Cancel
    BY <1>3 DEF Cancel, TypeOK, Live
<1>4. CASE Restart
    BY <1>4, RestartTypes
<1>5. ASSUME NEW a \in Attempts, Execute(a) PROVE TypeOK'
    BY <1>5, ExecuteTypes
<1>6. CASE UNCHANGED vars
    BY <1>6 DEF vars, TypeOK, Live
<1> QED
    BY <1>1, <1>2, <1>3, <1>4, <1>5, <1>6 DEF Next

\* The state of the manager is well formed (BenchmarkManager in benchmarks.go).
THEOREM TypeCorrect == Spec => []TypeOK
BY TypesInitially, TypesPreserved, PTL DEF Spec
-----------------------------------------------------------------------------
(* One execution, and the row *)

\* Attempts whose snapshot is not written or whose first section has not run.
Starting(a) == step[a] \in {"persist", "begin"}

\* The strengthening: where the live attempt is tells the status in memory, which
\* is what the handlers look at before they accept another call.
IInv ==
    /\ TypeOK
    /\ OneExecution
    /\ \A a \in Attempts : Live(a) => run = IF Starting(a) THEN "queued" ELSE "running"
    /\ \A a \in Attempts : step[a] = "finish" => stored = profile.cases
    /\ RowFollowsRun

\* A call accepted while no attempt is live starts the only one.
LEMMA AcceptKeeps ==
    ASSUME IInv, TypeOK', Accept, \A a \in Attempts : ~Live(a), row # "completed",
           UNCHANGED <<profile, row, stored, command, fired, cancel, children, dirty, adopted,
                       faults>>
    PROVE  IInv'
<1> DEFINE new == attempts + 1
<1>1. new \in Attempts /\ step' = [step EXCEPT ![new] = "persist"] /\ run' = "queued"
    BY ProfilesAssumption DEF IInv, TypeOK, Accept, Goto, Attempts
<1>2. \A a \in Attempts : step'[a] = IF a = new THEN "persist" ELSE step[a]
    BY <1>1 DEF IInv, TypeOK
<1> HIDE DEF new
<1>3. \A a \in Attempts : Live(a)' <=> a = new
    BY <1>1, <1>2 DEF Live
<1>4. OneExecution'
    BY <1>1, <1>3 DEF OneExecution
<1>5. RowFollowsRun'
    BY <1>1, <1>2 DEF RowFollowsRun
<1> QED
    BY <1>1, <1>2, <1>3, <1>4, <1>5 DEF IInv, Starting, Live

\* A step of execute: the attempt that moves is the only live one.
LEMMA ExecuteKeeps ==
    ASSUME IInv, TypeOK', NEW a \in Attempts, Execute(a)
    PROVE  IInv'
<1>1. Live(a) /\ \A b \in Attempts : Live(b) <=> b = a
    BY DEF Execute, PersistQueued, Begin, StartChild, Output, ChildSucceeds, ChildFails,
           LongLine, PersistCaseResults, Finish, Live, IInv, OneExecution
<1>2. run = IF Starting(a) THEN "queued" ELSE "running"
    BY <1>1 DEF IInv
<1>3. row # "completed"
    BY <1>2 DEF IInv, RowFollowsRun
<1>4. \A b \in Attempts \ {a} : step'[b] = step[b]
    BY DEF Execute, PersistQueued, Begin, StartChild, Output, ChildSucceeds, ChildFails,
           LongLine, PersistCaseResults, Finish, Goto, IInv, TypeOK
<1>5. profile' = profile /\ adopted' = adopted
    BY DEF Execute, PersistQueued, Begin, StartChild, Output, ChildSucceeds, ChildFails,
           LongLine, PersistCaseResults, Finish
<1>6. CASE Finish(a)
    <2>1. \A b \in Attempts : ~Live(b)'
        BY <1>1, <1>4, <1>6 DEF Finish, Goto, Live, IInv, TypeOK
    <2>2. run' = Outcome(a) /\ run' \notin Active /\ stored' = stored
        BY <1>6 DEF Finish, Outcome, Active
    <2>3. OneExecution'
        BY <2>1, <2>2 DEF OneExecution
    <2>4. row' = run' \/ (row' = row /\ dirty')
        BY <1>6, <2>2 DEF Finish, Persist
    <2>5. run' = "completed" => stored = profile.cases
        BY <2>2 DEF Outcome, IInv
    <2>6. RowFollowsRun'
        BY <2>2, <2>4, <2>5, <1>3, <1>5 DEF RowFollowsRun
    <2> QED
        BY <2>1, <2>3, <2>6 DEF IInv, Live
<1>7. CASE ~Finish(a)
    <2>1. Live(a)' /\ \A b \in Attempts : Live(b)' <=> b = a
        BY <1>1, <1>4, <1>7 DEF Execute, PersistQueued, Begin, StartChild, Output, ChildSucceeds,
           ChildFails, LongLine, PersistCaseResults, Goto, Live, IInv, TypeOK
    <2>2. run' = IF Starting(a)' THEN "queued" ELSE "running"
        BY <1>1, <1>2, <1>7 DEF Execute, PersistQueued, Begin, StartChild, Output, ChildSucceeds,
           ChildFails, LongLine, PersistCaseResults, Goto, Starting, IInv, TypeOK
    <2>3. step'[a] = "finish" => stored' = profile.cases
        BY <1>7 DEF Execute, PersistQueued, Begin, StartChild, Output, ChildSucceeds,
           ChildFails, LongLine, PersistCaseResults, Goto, IInv, TypeOK
    <2>4. OneExecution'
        BY <2>1 DEF OneExecution
    <2>5. \/ row' = run' /\ ~dirty'
          \/ row' = row /\ dirty'
          \/ UNCHANGED <<run, row, dirty>> /\ step[a] # "persist"
        <3>1. CASE PersistQueued(a)
            BY <3>1, <1>2 DEF PersistQueued, Persist, Starting
        <3>2. CASE Begin(a) \/ Output(a)
            BY <3>2 DEF Begin, Output, Persist
        <3>3. CASE ~PersistQueued(a) /\ ~Begin(a) /\ ~Output(a)
            BY <3>3, <1>7 DEF Execute, StartChild, ChildSucceeds, ChildFails, LongLine,
               PersistCaseResults
        <3> QED
            BY <3>1, <3>2, <3>3
    <2>6. run' \in Active
        BY <2>2 DEF Active
    <2>7. RowFollowsRun'
        <3>1. row' # "completed"
            BY <2>5, <2>6, <1>3 DEF Active
        <3>2. CASE UNCHANGED <<run, row, dirty>> /\ step[a] # "persist"
            <4>1. \A b \in Attempts : step[b] # "persist"
                BY <3>2, <1>1 DEF Live
            <4> QED
                BY <3>1, <3>2, <4>1 DEF IInv, RowFollowsRun
        <3> QED
            BY <2>5, <3>1, <3>2 DEF RowFollowsRun
    <2>8. \A b \in Attempts : step'[b] = "finish" => Live(b)'
        BY DEF Live
    <2> QED
        BY <2>1, <2>2, <2>3, <2>4, <2>7, <2>8, <1>5 DEF IInv
<1> QED
    BY <1>6, <1>7

\* A restart leaves no live attempt, and its marks are in memory and in the row.
LEMMA RestartKeeps ==
    ASSUME IInv, TypeOK', Restart
    PROVE  IInv'
<1>1. \A a \in Attempts : ~Live(a)'
    BY DEF Restart, Live, IInv, TypeOK
<1>2. run' \in {row', "absent"} /\ (row' = row \/ row' = "interrupted")
    BY DEF Restart
<1>3. OneExecution'
    BY <1>1 DEF Restart, OneExecution
<1>4. RowFollowsRun'
    BY <1>2 DEF Restart, IInv, RowFollowsRun
<1> QED
    BY <1>1, <1>3, <1>4 DEF IInv, Live

\* The inductive invariant of the manager.
THEOREM Inductive == Spec => []IInv
<1>1. Init => IInv
    <2> SUFFICES ASSUME Init PROVE IInv
        OBVIOUS
    <2>1. TypeOK
        BY TypesInitially
    <2>2. \A a \in Attempts : step[a] = "new"
        BY DEF Init
    <2> QED
        BY <2>1, <2>2 DEF Init, IInv, OneExecution, RowFollowsRun, Live, Active
<1>2. IInv /\ [Next]_vars => IInv'
    <2> SUFFICES ASSUME IInv, [Next]_vars PROVE IInv'
        OBVIOUS
    <2>1. TypeOK'
        BY TypesPreserved DEF IInv
    <2>2. CASE StartRequest \/ Resume
        <3>1. run \notin Active /\ row # "completed"
            BY <2>2 DEF StartRequest, Resume, Active, IInv, RowFollowsRun
        <3>2. \A a \in Attempts : ~Live(a)
            BY <3>1 DEF IInv, Active
        <3> QED
            BY <2>1, <2>2, <3>1, <3>2, AcceptKeeps DEF StartRequest, Resume
    <2>3. CASE Cancel
        BY <2>1, <2>3 DEF Cancel, IInv, OneExecution, RowFollowsRun, Live, Starting
    <2>4. CASE Restart
        BY <2>1, <2>4, RestartKeeps
    <2>5. ASSUME NEW a \in Attempts, Execute(a) PROVE IInv'
        BY <2>1, <2>5, ExecuteKeeps
    <2>6. CASE UNCHANGED vars
        BY <2>1, <2>6 DEF vars, IInv, OneExecution, RowFollowsRun, Live, Starting
    <2> QED
        BY <2>2, <2>3, <2>4, <2>5, <2>6 DEF Next
<1> QED
    BY <1>1, <1>2, PTL DEF Spec

\* At most one attempt executes, whatever the order of Start, Resume, Cancel and
\* restarts, and an active run has an execution (Start, Resume, execute).
THEOREM OneExecutionHolds == Spec => []OneExecution
<1>1. IInv => OneExecution
    BY DEF IInv
<1> QED
    BY <1>1, Inductive, PTL

\* The row follows the run, and a completed row is true and final (persist,
\* restorePersistedRuns).
THEOREM RowFollowsRunHolds == Spec => []RowFollowsRun
<1>1. IInv => RowFollowsRun
    BY DEF IInv
<1> QED
    BY <1>1, Inductive, PTL
=============================================================================
