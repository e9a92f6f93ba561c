-------------------------- MODULE BenchmarkManager --------------------------
(***************************************************************************)
(* Benchmark runs started over the API (internal/service/benchmarks.go).   *)
(*                                                                         *)
(* The manager keeps every run in memory under one mutex and a row of it   *)
(* in benchmark_runs.  Each accepted Start or Resume is one attempt: a     *)
(* goroutine, execute, that runs the benchmark binary as a child process   *)
(* for every command of the profile and then stores the case results.      *)
(* Cancel fires the context of the attempt whose cancel function is in     *)
(* the map.  A restart of the server marks the active rows interrupted.    *)
(***************************************************************************)
EXTENDS Integers, FiniteSets

CONSTANTS
    Profiles,     \* profiles a request may name: [commands |-> Nat, cases |-> BOOLEAN]
    MaxAttempts,  \* bound: accepted calls of Start and Resume
    MaxFaults     \* bound: failed writes, long lines and restarts

ASSUME ProfilesAssumption ==
    /\ \A p \in Profiles : p.commands \in Nat \ {0} /\ p.cases \in BOOLEAN
    /\ MaxAttempts \in Nat \ {0} /\ MaxFaults \in Nat

VARIABLES
    profile,   \* the run's profile
    run,       \* its status in memory
    row,       \* its status in benchmark_runs
    stored,    \* whether its case results are in benchmark_case_results
    attempts,  \* number of accepted calls
    step,      \* of each attempt
    command,   \* the command each attempt is at
    fired,     \* attempts whose context is cancelled
    cancel,    \* the attempt whose function is in the cancel map, or none
    children,  \* attempts whose child process is alive
    dirty,     \* the last write of the row failed
    adopted,   \* an active row was loaded because marking it interrupted failed
    faults

vars == <<profile, run, row, stored, attempts, step, command, fired, cancel, children, dirty,
          adopted, faults>>

Attempts == 1..MaxAttempts

None == 0

Statuses == {"absent", "queued", "running", "completed", "failed", "cancelled", "interrupted"}

Active == {"queued", "running"}

Steps == {"new", "persist", "begin", "command", "child", "cases", "finish failed", "finish",
          "over", "lost"}

Live(a) == step[a] \notin {"new", "over", "lost"}

TypeOK ==
    /\ profile \in Profiles /\ run \in Statuses /\ row \in Statuses
    /\ attempts \in 0..MaxAttempts /\ cancel \in Attempts \union {None}
    /\ step \in [Attempts -> Steps] /\ \A a \in Attempts : command[a] \in 1..profile.commands
    /\ {a \in Attempts : step[a] # "new"} = 1..attempts
    /\ fired \subseteq 1..attempts /\ children \subseteq 1..attempts
    /\ cancel # None => Live(cancel)
    /\ faults \in 0..MaxFaults

Init ==
    /\ profile \in Profiles /\ run = "absent" /\ row = "absent" /\ stored = FALSE
    /\ attempts = 0 /\ step = [a \in Attempts |-> "new"] /\ command = [a \in Attempts |-> 1]
    /\ fired = {} /\ cancel = None /\ children = {} /\ dirty = FALSE /\ adopted = FALSE
    /\ faults = 0

Fault == faults < MaxFaults /\ faults' = faults + 1

\* SaveBenchmarkRun writes the whole row; persist ignores its error.
Persist(status) ==
    \/ row' = status /\ dirty' = FALSE /\ UNCHANGED faults
    \/ UNCHANGED row /\ dirty' = TRUE /\ Fault

Goto(a, where) == step' = [step EXCEPT ![a] = where]

-----------------------------------------------------------------------------
\* Start and Resume put the run into memory as queued, leave the mutex, write
\* the snapshot they took and only then start execute.
Accept ==
    /\ attempts < MaxAttempts /\ attempts' = attempts + 1
    /\ run' = "queued"
    /\ Goto(attempts + 1, "persist")

StartRequest ==
    /\ run = "absent" /\ row = "absent"
    /\ Accept
    /\ UNCHANGED <<profile, row, stored, command, fired, cancel, children, dirty, adopted,
                   faults>>

\* Mutant: only running runs are refused.
Resume_WhileQueued ==
    /\ run \in {"queued", "interrupted", "failed", "cancelled"}
    /\ profile.cases
    /\ Accept
    /\ UNCHANGED <<profile, row, stored, command, fired, cancel, children, dirty, adopted,
                   faults>>

\* Only runs that stopped short are resumed, and only profiles with case
\* checkpoints.  (Nothing makes a run paused: the map of reasons stays empty.)
Resume ==
    /\ run \in {"interrupted", "failed", "cancelled"}
    /\ profile.cases
    /\ Accept
    /\ UNCHANGED <<profile, row, stored, command, fired, cancel, children, dirty, adopted,
                   faults>>

PersistQueued(a) ==
    /\ step[a] = "persist"
    /\ Persist("queued")
    /\ Goto(a, "begin")
    /\ UNCHANGED <<profile, run, stored, attempts, command, fired, cancel, children, adopted>>

\* execute: its first section under the mutex.
Begin(a) ==
    /\ step[a] = "begin"
    /\ cancel' = a /\ run' = "running"
    /\ Persist("running")
    /\ Goto(a, "command")
    /\ UNCHANGED <<profile, stored, attempts, command, fired, children, adopted>>

\* runCommand: the child is not started once the context is cancelled.
StartChild(a) ==
    /\ step[a] = "command"
    /\ \/ /\ a \notin fired
          /\ children' = children \union {a} /\ Goto(a, "child")
       \/ UNCHANGED children /\ Goto(a, "finish failed")
    /\ UNCHANGED <<profile, run, row, stored, attempts, command, fired, cancel, dirty, adopted,
                   faults>>

\* append: every line of output writes the row again.
Output(a) ==
    /\ step[a] = "child" /\ dirty
    /\ Persist(run)
    /\ UNCHANGED <<profile, run, stored, attempts, step, command, fired, cancel, children,
                   adopted>>

\* The child exits, by itself or killed by the context: an error ends the loop.
ChildSucceeds(a) ==
    /\ step[a] = "child"
    /\ children' = children \ {a}
    /\ IF command[a] < profile.commands
         THEN command' = [command EXCEPT ![a] = @ + 1] /\ Goto(a, "command")
         ELSE UNCHANGED command /\ Goto(a, "cases")
    /\ UNCHANGED <<profile, run, row, stored, attempts, fired, cancel, dirty, adopted, faults>>

ChildFails(a) ==
    /\ step[a] = "child"
    /\ children' = children \ {a}
    /\ Goto(a, "finish failed")
    /\ UNCHANGED <<profile, run, row, stored, attempts, command, fired, cancel, dirty, adopted,
                   faults>>

\* A line longer than the scanner's buffer: runCommand returns the error and
\* neither waits for the child nor kills it.
LongLine(a) ==
    /\ step[a] = "child" /\ Fault
    /\ Goto(a, "finish failed")
    /\ UNCHANGED <<profile, run, row, stored, attempts, command, fired, cancel, children, dirty,
                   adopted>>

\* persistCaseResults: nothing to do for a profile without cases; its error
\* fails the run.
PersistCaseResults(a) ==
    /\ step[a] = "cases"
    /\ \/ stored' = profile.cases /\ Goto(a, "finish") /\ UNCHANGED faults
       \/ profile.cases /\ Fault /\ Goto(a, "finish failed") /\ UNCHANGED stored
    /\ UNCHANGED <<profile, run, row, attempts, command, fired, cancel, children, dirty, adopted>>

\* execute: its last section under the mutex.  A context that was cancelled
\* hides any other outcome.
Outcome(a) ==
    IF a \in fired THEN "cancelled"
    ELSE IF step[a] = "finish" THEN "completed" ELSE "failed"

\* Mutant: the last status stays in memory.
Finish_Unsaved(a) ==
    /\ step[a] \in {"finish", "finish failed"}
    /\ cancel' = None /\ run' = Outcome(a)
    /\ Goto(a, "over")
    /\ UNCHANGED <<profile, row, stored, attempts, command, fired, children, dirty, adopted,
                   faults>>

Finish(a) ==
    /\ step[a] \in {"finish", "finish failed"}
    /\ cancel' = None /\ run' = Outcome(a)
    /\ Persist(Outcome(a))
    /\ Goto(a, "over")
    /\ UNCHANGED <<profile, stored, attempts, command, fired, children, adopted>>

\* Cancel is refused until execute has registered its function.
Cancel ==
    /\ cancel # None /\ cancel \notin fired
    /\ fired' = fired \union {cancel}
    /\ UNCHANGED <<profile, run, row, stored, attempts, step, command, cancel, children, dirty,
                   adopted, faults>>

\* The server and its children die; restorePersistedRuns marks the active rows
\* and loads the rows.  Both calls may fail: a run that is not listed is unknown
\* to this process, and its row stays.
Restart ==
    /\ Fault
    /\ step' = [a \in Attempts |-> IF Live(a) THEN "lost" ELSE step[a]]
    /\ children' = {} /\ cancel' = None /\ dirty' = FALSE
    /\ \E marked, listed \in BOOLEAN :
          /\ row' = IF marked /\ row \in Active THEN "interrupted" ELSE row
          /\ run' = IF listed THEN row' ELSE "absent"
          /\ adopted' = (run' \in Active)
    /\ UNCHANGED <<profile, stored, attempts, command, fired>>

Execute(a) ==
    \/ PersistQueued(a) \/ Begin(a) \/ StartChild(a) \/ Output(a) \/ ChildSucceeds(a)
    \/ ChildFails(a) \/ LongLine(a) \/ PersistCaseResults(a) \/ Finish(a)

Next == StartRequest \/ Resume \/ Cancel \/ Restart \/ \E a \in Attempts : Execute(a)

Spec == Init /\ [][Next]_vars
-----------------------------------------------------------------------------
(* Properties *)

\* Start and Resume write a snapshot outside of the mutex: it never overwrites
\* a later status, because execute only starts after the write.  Unless the
\* last write failed, the row agrees with memory whenever no call is between
\* its change and its write; and a row that says completed is true, and final: the
\* results of the cases are stored, and no restart or late Resume takes it up again.
RowFollowsRun ==
    /\ run # "absent" /\ ~dirty /\ (\A a \in Attempts : step[a] # "persist") => row = run
    /\ row = "completed" => stored = profile.cases /\ run \in {"completed", "absent"}

\* Start, Resume and restarts in any order: one attempt of a run executes at a
\* time, and an active run has one, unless a restart failed to mark its row.
OneExecution ==
    /\ \A a, b \in Attempts : Live(a) /\ Live(b) => a = b
    /\ run \in Active /\ ~adopted => \E a \in Attempts : Live(a)

=============================================================================
