----------------------------- MODULE LogIndexer -----------------------------
(***************************************************************************)
(* The log indexer (retrieval/log_indexer.go, cmd/log-indexer): replicas   *)
(* elect a leader with a Redis lock, and the leader reads Loki from a      *)
(* cursor that the replicas share, indexes the entries in batches and      *)
(* moves the cursor after each batch.                                      *)
(***************************************************************************)
EXTENDS Integers, Sequences, FiniteSets, Functions

CONSTANTS
    Replicas,   \* processes of cmd/log-indexer
    Entries,    \* log entries: [time |-> Nat, namespace |-> ...]
    Namespaces,
    BatchSize,  \* LogIndexer.BatchSize, also the limit of a Loki query
    Window,     \* how far back a leader starts that cannot read the cursor
    MaxTime,    \* bound: the clock
    MaxIndexerFaults,  \* bound: failed calls, crashes and locks that expire under a leader
    NoOwner     \* owner of a lock that nobody holds

ASSUME LimitsAssumption ==
    /\ BatchSize \in Nat \ {0} /\ Window \in Nat /\ MaxTime \in Nat /\ MaxIndexerFaults \in Nat
    /\ IsFiniteSet(Entries)
    /\ \A e \in Entries : e.time \in 1..MaxTime /\ e.namespace \in Namespaces
    /\ NoOwner \notin Replicas

VARIABLES
    clock,
    visible,    \* entries that Loki has ingested
    lock,       \* owner of kubepilot:lock:log-indexer, or NoOwner
    cursor,     \* kubepilot:cursor:log-indexer; 0 before it is written
    indexed,    \* entries whose template is in the vector store and in Postgres
    pc,         \* the step each replica is at
    cancelled,  \* replicas whose refresher has cancelled the run
    now,        \* the time at which each replica's IndexOnce began
    from,       \* the cursor it read
    batches,    \* the entries it still has to index, in order
    fetched,    \* history: entries that some query returned and no later one left out
    calm,       \* history: no lock expired under its leader, and none started from Window
                \* back after an entry was read
    indexerFaults

indexerVars == <<clock, visible, lock, cursor, indexed, pc, cancelled, now, from, batches, fetched,
                 calm, indexerFaults>>

IndexerSteps == {"stopped", "idle", "query", "index", "save", "save now"}

IndexerInit ==
    /\ clock = 0 /\ visible = {} /\ lock = NoOwner /\ cursor = 0 /\ indexed = {}
    /\ pc = [r \in Replicas |-> "stopped"] /\ cancelled = {}
    /\ now = [r \in Replicas |-> 0] /\ from = [r \in Replicas |-> 0]
    /\ batches = [r \in Replicas |-> <<>>]
    /\ fetched = {} /\ calm = TRUE /\ indexerFaults = 0

MovesTo(r, step) == pc' = [pc EXCEPT ![r] = step]

\* The replica leaves IndexOnce.
Forgets(r) ==
    /\ now' = [now EXCEPT ![r] = 0] /\ from' = [from EXCEPT ![r] = 0]
    /\ batches' = [batches EXCEPT ![r] = <<>>]

Ends(r) == MovesTo(r, "idle") /\ Forgets(r)

IndexerFault == indexerFaults < MaxIndexerFaults /\ indexerFaults' = indexerFaults + 1

-----------------------------------------------------------------------------
(* Loki *)

Tick ==
    /\ clock < MaxTime /\ clock' = clock + 1
    /\ UNCHANGED <<visible, lock, cursor, indexed, pc, cancelled, now, from, batches, fetched,
                   calm, indexerFaults>>

\* An entry is ingested at its time or later.
Ingest(e) ==
    /\ e \notin visible /\ e.time <= clock
    /\ visible' = visible \union {e}
    /\ UNCHANGED <<clock, lock, cursor, indexed, pc, cancelled, now, from, batches, fetched,
                   calm, indexerFaults>>

MinOf(a, b) == IF a < b THEN a ELSE b

MaxOf(a, b) == IF a > b THEN a ELSE b

Within(start, end) == {e \in visible : start < e.time /\ e.time <= end}

\* What QueryRange with direction=backward returns of S: the newest entries, at
\* most BatchSize of them.
Newest(S) ==
    {T \in SUBSET S :
        /\ Cardinality(T) = MinOf(BatchSize, Cardinality(S))
        /\ \A e \in T, f \in S \ T : f.time <= e.time}

\* sort.Slice by time: entries of one time may come in any order.
Sorted(q) == \A i, j \in DOMAIN q : i < j => q[i].time <= q[j].time

Orders(S) == {q \in [1..Cardinality(S) -> S] : Range(q) = S /\ Sorted(q)}
-----------------------------------------------------------------------------
(* The lock *)

\* Lock is SETNX: a replica that does not get it exits, and is started again.
Lock(r) ==
    /\ pc[r] = "stopped" /\ lock = NoOwner
    /\ lock' = r
    /\ MovesTo(r, "idle")
    /\ UNCHANGED <<clock, visible, cursor, indexed, cancelled, now, from, batches, fetched, calm,
                   indexerFaults>>

\* Mutant: only an error of the call is noticed.
RefreshLock_ErrorsOnly(r) ==
    /\ pc[r] # "stopped" /\ r \notin cancelled
    /\ IndexerFault
    /\ cancelled' = cancelled \union {r}
    /\ UNCHANGED <<clock, visible, lock, cursor, indexed, pc, now, from, batches, fetched, calm>>

\* The refresher: the run is cancelled when the lock has another owner or none,
\* and when the call fails.
RefreshLock(r) ==
    /\ pc[r] # "stopped" /\ r \notin cancelled
    /\ \/ lock # r /\ UNCHANGED indexerFaults
       \/ lock = r /\ IndexerFault
    /\ cancelled' = cancelled \union {r}
    /\ UNCHANGED <<clock, visible, lock, cursor, indexed, pc, now, from, batches, fetched, calm>>

\* Unlock deletes the key of its owner only.
Unlock(r) == lock' = IF lock = r THEN NoOwner ELSE lock

\* Run returns once the iteration is over; its deferred Unlock does not use the
\* cancelled context.  The select may take a tick that is due instead and begin
\* one more IndexOnce: with the cancelled context LoadCursor, the first query and
\* with it IndexOnce fail and nothing is written, which is a stuttering step here.
Stop(r) ==
    /\ pc[r] = "idle" /\ r \in cancelled
    /\ Unlock(r)
    /\ MovesTo(r, "stopped") /\ cancelled' = cancelled \ {r}
    /\ UNCHANGED <<clock, visible, cursor, indexed, now, from, batches, fetched, calm,
                   indexerFaults>>

Crash(r) ==
    /\ pc[r] # "stopped" /\ IndexerFault
    /\ MovesTo(r, "stopped") /\ Forgets(r) /\ cancelled' = cancelled \ {r}
    /\ UNCHANGED <<clock, visible, lock, cursor, indexed, fetched, calm>>

\* The lock lives for 30 seconds.  It runs out when its owner is gone, and when
\* the owner is paused or cut off for longer than that.
Expire ==
    /\ lock # NoOwner
    /\ \/ pc[lock] = "stopped" /\ UNCHANGED <<calm, indexerFaults>>
       \/ pc[lock] # "stopped" /\ IndexerFault /\ calm' = FALSE
    /\ lock' = NoOwner
    /\ UNCHANGED <<clock, visible, cursor, indexed, pc, cancelled, now, from, batches, fetched>>
-----------------------------------------------------------------------------
(* IndexOnce *)

\* Without a cursor, and when it cannot be read, the leader starts Window back:
\* past entries that it has read and failed to index.
LoadCursor(r) ==
    /\ pc[r] = "idle" /\ r \notin cancelled
    /\ now' = [now EXCEPT ![r] = clock]
    /\ \/ /\ cursor # 0
          /\ from' = [from EXCEPT ![r] = cursor] /\ UNCHANGED <<calm, indexerFaults>>
       \/ /\ IF cursor = 0 THEN UNCHANGED indexerFaults ELSE IndexerFault
          /\ from' = [from EXCEPT ![r] = MaxOf(0, clock - Window)]
          /\ calm' = (calm /\ cursor = 0 /\ fetched = {})
    /\ MovesTo(r, "query")
    /\ UNCHANGED <<clock, visible, lock, cursor, indexed, cancelled, batches, fetched>>

\* The queries of all namespaces, sorted by time.
Query(r) ==
    /\ pc[r] = "query"
    /\ LET range == Within(from[r], now[r])
       IN  \E found \in SUBSET range :
              /\ \A n \in Namespaces :
                    {e \in found : e.namespace = n} \in Newest({e \in range : e.namespace = n})
              /\ fetched' = (fetched \ range) \union found
              /\ \E q \in Orders(found) : batches' = [batches EXCEPT ![r] = q]
              /\ MovesTo(r, IF found = {} THEN "save now" ELSE "index")
    /\ from' = [from EXCEPT ![r] = 0]
    /\ UNCHANGED <<clock, visible, lock, cursor, indexed, cancelled, now, calm, indexerFaults>>

\* The batch at hand is the first entries of batches[r].
BatchEnd(r) == MinOf(BatchSize, Len(batches[r]))

Batch(r) == {batches[r][i] : i \in 1..BatchEnd(r)}

\* indexBatch: parse, embed, upsert the vectors, upsert the metadata.
IndexBatch(r) ==
    /\ pc[r] = "index"
    /\ indexed' = indexed \union Batch(r)
    /\ MovesTo(r, "save")
    /\ UNCHANGED <<clock, visible, lock, cursor, cancelled, now, from, batches, fetched, calm,
                   indexerFaults>>

\* Mutant: the cursor is moved over all batches at once.
SaveCursor_OverAll(r) ==
    /\ pc[r] = "save"
    /\ cursor' = batches[r][Len(batches[r])].time
    /\ \/ /\ Len(batches[r]) > BatchSize
          /\ batches' = [batches EXCEPT ![r] = SubSeq(@, BatchSize + 1, Len(@))]
          /\ MovesTo(r, "index") /\ UNCHANGED <<now, from>>
       \/ Len(batches[r]) <= BatchSize /\ Ends(r)
    /\ UNCHANGED <<clock, visible, lock, indexed, cancelled, fetched, calm, indexerFaults>>

\* The cursor moves to the last entry of the batch, whoever owns the lock.
SaveCursor(r) ==
    /\ pc[r] = "save"
    /\ cursor' = batches[r][BatchEnd(r)].time
    /\ \/ /\ Len(batches[r]) > BatchSize
          /\ batches' = [batches EXCEPT ![r] = SubSeq(@, BatchSize + 1, Len(@))]
          /\ MovesTo(r, "index") /\ UNCHANGED <<now, from>>
       \/ Len(batches[r]) <= BatchSize /\ Ends(r)
    /\ UNCHANGED <<clock, visible, lock, indexed, cancelled, fetched, calm, indexerFaults>>

\* Nothing was found up to the time IndexOnce began.
SaveNow(r) ==
    /\ pc[r] = "save now"
    /\ cursor' = now[r]
    /\ Ends(r)
    /\ UNCHANGED <<clock, visible, lock, indexed, cancelled, fetched, calm, indexerFaults>>

\* A failing call, or one whose context the refresher cancelled, ends IndexOnce.
IndexFails(r) ==
    /\ pc[r] \notin {"stopped", "idle"}
    /\ \/ r \in cancelled /\ UNCHANGED indexerFaults
       \/ r \notin cancelled /\ IndexerFault
    /\ Ends(r)
    /\ UNCHANGED <<clock, visible, lock, cursor, indexed, cancelled, fetched, calm>>

Work(r) ==
    LoadCursor(r) \/ Query(r) \/ IndexBatch(r) \/ SaveCursor(r) \/ SaveNow(r) \/ IndexFails(r)

IndexerNext ==
    \/ Tick
    \/ \E e \in Entries : Ingest(e)
    \/ Expire
    \/ \E r \in Replicas : Lock(r) \/ RefreshLock(r) \/ Stop(r) \/ Crash(r) \/ Work(r)

\* The refresher has its own goroutine, and every call of IndexOnce ends.
IndexerFairness ==
    \A r \in Replicas :
        /\ WF_indexerVars(lock # r /\ RefreshLock(r))
        /\ WF_indexerVars(Stop(r))
        /\ WF_indexerVars(Work(r))

IndexerSpec == IndexerInit /\ [][IndexerNext]_indexerVars /\ IndexerFairness
-----------------------------------------------------------------------------
(* Properties *)

\* The cursor never passes an entry that was read and not indexed, whatever
\* fails or crashes between a batch and the write of the cursor, as long as one
\* leader works at a time and finds the cursor.  The limit of a later query may
\* leave the entry out, and then it is passed.  Two entries with one timestamp
\* may be split over two batches, and the cursor cannot tell them apart.
CursorFollowsIndex ==
    calm => \A e \in fetched \ indexed :
        (\A f \in Entries \ {e} : f.time # e.time) => cursor < e.time

\* A leader whose lock expired stops: two replicas do not work side by side
\* for ever.
StaleLeaderStops == \A r \in Replicas : pc[r] # "stopped" /\ lock # r ~> pc[r] = "stopped"
=============================================================================
