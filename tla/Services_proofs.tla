--------------------------- MODULE Services_proofs ---------------------------
(***************************************************************************)
(* Proofs about the services beside the incident workflow.                 *)
(*                                                                         *)
(* The log indexer: for any replicas, entries and batch size, the cursor   *)
(* never passes an entry that was read and not indexed.  The chat model:   *)
(* for any configurations, workflows, edits and faults, only a client that *)
(* answered the probe is ever used.                                        *)
(***************************************************************************)
EXTENDS LogIndexer, HotModel, FiniteSetTheorems, TLAPS

-----------------------------------------------------------------------------
(* The log indexer *)

\* Entries that a query returned and that still have to be indexed, except for
\* those that share their time with another.
Missing == {e \in fetched \ indexed : \A f \in Entries \ {e} : f.time # e.time}

IndexerTypeOK ==
    /\ clock \in Nat /\ cursor \in Nat
    /\ visible \subseteq Entries /\ fetched \subseteq visible
    /\ \A e \in visible : e.time <= clock
    /\ lock \in Replicas \union {NoOwner}
    /\ pc \in [Replicas -> IndexerSteps]
    /\ now \in [Replicas -> Nat] /\ from \in [Replicas -> Nat]
    /\ batches \in [Replicas -> Seq(Entries)]
    /\ \A r \in Replicas : pc[r] \in {"index", "save"} => batches[r] # <<>>
    /\ calm \in BOOLEAN

\* What the leader relies on at each step of IndexOnce.
LeaderOK(r) ==
    /\ pc[r] \notin {"stopped", "idle"} => \A e \in fetched : e.time <= now[r]
    /\ pc[r] = "query" => cursor <= from[r] /\ \A e \in Missing : from[r] < e.time
    /\ pc[r] \in {"index", "save"} =>
          Sorted(batches[r]) /\ Missing \subseteq Range(batches[r])
    /\ pc[r] = "save" => Batch(r) \subseteq indexed
    /\ pc[r] = "save now" => Missing = {}

\* While it is calm one replica works at a time, and it owns the lock.
IndexerInv ==
    /\ IndexerTypeOK
    /\ calm =>
        /\ \A r \in Replicas : pc[r] # "stopped" => lock = r /\ LeaderOK(r)
        /\ \A e \in Missing : cursor < e.time

LEMMA EntryTimes ==
    \A e \in Entries : e.time \in Nat /\ e.namespace \in Namespaces
BY LimitsAssumption

\* The invariant speaks of the variables of one replica at a time: a step of the
\* replica that owns the lock preserves it when it does so for that replica.
LEMMA LeaderStep ==
    ASSUME IndexerInv, IndexerTypeOK', NEW r \in Replicas, pc[r] # "stopped",
           lock' = lock,
           \A s \in Replicas \ {r} : pc'[s] = pc[s],
           calm' => calm,
           calm /\ calm' => /\ pc'[r] # "stopped" => LeaderOK(r)'
                            /\ \A e \in Missing' : cursor' < e.time
    PROVE  IndexerInv'
<1> SUFFICES ASSUME calm'
             PROVE  /\ \A s \in Replicas : pc'[s] # "stopped" => lock' = s /\ LeaderOK(s)'
                    /\ \A e \in Missing' : cursor' < e.time
    BY DEF IndexerInv
<1>1. calm /\ lock = r
    BY DEF IndexerInv
<1>2. \A s \in Replicas \ {r} : pc[s] = "stopped"
    BY <1>1 DEF IndexerInv
<1> QED
    BY <1>1, <1>2

\* A step that moves no replica, and neither the entries nor the cursor.
LEMMA IdleStep ==
    ASSUME IndexerInv, IndexerTypeOK', calm' => calm,
           UNCHANGED <<lock, cursor, indexed, pc, now, from, batches, fetched>>
    PROVE  IndexerInv'
<1>1. Missing' = Missing
    BY DEF Missing
<1>2. \A r \in Replicas : LeaderOK(r) => LeaderOK(r)'
    BY <1>1 DEF LeaderOK, Batch, BatchEnd
<1> QED
    BY <1>1, <1>2 DEF IndexerInv

\* The lock changes hands while nobody works (SETNX and the expiry in Redis).
LEMMA LockKeeps ==
    ASSUME IndexerInv, NEW r \in Replicas, Lock(r)
    PROVE  IndexerInv'
<1>1. IndexerTypeOK'
    BY DEF IndexerInv, IndexerTypeOK, IndexerSteps, Lock, MovesTo
<1>2. Missing' = Missing
    BY DEF Missing, Lock
<1> SUFFICES ASSUME calm
             PROVE  /\ \A s \in Replicas : pc'[s] # "stopped" => lock' = s /\ LeaderOK(s)'
                    /\ \A e \in Missing' : cursor' < e.time
    BY <1>1 DEF IndexerInv, Lock
<1>3. \A s \in Replicas : pc[s] = "stopped"
    BY LimitsAssumption DEF IndexerInv, Lock
<1>4. pc' = [pc EXCEPT ![r] = "idle"] /\ lock' = r /\ cursor' = cursor
    BY DEF Lock, MovesTo
<1>5. pc'[r] = "idle" /\ \A s \in Replicas \ {r} : pc'[s] = "stopped"
    BY <1>3, <1>4 DEF IndexerInv, IndexerTypeOK
<1>6. LeaderOK(r)'
    BY <1>5 DEF LeaderOK
<1> QED
    BY <1>2, <1>4, <1>5, <1>6 DEF IndexerInv

LEMMA ExpireKeeps ==
    ASSUME IndexerInv, Expire
    PROVE  IndexerInv'
<1>1. IndexerTypeOK'
    BY DEF IndexerInv, IndexerTypeOK, Expire
<1>2. CASE calm'
    <2>1. pc[lock] = "stopped" /\ calm /\ lock \in Replicas
        BY <1>2 DEF Expire, IndexerInv, IndexerTypeOK
    <2>2. \A r \in Replicas : pc[r] = "stopped"
        BY <2>1 DEF IndexerInv
    <2>3. Missing' = Missing /\ cursor' = cursor /\ pc' = pc
        BY DEF Missing, Expire
    <2> QED
        BY <1>1, <2>1, <2>2, <2>3 DEF IndexerInv
<1> QED
    BY <1>1, <1>2 DEF IndexerInv

\* Leaving IndexOnce, the replica forgets its batches.
LEMMA ForgetsTypes ==
    ASSUME IndexerTypeOK, NEW r \in Replicas, Forgets(r)
    PROVE  /\ now' \in [Replicas -> Nat] /\ from' \in [Replicas -> Nat]
           /\ batches' \in [Replicas -> Seq(Entries)]
           /\ \A s \in Replicas \ {r} : batches'[s] = batches[s]
BY DEF IndexerTypeOK, Forgets

\* Leaving IndexOnce, with the run or without it, moves neither the cursor nor
\* an entry (IndexOnce's error returns, Run's deferred Unlock).
LEMMA LeaveKeeps ==
    ASSUME IndexerInv, NEW r \in Replicas, Stop(r) \/ Crash(r) \/ IndexFails(r)
    PROVE  IndexerInv'
<1>1. /\ UNCHANGED <<clock, visible, cursor, indexed, fetched, calm>>
      /\ pc[r] # "stopped"
      /\ \/ pc' = [pc EXCEPT ![r] = "stopped"]
         \/ pc' = [pc EXCEPT ![r] = "idle"] /\ lock' = lock
      /\ lock' = lock \/ lock' = (IF lock = r THEN NoOwner ELSE lock)
    BY DEF Stop, Crash, IndexFails, Ends, MovesTo, Unlock
<1>2. IndexerTypeOK'
    <2>1. pc' \in [Replicas -> IndexerSteps] /\ lock' \in Replicas \union {NoOwner}
        BY <1>1 DEF IndexerInv, IndexerTypeOK, IndexerSteps
    <2>2. /\ now' \in [Replicas -> Nat] /\ from' \in [Replicas -> Nat]
          /\ batches' \in [Replicas -> Seq(Entries)]
          /\ \A s \in Replicas \ {r} : batches'[s] = batches[s]
        <3>1. Forgets(r) \/ UNCHANGED <<now, from, batches>>
            BY DEF Stop, Crash, IndexFails, Ends
        <3> QED
            BY <3>1, ForgetsTypes DEF IndexerInv, IndexerTypeOK
    <2>3. /\ pc'[r] \in {"stopped", "idle"}
          /\ \A s \in Replicas \ {r} : pc'[s] = pc[s]
        BY <1>1 DEF IndexerInv, IndexerTypeOK
    <2> QED
        BY <1>1, <2>1, <2>2, <2>3 DEF IndexerInv, IndexerTypeOK
<1>3. Missing' = Missing
    BY <1>1 DEF Missing
<1> SUFFICES ASSUME calm
             PROVE  /\ \A s \in Replicas : pc'[s] # "stopped" => lock' = s /\ LeaderOK(s)'
                    /\ \A e \in Missing' : cursor' < e.time
    BY <1>1, <1>2 DEF IndexerInv
<1>4. lock = r /\ \A s \in Replicas \ {r} : pc[s] = "stopped"
    BY <1>1 DEF IndexerInv
<1>5. \A s \in Replicas \ {r} : pc'[s] = "stopped"
    BY <1>1, <1>4 DEF IndexerInv, IndexerTypeOK
<1>6. pc'[r] # "stopped" => lock' = r /\ LeaderOK(r)'
    <2>1. CASE pc' = [pc EXCEPT ![r] = "stopped"]
        BY <2>1 DEF IndexerInv, IndexerTypeOK
    <2>2. CASE pc' = [pc EXCEPT ![r] = "idle"] /\ lock' = lock
        <3>1. pc'[r] = "idle"
            BY <2>2 DEF IndexerInv, IndexerTypeOK
        <3> QED
            BY <3>1, <2>2, <1>4 DEF LeaderOK
    <2> QED
        BY <1>1, <2>1, <2>2
<1> QED
    BY <1>1, <1>3, <1>5, <1>6 DEF IndexerInv

-----------------------------------------------------------------------------
(* IndexOnce *)

\* A leader that finds the cursor starts there; without one, nothing was read.
LEMMA LoadCursorKeeps ==
    ASSUME IndexerInv, NEW r \in Replicas, LoadCursor(r)
    PROVE  IndexerInv'
<1>1. pc' = [pc EXCEPT ![r] = "query"] /\ now' = [now EXCEPT ![r] = clock]
    BY DEF LoadCursor, MovesTo
<1>2. IndexerTypeOK'
    <2>1. from' \in [Replicas -> Nat]
        <3>1. MaxOf(0, clock - Window) \in Nat
            BY LimitsAssumption DEF MaxOf, IndexerInv, IndexerTypeOK
        <3> QED
            BY <3>1 DEF LoadCursor, IndexerInv, IndexerTypeOK
    <2> QED
        BY <1>1, <2>1 DEF LoadCursor, IndexerInv, IndexerTypeOK, IndexerSteps
<1>3. Missing' = Missing /\ fetched' = fetched /\ cursor' = cursor
    BY DEF Missing, LoadCursor
<1>4. pc'[r] = "query" /\ now'[r] = clock
    BY <1>1 DEF IndexerInv, IndexerTypeOK
<1>5. ASSUME calm, calm'
      PROVE  LeaderOK(r)' /\ \A e \in Missing' : cursor' < e.time
    <2>1. \A e \in Missing : cursor < e.time
        BY <1>5 DEF IndexerInv
    <2>2. \A e \in fetched' : e.time <= now'[r]
        BY <1>3, <1>4 DEF IndexerInv, IndexerTypeOK
    <2>3. cursor <= from'[r] /\ \A e \in Missing : from'[r] < e.time
        <3>1. CASE cursor # 0 /\ from' = [from EXCEPT ![r] = cursor]
            BY <3>1, <2>1 DEF IndexerInv, IndexerTypeOK
        <3>2. CASE calm' = (calm /\ cursor = 0 /\ fetched = {})
            <4>1. cursor = 0 /\ Missing = {}
                BY <3>2, <1>5 DEF Missing
            <4> QED
                BY <4>1, <1>2 DEF IndexerTypeOK
        <3> QED
            BY <3>1, <3>2 DEF LoadCursor
    <2> QED
        BY <1>3, <1>4, <2>1, <2>2, <2>3 DEF LeaderOK
<1> QED
    <2>1. pc[r] # "stopped" /\ lock' = lock
        BY DEF LoadCursor
    <2>2. calm' = calm \/ calm' = (calm /\ cursor = 0 /\ fetched = {})
        BY DEF LoadCursor
    <2>3. \A s \in Replicas \ {r} : pc'[s] = pc[s]
        BY <1>1 DEF IndexerInv, IndexerTypeOK
    <2> QED
        BY <2>1, <2>3, <2>2, <1>2, <1>5, LeaderStep DEF IndexerInv, IndexerTypeOK

\* The entries of a query are finitely many, and their order is a sequence of them.
LEMMA OrderIsSequence ==
    ASSUME NEW S, S \subseteq Entries, NEW q \in Orders(S)
    PROVE  q \in Seq(Entries) /\ Range(q) = S /\ Sorted(q) /\ (q = <<>> => S = {})
<1>1. IsFiniteSet(S)
    BY LimitsAssumption, FS_Subset
<1>2. Cardinality(S) \in Nat
    BY <1>1, FS_CardinalityType
<1>3. q \in [1..Cardinality(S) -> Entries] /\ Range(q) = S /\ Sorted(q)
    BY DEF Orders
<1>4. q = <<>> => Range(q) = {}
    BY DEF Range
<1> QED
    BY <1>2, <1>3, <1>4

\* Every entry that is missing is in the range of the query: it is found, or the
\* limit leaves it out.
LEMMA QueryKeeps ==
    ASSUME IndexerInv, NEW r \in Replicas, Query(r)
    PROVE  IndexerInv'
<1> DEFINE range == Within(from[r], now[r])
<1>1. PICK found \in SUBSET range :
         /\ fetched' = (fetched \ range) \union found
         /\ \E q \in Orders(found) : batches' = [batches EXCEPT ![r] = q]
         /\ pc' = [pc EXCEPT ![r] = IF found = {} THEN "save now" ELSE "index"]
    BY DEF Query, MovesTo
<1>2. PICK q \in Orders(found) : batches' = [batches EXCEPT ![r] = q]
    BY <1>1
<1>3. range \subseteq visible /\ found \subseteq Entries
    BY <1>1 DEF Within, IndexerInv, IndexerTypeOK
<1>4. q \in Seq(Entries) /\ Range(q) = found /\ Sorted(q) /\ (q = <<>> => found = {})
    BY <1>2, <1>3, OrderIsSequence
<1>5. /\ pc[r] = "query" /\ from' = [from EXCEPT ![r] = 0]
      /\ UNCHANGED <<clock, visible, lock, cursor, indexed, cancelled, now, calm>>
    BY DEF Query
<1> HIDE DEF range
<1>6. IndexerTypeOK'
    BY <1>1, <1>2, <1>3, <1>4, <1>5 DEF IndexerInv, IndexerTypeOK, IndexerSteps
<1>7. ASSUME calm
      PROVE  LeaderOK(r)' /\ \A e \in Missing' : cursor' < e.time
    <2>1. lock = r /\ LeaderOK(r)
        BY <1>5, <1>7 DEF IndexerInv
    <2>2. \A e \in Missing : e \in range
        <3> SUFFICES ASSUME NEW e \in Missing PROVE e \in range
            OBVIOUS
        <3>1. from[r] < e.time /\ e.time <= now[r] /\ e \in visible
            BY <2>1, <1>5 DEF LeaderOK, Missing, IndexerInv, IndexerTypeOK
        <3> QED
            BY <3>1 DEF Within, range
    <2>3. Missing' \subseteq found
        BY <2>2, <1>1, <1>5 DEF Missing
    <2>4. \A e \in found : cursor < e.time /\ e.time <= now[r]
        <3> SUFFICES ASSUME NEW e \in found PROVE cursor < e.time /\ e.time <= now[r]
            OBVIOUS
        <3>1. from[r] < e.time /\ e.time <= now[r] /\ e.time \in Nat
            BY <1>1, <1>3, EntryTimes DEF Within, range
        <3>2. cursor <= from[r] /\ cursor \in Nat /\ from[r] \in Nat
            BY <2>1, <1>5 DEF LeaderOK, IndexerInv, IndexerTypeOK
        <3> QED
            BY <3>1, <3>2
    <2>5. \A e \in fetched' : e.time <= now[r]
        BY <2>1, <2>4, <1>1, <1>5 DEF LeaderOK
    <2>6. batches'[r] = q /\ now'[r] = now[r]
        BY <1>2, <1>5 DEF IndexerInv, IndexerTypeOK
    <2>7. pc'[r] = IF found = {} THEN "save now" ELSE "index"
        BY <1>1 DEF IndexerInv, IndexerTypeOK
    <2>8. CASE found = {}
        BY <2>3, <2>5, <2>6, <2>7, <2>8 DEF LeaderOK
    <2>9. CASE found # {}
        <3>1. pc'[r] = "index" /\ batches'[r] # <<>>
            BY <2>6, <2>7, <2>9, <1>4
        <3> QED
            BY <3>1, <2>3, <2>4, <2>5, <2>6, <1>4, <1>5 DEF LeaderOK
    <2> QED
        BY <2>8, <2>9
<1>8. \A s \in Replicas \ {r} : pc'[s] = pc[s]
    BY <1>1 DEF IndexerInv, IndexerTypeOK
<1> QED
    BY <1>5, <1>6, <1>7, <1>8, LeaderStep

\* What a batch is: the entries up to its end, none of them after the later ones.
LEMMA BatchEnds ==
    ASSUME IndexerTypeOK, NEW r \in Replicas, batches[r] # <<>>
    PROVE  /\ BatchEnd(r) \in 1..Len(batches[r])
           /\ BatchEnd(r) = MinOf(BatchSize, Len(batches[r]))
           /\ Batch(r) \subseteq Entries
<1>1. batches[r] \in Seq(Entries) /\ Len(batches[r]) \in Nat \ {0}
    BY DEF IndexerTypeOK
<1>2. BatchEnd(r) \in 1..Len(batches[r])
    BY <1>1, LimitsAssumption DEF BatchEnd, MinOf
<1> QED
    BY <1>1, <1>2 DEF BatchEnd, Batch

\* indexBatch: what is missing is among the entries after the batch.
LEMMA IndexBatchKeeps ==
    ASSUME IndexerInv, NEW r \in Replicas, IndexBatch(r)
    PROVE  IndexerInv'
<1>1. /\ pc[r] = "index" /\ pc' = [pc EXCEPT ![r] = "save"]
      /\ indexed' = indexed \union Batch(r)
      /\ UNCHANGED <<clock, visible, lock, cursor, cancelled, now, from, batches, fetched, calm>>
    BY DEF IndexBatch, MovesTo
<1>2. IndexerTypeOK'
    BY <1>1 DEF IndexerInv, IndexerTypeOK, IndexerSteps
<1>3. Missing' \subseteq Missing
    BY <1>1 DEF Missing
<1>4. pc'[r] = "save" /\ \A s \in Replicas \ {r} : pc'[s] = pc[s]
    BY <1>1 DEF IndexerInv, IndexerTypeOK
<1>5. ASSUME calm
      PROVE  LeaderOK(r)' /\ \A e \in Missing' : cursor' < e.time
    <2>1. LeaderOK(r) /\ \A e \in Missing : cursor < e.time
        BY <1>1, <1>5 DEF IndexerInv
    <2>2. Batch(r)' = Batch(r)
        BY <1>1 DEF Batch, BatchEnd
    <2> QED
        BY <2>1, <2>2, <1>1, <1>3, <1>4 DEF LeaderOK
<1> QED
    BY <1>1, <1>2, <1>4, <1>5, LeaderStep

\* The cursor moves to the end of the batch.  What is missing is later in the
\* order and has a time of its own, so that the cursor stays before it.
LEMMA SaveCursorKeeps ==
    ASSUME IndexerInv, NEW r \in Replicas, SaveCursor(r)
    PROVE  IndexerInv'
<1> DEFINE q == batches[r]
           last == BatchEnd(r)
<1>1. /\ pc[r] = "save" /\ cursor' = q[last].time
      /\ UNCHANGED <<clock, visible, lock, indexed, cancelled, fetched, calm>>
    BY DEF SaveCursor
<1>2. \/ /\ Len(q) > BatchSize
         /\ batches' = [batches EXCEPT ![r] = SubSeq(q, BatchSize + 1, Len(q))]
         /\ pc' = [pc EXCEPT ![r] = "index"] /\ UNCHANGED <<now, from>>
      \/ /\ Len(q) <= BatchSize /\ Forgets(r) /\ pc' = [pc EXCEPT ![r] = "idle"]
    BY DEF SaveCursor, Ends, MovesTo
<1>3. q \in Seq(Entries) /\ Len(q) \in Nat
    BY DEF IndexerInv, IndexerTypeOK
<1>4. Missing' = Missing
    BY <1>1 DEF Missing
<1>5. \A s \in Replicas \ {r} : pc'[s] = pc[s]
    BY <1>2 DEF IndexerInv, IndexerTypeOK
<1>6. ASSUME calm
      PROVE  /\ Sorted(q) /\ Missing \subseteq Range(q) /\ Batch(r) \subseteq indexed
             /\ \A e \in fetched : e.time <= now[r]
    BY <1>1, <1>6 DEF IndexerInv, LeaderOK
<1>7. q # <<>> /\ last \in 1..Len(q) /\ Batch(r) \subseteq Entries
    BY <1>1, BatchEnds DEF IndexerInv, IndexerTypeOK
<1>8. q[last] \in Batch(r) /\ q[last] \in Entries
    BY <1>7 DEF Batch
<1>9. \A i \in 1..Len(q) : q[i] \in Entries
    BY <1>3
<1>10. ASSUME calm, NEW e \in Missing
       PROVE  \E i \in (last + 1)..Len(q) : q[i] = e
    <2>1. PICK i \in 1..Len(q) : q[i] = e
        BY <1>3, <1>6, <1>10 DEF Range
    <2>2. e \notin Batch(r)
        BY <1>6, <1>10 DEF Missing
    <2>3. i \notin 1..last
        BY <2>1, <2>2 DEF Batch
    <2> QED
        BY <2>1, <2>3, <1>3, <1>7
<1>11. ASSUME calm
       PROVE  \A e \in Missing : cursor' < e.time
    <2> SUFFICES ASSUME NEW e \in Missing PROVE cursor' < e.time
        OBVIOUS
    <2>1. PICK i \in (last + 1)..Len(q) : q[i] = e
        BY <1>10, <1>11
    <2>2. last \in DOMAIN q /\ i \in DOMAIN q /\ last < i
        BY <2>1, <1>3, <1>7
    <2>3. q[last].time <= e.time
        BY <2>1, <2>2, <1>6, <1>11 DEF Sorted
    <2>4. q[last] # e
        BY <1>6, <1>8, <1>11 DEF Missing
    <2>5. q[last].time # e.time
        BY <2>4, <1>8 DEF Missing
    <2>6. q[last].time \in Nat /\ e.time \in Nat
        BY <1>8, EntryTimes DEF Missing, IndexerInv, IndexerTypeOK
    <2> QED
        BY <2>3, <2>5, <2>6, <1>1
<1>12. cursor' \in Nat
    BY <1>1, <1>8, EntryTimes
<1>13. CASE /\ Len(q) > BatchSize
            /\ batches' = [batches EXCEPT ![r] = SubSeq(q, BatchSize + 1, Len(q))]
            /\ pc' = [pc EXCEPT ![r] = "index"] /\ UNCHANGED <<now, from>>
    <2> DEFINE rest == SubSeq(q, BatchSize + 1, Len(q))
    <2>1. last = BatchSize /\ BatchSize \in Nat \ {0}
        BY <1>3, <1>13, LimitsAssumption DEF BatchEnd, MinOf
    <2>2. /\ rest \in Seq(Entries) /\ Len(rest) = Len(q) - BatchSize
          /\ \A i \in 1..Len(rest) : rest[i] = q[i + BatchSize]
        BY <2>1, <1>3, <1>9, <1>13
    <2>3. batches'[r] = rest /\ pc'[r] = "index"
        BY <1>13 DEF IndexerInv, IndexerTypeOK
    <2> HIDE DEF rest
    <2>4. rest # <<>>
        <3>1. Len(rest) # 0
            BY <2>1, <2>2, <1>3, <1>13
        <3> QED
            BY <3>1
    <2>5. IndexerTypeOK'
        BY <2>2, <2>4, <2>3, <1>1, <1>5, <1>12, <1>13 DEF IndexerInv, IndexerTypeOK, IndexerSteps
    <2>6. ASSUME calm PROVE Sorted(rest) /\ Missing \subseteq Range(rest)
        <3>1. Sorted(rest)
            <4> SUFFICES ASSUME NEW i \in 1..Len(rest), NEW j \in 1..Len(rest), i < j
                         PROVE  rest[i].time <= rest[j].time
                BY <2>2 DEF Sorted
            <4>1. i + BatchSize \in DOMAIN q /\ j + BatchSize \in DOMAIN q
                BY <2>1, <2>2, <1>3
            <4>2. i + BatchSize < j + BatchSize
                BY <2>1
            <4>3. Sorted(q)
                BY <2>6, <1>6
            <4>4. q[i + BatchSize].time <= q[j + BatchSize].time
                BY <4>1, <4>2, <4>3 DEF Sorted
            <4> QED
                BY <4>4, <2>2
        <3>2. ASSUME NEW e \in Missing PROVE e \in Range(rest)
            <4>1. PICK i \in (BatchSize + 1)..Len(q) : q[i] = e
                BY <3>2, <2>1, <2>6, <1>10
            <4>2. i - BatchSize \in 1..Len(rest) /\ rest[i - BatchSize] = e
                BY <4>1, <2>1, <2>2, <1>3
            <4> QED
                BY <4>2, <2>2 DEF Range
        <3> QED
            BY <3>1, <3>2
    <2>7. ASSUME calm PROVE LeaderOK(r)'
        BY <2>3, <2>6, <2>7, <1>1, <1>4, <1>6, <1>13 DEF LeaderOK
    <2> QED
        BY <2>3, <2>5, <2>7, <1>1, <1>4, <1>5, <1>11, LeaderStep
<1>14. CASE Len(q) <= BatchSize /\ Forgets(r) /\ pc' = [pc EXCEPT ![r] = "idle"]
    <2>1. pc'[r] = "idle"
        BY <1>14 DEF IndexerInv, IndexerTypeOK
    <2>2. IndexerTypeOK'
        BY <2>1, <1>1, <1>5, <1>12, <1>14, ForgetsTypes DEF IndexerInv, IndexerTypeOK, IndexerSteps
    <2>3. ASSUME calm PROVE LeaderOK(r)'
        <3>1. Missing = {}
            <4>1. last = Len(q)
                BY <1>3, <1>14, LimitsAssumption DEF BatchEnd, MinOf
            <4>2. (last + 1)..Len(q) = {}
                BY <4>1, <1>3
            <4> QED
                BY <4>2, <1>10, <2>3
        <3> QED
            BY <2>1, <3>1 DEF LeaderOK
    <2> QED
        BY <2>1, <2>2, <2>3, <1>1, <1>4, <1>5, <1>11, LeaderStep
<1> QED
    BY <1>2, <1>13, <1>14

\* Nothing was found, and nothing is missing.
LEMMA SaveNowKeeps ==
    ASSUME IndexerInv, NEW r \in Replicas, SaveNow(r)
    PROVE  IndexerInv'
<1>1. /\ pc[r] = "save now" /\ cursor' = now[r] /\ pc' = [pc EXCEPT ![r] = "idle"] /\ Forgets(r)
      /\ UNCHANGED <<clock, visible, lock, indexed, cancelled, fetched, calm>>
    BY DEF SaveNow, Ends, MovesTo
<1>2. pc'[r] = "idle" /\ \A s \in Replicas \ {r} : pc'[s] = pc[s]
    BY <1>1 DEF IndexerInv, IndexerTypeOK
<1>3. IndexerTypeOK'
    BY <1>1, <1>2, ForgetsTypes DEF IndexerInv, IndexerTypeOK, IndexerSteps
<1>4. ASSUME calm
      PROVE  LeaderOK(r)' /\ \A e \in Missing' : cursor' < e.time
    <2>1. Missing' = Missing /\ Missing = {}
        BY <1>1, <1>4 DEF IndexerInv, LeaderOK, Missing
    <2> QED
        BY <2>1, <1>2 DEF LeaderOK
<1> QED
    BY <1>1, <1>3, <1>2, <1>4, LeaderStep

LEMMA IndexerNextKeeps ==
    IndexerInv /\ [IndexerNext]_indexerVars => IndexerInv'
<1> SUFFICES ASSUME IndexerInv, [IndexerNext]_indexerVars PROVE IndexerInv'
    OBVIOUS
<1>1. CASE Tick \/ \E e \in Entries : Ingest(e)
    <2>1. IndexerTypeOK'
        <3>1. CASE Tick
            <4>1. \A e \in visible' : e.time <= clock'
                BY <3>1, EntryTimes DEF Tick, IndexerInv, IndexerTypeOK
            <4> QED
                BY <3>1, <4>1 DEF Tick, IndexerInv, IndexerTypeOK
        <3>2. ASSUME NEW e \in Entries, Ingest(e) PROVE IndexerTypeOK'
            BY <3>2 DEF Ingest, IndexerInv, IndexerTypeOK
        <3> QED
            BY <1>1, <3>1, <3>2
    <2> QED
        BY <2>1, <1>1, IdleStep DEF Tick, Ingest
<1>2. CASE Expire
    BY <1>2, ExpireKeeps
<1>3. ASSUME NEW r \in Replicas, Lock(r) \/ RefreshLock(r) \/ Stop(r) \/ Crash(r) \/ Work(r)
      PROVE  IndexerInv'
    <2>1. CASE RefreshLock(r)
        <3>1. IndexerTypeOK'
            BY <2>1 DEF RefreshLock, IndexerInv, IndexerTypeOK
        <3> QED
            BY <3>1, <2>1, IdleStep DEF RefreshLock
    <2> QED
        BY <2>1, <1>3, LockKeeps, LeaveKeeps, LoadCursorKeeps, QueryKeeps, IndexBatchKeeps,
           SaveCursorKeeps, SaveNowKeeps DEF Work
<1>4. CASE UNCHANGED indexerVars
    <2>1. IndexerTypeOK'
        BY <1>4 DEF indexerVars, IndexerInv, IndexerTypeOK
    <2> QED
        BY <2>1, <1>4, IdleStep DEF indexerVars
<1> QED
    BY <1>1, <1>2, <1>3, <1>4 DEF IndexerNext

\* Whatever fails or crashes between a batch and the write of the cursor, the
\* cursor stays before every entry that was read and not indexed (IndexOnce in
\* log_indexer.go), while one leader works at a time.
THEOREM CursorFollows == IndexerSpec => []CursorFollowsIndex
<1>1. IndexerInit => IndexerInv
    BY DEF IndexerInit, IndexerInv, IndexerTypeOK, IndexerSteps, Missing
<1>2. IndexerInv => CursorFollowsIndex
    BY DEF IndexerInv, CursorFollowsIndex, Missing
<1> QED
    BY <1>1, <1>2, IndexerNextKeeps, PTL DEF IndexerSpec

-----------------------------------------------------------------------------
(* The chat model *)

\* What the handlers rely on: the functions of the workflows are defined on all
\* of them, and a client in a context was active or pinned when it was taken.
ModelInv ==
    /\ client \in [Workflows -> Serving \union {NoClient}]
    /\ used \in [Workflows -> SUBSET (Serving \union {NoClient})]
    /\ ServedModelIsProbed

\* The probe decides (refresh): only a candidate that serves becomes active.
LEMMA ActivateKeeps ==
    ASSUME ModelInv, Activate
    PROVE  ModelInv'
BY ConfigsAssumption DEF Activate, workflowVars, ModelInv, ServedModelIsProbed

\* A workflow is given the active client, the one of its context, or a pinned one.
LEMMA WorkflowKeeps ==
    ASSUME ModelInv, NEW w \in Workflows, Workflow(w)
    PROVE  ModelInv'
<1>1. active' = active /\ pinned' = pinned
    BY DEF Workflow, WithSnapshot, SnapshotIdentity, Await, ResumeWorkflow, hotVars
<1>2. CASE WithSnapshot(w)
    BY <1>1, <1>2 DEF WithSnapshot, ModelInv, ServedModelIsProbed
<1>3. CASE SnapshotIdentity(w)
    <2>1. client[w] \in Serving \union {NoClient}
        BY DEF ModelInv
    <2> QED
        BY <2>1, <1>1, <1>3 DEF SnapshotIdentity, ModelInv, ServedModelIsProbed
<1>4. CASE Await(w)
    BY <1>1, <1>4 DEF Await, ModelInv, ServedModelIsProbed
<1>5. CASE ResumeWorkflow(w)
    <2>1. CASE recorded[w] \in pinned
        <3>1. recorded[w] \in Serving \union {NoClient}
            BY <2>1 DEF ModelInv, ServedModelIsProbed
        <3> QED
            BY <2>1, <3>1, <1>1, <1>5 DEF ResumeWorkflow, ModelInv, ServedModelIsProbed
    <2>2. CASE recorded[w] \notin pinned
        BY <2>2, <1>1, <1>5 DEF ResumeWorkflow, ModelInv, ServedModelIsProbed
    <2> QED
        BY <2>1, <2>2
<1> QED
    BY <1>2, <1>3, <1>4, <1>5 DEF Workflow

\* A restart forgets every client.
LEMMA RestartServerKeeps ==
    ASSUME ModelInv, RestartServer
    PROVE  ModelInv'
BY DEF RestartServer, Fresh, ModelInv, ServedModelIsProbed

\* Whatever is edited while a probe is out, the client in use answered the probe,
\* and so did every client a workflow was given (refresh, WithSnapshot,
\* SnapshotIdentity, WithSnapshotHash in hot_client.go).
THEOREM ServedModelIsProbedHolds == ModelSpec => []ServedModelIsProbed
<1>1. ModelInit => ModelInv
    BY DEF ModelInit, ModelInv, ServedModelIsProbed
<1>2. ModelInv /\ [ModelNext]_modelVars => ModelInv'
    <2> SUFFICES ASSUME ModelInv, [ModelNext]_modelVars PROVE ModelInv'
        OBVIOUS
    <2>1. CASE Activate
        BY <2>1, ActivateKeeps
    <2>2. ASSUME NEW w \in Workflows, Workflow(w) PROVE ModelInv'
        BY <2>2, WorkflowKeeps
    <2>3. CASE RestartServer
        BY <2>3, RestartServerKeeps
    <2>4. CASE Edit \/ Elapse \/ ProbeFails \/ \E forced \in BOOLEAN : RefreshModel(forced)
        BY <2>4 DEF Edit, Elapse, ProbeFails, RefreshModel, LoadFails, Unchanged, Attempt, hotVars,
           workflowVars, ModelInv, ServedModelIsProbed
    <2>5. CASE UNCHANGED modelVars
        BY <2>5 DEF modelVars, hotVars, workflowVars, ModelInv, ServedModelIsProbed
    <2> QED
        BY <2>1, <2>2, <2>3, <2>4, <2>5 DEF ModelNext, Probe
<1>3. ModelInv => ServedModelIsProbed
    BY DEF ModelInv
<1> QED
    BY <1>1, <1>2, <1>3, PTL DEF ModelSpec
=============================================================================
