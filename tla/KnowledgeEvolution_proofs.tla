--------------------- MODULE KnowledgeEvolution_proofs ---------------------
(***************************************************************************)
(* Proofs about KnowledgeEvolution, for any incidents, facts, servers and  *)
(* any number of operators' calls and faults: what may be learned from, in *)
(* which order it is stored, what the revisions keep and what activates a  *)
(* pattern.  Of what the miner computes, the proofs use the incidents that *)
(* a candidate names and the gates of SupportedWell.                       *)
(***************************************************************************)
EXTENDS KnowledgeEvolution, SequenceTheorems, TLAPS

\* Max of two versions.
LEMMA LargestOfTwo ==
    ASSUME NEW a \in Nat, NEW b \in Nat
    PROVE  Max({a, b}) \in {a, b} /\ Max({a, b}) >= a /\ Max({a, b}) >= b
BY DEF Max

\* The tables start without a row.
LEMMA EmptyTable == DOMAIN <<>> = {}
OBVIOUS

\* A row is a record of five fields.
IsRecord(row) ==
    row = [status |-> row.status, version |-> row.version, incidents |-> row.incidents,
           total |-> row.total, count |-> row.count]

\* A record with one field set keeps the others.
LEMMA RecordUpdates ==
    ASSUME NEW row, IsRecord(row), NEW x
    PROVE  /\ LET new == [row EXCEPT !.status = x]
              IN  /\ IsRecord(new) /\ new.status = x
                  /\ new.version = row.version /\ new.incidents = row.incidents
           /\ LET new == [row EXCEPT !.version = x]
              IN  /\ IsRecord(new) /\ new.status = row.status
                  /\ new.version = x /\ new.incidents = row.incidents
           /\ LET new == [row EXCEPT !.incidents = x]
              IN  /\ IsRecord(new) /\ new.status = row.status
                  /\ new.version = row.version /\ new.incidents = x
           /\ LET new == [row EXCEPT !.total = x]
              IN  /\ IsRecord(new) /\ new.status = row.status
                  /\ new.version = row.version /\ new.incidents = row.incidents
           /\ LET new == [row EXCEPT !.count = x]
              IN  /\ IsRecord(new) /\ new.status = row.status
                  /\ new.version = row.version /\ new.incidents = row.incidents
<1> DEFINE s == row.status  v == row.version  is == row.incidents  t == row.total
           c == row.count
<1>1. row = [status |-> s, version |-> v, incidents |-> is, total |-> t, count |-> c]
  BY DEF IsRecord
<1> HIDE DEF s, v, is, t, c
<1>2. /\ [row EXCEPT !.status = x] =
            [status |-> x, version |-> v, incidents |-> is, total |-> t, count |-> c]
      /\ [row EXCEPT !.version = x] =
            [status |-> s, version |-> x, incidents |-> is, total |-> t, count |-> c]
      /\ [row EXCEPT !.incidents = x] =
            [status |-> s, version |-> v, incidents |-> x, total |-> t, count |-> c]
      /\ [row EXCEPT !.total = x] =
            [status |-> s, version |-> v, incidents |-> is, total |-> x, count |-> c]
      /\ [row EXCEPT !.count = x] =
            [status |-> s, version |-> v, incidents |-> is, total |-> t, count |-> x]
  BY <1>1
<1> QED
  BY <1>1, <1>2 DEF IsRecord

WithStatus(row, status, version) == [row EXCEPT !.status = status, !.version = version]

\* The two fields SetCausalPatternStatus sets.
LEMMA RecordRevised ==
    ASSUME NEW row, IsRecord(row), NEW x, NEW y
    PROVE  LET new == WithStatus(row, x, y)
           IN  /\ IsRecord(new) /\ new.status = x
               /\ new.version = y /\ new.incidents = row.incidents
<1> DEFINE s == row.status  v == row.version  is == row.incidents  t == row.total
           c == row.count
<1>1. row = [status |-> s, version |-> v, incidents |-> is, total |-> t, count |-> c]
  BY DEF IsRecord
<1> HIDE DEF s, v, is, t, c
<1>2. [row EXCEPT !.status = x] =
            [status |-> x, version |-> v, incidents |-> is, total |-> t, count |-> c]
  BY <1>1
<1>3. [[status |-> x, version |-> v, incidents |-> is, total |-> t, count |-> c]
         EXCEPT !.version = y] =
            [status |-> x, version |-> y, incidents |-> is, total |-> t, count |-> c]
  OBVIOUS
<1>4. WithStatus(row, x, y) =
            [status |-> x, version |-> y, incidents |-> is, total |-> t, count |-> c]
  BY <1>2, <1>3, Zenon DEF WithStatus
<1> QED
  BY <1>1, <1>4 DEF IsRecord

\* A row is a record of its five fields, of which three have a type.
LEMMA RowIsRecord ==
    \A row, known : IsRow(row, known) <=> /\ IsRecord(row) /\ row.status \in Statuses
                            /\ row.version \in Nat \ {0} /\ row.incidents \subseteq known
BY DEF IsRow, IsRecord

\* An operator sets the status and the version.
LEMMA StatusSet ==
    ASSUME NEW known, NEW row, IsRow(row, known), NEW s \in Statuses, NEW v \in Nat \ {0}
    PROVE  LET new == WithStatus(row, s, v)
           IN  IsRow(new, known) /\ new.version = v /\ new.incidents = row.incidents
BY RecordRevised, RowIsRecord

\* A rollback or the seed sets the version alone.
LEMMA VersionSet ==
    ASSUME NEW known, NEW row, IsRow(row, known), NEW v \in Nat \ {0}
    PROVE  LET new == [row EXCEPT !.version = v]
           IN  IsRow(new, known) /\ new.version = v /\ new.incidents = row.incidents
BY RecordUpdates, RowIsRecord

\* An event sets the count.
LEMMA CountSet ==
    ASSUME NEW known, NEW row, IsRow(row, known), NEW c
    PROVE  LET new == [row EXCEPT !.count = c]
           IN  /\ IsRow(new, known) /\ new.version = row.version
               /\ new.incidents = row.incidents /\ new.status = row.status
BY RecordUpdates, RowIsRecord

\* The row Merge makes of a stored one and an observation.
LEMMA MergeMakes ==
    ASSUME NEW known, NEW left, IsRow(left, known), NEW right, IsRow(right, known),
           right.version = 1
    PROVE  LET new == MergeRows(left, right)
           IN  /\ IsRow(new, known) /\ new.version = left.version + 1
               /\ new.incidents = left.incidents \union right.incidents
               /\ new.status = "active" => Cardinality(new.incidents) >= 3
<1> DEFINE both == left.incidents \union right.incidents
           count == Cardinality(left.incidents \union right.incidents)
           total == left.total + (right.total \div Cardinality(right.incidents))
                                    * Cardinality(right.incidents \ left.incidents)
           version == Max({left.version, right.version}) + 1
           joined == [left EXCEPT !.incidents = both]
           weighed == [joined EXCEPT !.total = total]
           counted == [weighed EXCEPT !.count = count]
           merged == [counted EXCEPT !.version = version]
           status == IF EligibleForActivation(merged) THEN "active"
                     ELSE IF merged.status = "disabled" THEN merged.status ELSE "validating"
<1>1. /\ IsRecord(left) /\ left.status \in Statuses /\ left.version \in Nat \ {0}
      /\ both \subseteq known
  BY RowIsRecord
<1>2. version = left.version + 1
  BY <1>1, LargestOfTwo
<1>3. MergeRows(left, right) = [merged EXCEPT !.status = status]
  BY DEF MergeRows
<1>4. status \in Statuses
  BY DEF Statuses
<1>5. status = "active" => EligibleForActivation(merged)
  OBVIOUS
<1> HIDE DEF both, count, total, version, status
<1>6. IsRecord(joined) /\ joined.incidents = both
  BY <1>1, RecordUpdates
<1> HIDE DEF joined
<1>7. IsRecord(weighed) /\ weighed.incidents = both
  BY <1>6, RecordUpdates
<1> HIDE DEF weighed
<1>8. IsRecord(counted) /\ counted.incidents = both
  BY <1>7, RecordUpdates
<1> HIDE DEF counted
<1>9. IsRecord(merged) /\ merged.incidents = both /\ merged.version = version
  BY <1>8, RecordUpdates
<1> HIDE DEF merged
<1>10. LET new == [merged EXCEPT !.status = status]
       IN  /\ IsRecord(new) /\ new.status = status /\ new.incidents = both
           /\ new.version = version
  BY <1>9, RecordUpdates
<1>11. EligibleForActivation(merged) => Cardinality(both) >= 3
  BY <1>9 DEF EligibleForActivation
<1>12. version \in Nat \ {0}
  BY <1>1, <1>2
<1> QED
  BY <1>1, <1>2, <1>3, <1>4, <1>5, <1>10, <1>11, <1>12, RowIsRecord DEF both
-----------------------------------------------------------------------------
(* The store of causal patterns *)

\* What a later state of the store keeps of an earlier one.
RevisionsGrow ==
    \A p \in DOMAIN patterns :
        /\ p \in DOMAIN patterns' /\ p \in DOMAIN revisions'
        /\ patterns'[p].version >= patterns[p].version
        /\ \A v \in DOMAIN revisions[p] :
              v \in DOMAIN revisions'[p] /\ revisions'[p][v] = revisions[p][v]

\* A row stays one when more may be learned from.
LEMMA RowStays ==
    ASSUME NEW known, NEW more, known \subseteq more, NEW row, IsRow(row, known)
    PROVE  IsRow(row, more)
BY DEF IsRow

\* A row is written with the version after the stored one, and as the revision
\* of that version.
LEMMA WriteKeeps ==
    ASSUME PatternInv, NEW p, NEW row, IsRow(row, Learnable),
           row.version = IF p \in DOMAIN patterns THEN patterns[p].version + 1 ELSE 1,
           DOMAIN patterns' = DOMAIN patterns \union {p}, patterns'[p] = row,
           \A q \in DOMAIN patterns : q # p => patterns'[q] = patterns[q],
           DOMAIN revisions' = DOMAIN revisions \union {p},
           \A q \in DOMAIN revisions : q # p => revisions'[q] = revisions[q],
           DOMAIN (revisions'[p]) = {row.version} \union
                (IF p \in DOMAIN revisions THEN DOMAIN revisions[p] ELSE {}),
           revisions'[p][row.version] = row,
           p \in DOMAIN revisions =>
              \A v \in DOMAIN revisions[p] :
                 v # row.version => revisions'[p][v] = revisions[p][v],
           Learnable \subseteq Learnable'
    PROVE  PatternInv' /\ RevisionsGrow
<1>1. DOMAIN revisions' = DOMAIN patterns'
  BY DEF PatternInv
<1>2. ASSUME NEW q \in DOMAIN patterns', q # p
      PROVE  /\ q \in DOMAIN patterns
             /\ patterns'[q] = patterns[q] /\ revisions'[q] = revisions[q]
             /\ IsRow(patterns'[q], Learnable')
             /\ {1, patterns'[q].version} \subseteq DOMAIN (revisions'[q])
             /\ \A v \in DOMAIN (revisions'[q]) :
                   v \in 1..patterns'[q].version /\ IsRow(revisions'[q][v], Learnable')
  BY <1>2, RowStays DEF PatternInv
<1>3. CASE p \notin DOMAIN patterns
  <2>1. DOMAIN (revisions'[p]) = {1} /\ row.version = 1 /\ IsRow(row, Learnable')
    BY <1>3, RowStays DEF PatternInv
  <2>2. PatternInv'
    BY <1>1, <1>2, <2>1 DEF PatternInv
  <2>3. RevisionsGrow
    <3> SUFFICES ASSUME NEW q \in DOMAIN patterns
                 PROVE  /\ patterns'[q] = patterns[q] /\ revisions'[q] = revisions[q]
                        /\ q \in DOMAIN patterns' /\ q \in DOMAIN revisions'
                        /\ patterns[q].version \in Nat
      BY DEF RevisionsGrow
    <3> QED
      BY <1>2, <1>3 DEF PatternInv, IsRow
  <2> QED
    BY <2>2, <2>3
<1>4. CASE p \in DOMAIN patterns
  <2> DEFINE n == patterns[p].version
  <2>1. /\ n \in Nat \ {0} /\ row.version = n + 1
        /\ IsRow(row, Learnable')
        /\ {1, n} \subseteq DOMAIN revisions[p]
        /\ DOMAIN (revisions'[p]) = {n + 1} \union DOMAIN revisions[p]
        /\ \A v \in DOMAIN revisions[p] :
              v \in 1..n /\ IsRow(revisions[p][v], Learnable')
    BY <1>4, RowStays DEF PatternInv, IsRow
  <2> HIDE DEF n
  <2>2. \A v \in DOMAIN revisions[p] : v # n + 1 /\ v \in 1..(n + 1)
    BY <2>1
  <2>3. \A v \in DOMAIN revisions[p] : revisions'[p][v] = revisions[p][v]
    BY <1>4, <2>1, <2>2 DEF PatternInv
  <2>4. \A v \in DOMAIN (revisions'[p]) :
            v \in 1..(n + 1) /\ IsRow(revisions'[p][v], Learnable')
    BY <2>1, <2>2, <2>3
  <2>5. PatternInv'
    <3>1. 1 \in DOMAIN (revisions'[p]) /\ n + 1 \in DOMAIN (revisions'[p])
      BY <2>1
    <3> QED
      BY <1>1, <1>2, <2>1, <2>4, <3>1 DEF PatternInv
  <2>6. RevisionsGrow
    <3>1. ASSUME NEW q \in DOMAIN patterns, q # p
          PROVE  /\ patterns'[q] = patterns[q] /\ revisions'[q] = revisions[q]
                 /\ q \in DOMAIN patterns' /\ q \in DOMAIN revisions'
                 /\ patterns'[q].version >= patterns[q].version
      BY <1>1, <1>2, <3>1 DEF PatternInv, IsRow
    <3>2. patterns'[p].version >= patterns[p].version
      BY <2>1 DEF n
    <3> QED
      BY <1>1, <1>4, <2>1, <2>3, <3>1, <3>2 DEF RevisionsGrow
  <2> QED
    BY <2>5, <2>6
<1> QED
  BY <1>3, <1>4

\* A merge of an observation in the store.
LEMMA MergeKeeps ==
    ASSUME PatternInv, NEW p, NEW row, IsRow(row, Learnable), row.version = 1,
           MergePattern(p, row), Learnable \subseteq Learnable'
    PROVE  /\ PatternInv' /\ RevisionsGrow
           /\ p \in DOMAIN revisions'
           /\ \E v \in DOMAIN (revisions'[p]) : row.incidents \subseteq revisions'[p][v].incidents
           /\ DOMAIN patterns' = DOMAIN patterns \union {p}
           /\ \A q \in DOMAIN patterns : q # p => patterns'[q] = patterns[q]
           /\ patterns'[p].status = "active" =>
                 patterns'[p] = row \/ Cardinality(patterns'[p].incidents) >= 3
           /\ patterns'[p].incidents \subseteq Learnable
<1> DEFINE merged == MergedRow(p, row)
           stored == IF p \in DOMAIN revisions THEN revisions[p] ELSE <<>>
<1>1. /\ IsRow(merged, Learnable)
      /\ merged.version = IF p \in DOMAIN patterns THEN patterns[p].version + 1 ELSE 1
      /\ row.incidents \subseteq merged.incidents
      /\ merged.status = "active" =>
            merged = row \/ Cardinality(merged.incidents) >= 3
  <2>1. CASE p \in DOMAIN patterns
    <3>1. IsRow(patterns[p], Learnable)
      BY <2>1 DEF PatternInv
    <3> QED
      BY <2>1, <3>1, MergeMakes DEF MergedRow
  <2>2. CASE p \notin DOMAIN patterns
    BY <2>2 DEF MergedRow
  <2> QED
    BY <2>1, <2>2
<1>2. /\ patterns' = Put(patterns, p, merged)
      /\ revisions' = Put(revisions, p, Put(stored, merged.version, merged))
  BY DEF MergePattern
<1>3. DOMAIN stored = IF p \in DOMAIN revisions THEN DOMAIN revisions[p] ELSE {}
  BY EmptyTable
<1>4. p \in DOMAIN revisions => stored = revisions[p]
  OBVIOUS
<1> HIDE DEF merged, stored
<1>5. /\ DOMAIN patterns' = DOMAIN patterns \union {p} /\ patterns'[p] = merged
      /\ \A q \in DOMAIN patterns : q # p => patterns'[q] = patterns[q]
  BY <1>2 DEF Put
<1>6. /\ DOMAIN revisions' = DOMAIN revisions \union {p}
      /\ revisions'[p] = Put(stored, merged.version, merged)
      /\ \A q \in DOMAIN revisions : q # p => revisions'[q] = revisions[q]
  BY <1>2 DEF Put
<1>7. /\ DOMAIN (revisions'[p]) = DOMAIN stored \union {merged.version}
      /\ revisions'[p][merged.version] = merged
      /\ \A v \in DOMAIN stored : v # merged.version => revisions'[p][v] = stored[v]
  BY <1>6 DEF Put
<1>8. PatternInv' /\ RevisionsGrow
  BY <1>1, <1>3, <1>4, <1>5, <1>6, <1>7, WriteKeeps
<1> QED
  BY <1>1, <1>5, <1>6, <1>7, <1>8, RowIsRecord

\* Seeding the pattern file again: rows are overwritten, revisions are not.
LEMMA SeedKeeps ==
    ASSUME PatternInv, SeedCausalPatterns, Learnable' = Learnable
    PROVE  /\ PatternInv' /\ RevisionsGrow
           /\ DOMAIN patterns' = DOMAIN patterns \union seeds
           /\ \A q \in DOMAIN patterns : q \notin seeds => patterns'[q] = patterns[q]
<1>1. ASSUME NEW p PROVE IsRow(Seeded(p), Learnable) /\ Seeded(p).version = 1
  BY DEF Seeded, IsRow, Statuses
<1>2. ASSUME NEW p \in DOMAIN patterns
      PROVE  IsRow(SeedRow(p), Learnable) /\ SeedRow(p).version = patterns[p].version
  <2>1. patterns[p].version \in Nat \ {0}
    BY DEF PatternInv, IsRow
  <2>2. Max({1, patterns[p].version}) = patterns[p].version
    BY <2>1, LargestOfTwo
  <2>3. SeedRow(p) = [Seeded(p) EXCEPT !.version = patterns[p].version]
    BY <2>2 DEF SeedRow
  <2>4. \A row : IsRow(row, Learnable) =>
            LET new == [row EXCEPT !.version = patterns[p].version]
            IN  IsRow(new, Learnable) /\ new.version = patterns[p].version
    BY <2>1, VersionSet
  <2> QED
    BY <1>1, <2>3, <2>4
<1>3. ASSUME NEW p \in DOMAIN patterns
      PROVE  IF p \in seeds THEN revisions'[p] = revisions[p] /\ patterns'[p] = SeedRow(p)
             ELSE revisions'[p] = revisions[p] /\ patterns'[p] = patterns[p]
  BY DEF SeedCausalPatterns, SeedRevisions, PatternInv
<1>4. ASSUME NEW p \in seeds, p \notin DOMAIN patterns
      PROVE  /\ patterns'[p] = Seeded(p)
             /\ DOMAIN (revisions'[p]) = {1} /\ revisions'[p][1] = Seeded(p)
  BY <1>4 DEF SeedCausalPatterns, SeedRevisions, SeedRow, PatternInv
<1>5. /\ DOMAIN patterns' = DOMAIN patterns \union seeds
      /\ DOMAIN revisions' = DOMAIN patterns \union seeds
  BY DEF SeedCausalPatterns
<1>6. ASSUME NEW p \in DOMAIN patterns'
      PROVE  /\ IsRow(patterns'[p], Learnable')
             /\ {1, patterns'[p].version} \subseteq DOMAIN (revisions'[p])
             /\ \A v \in DOMAIN (revisions'[p]) :
                   v \in 1..patterns'[p].version /\ IsRow(revisions'[p][v], Learnable')
  <2>1. CASE p \in DOMAIN patterns
    BY <1>2, <1>3, <2>1 DEF PatternInv
  <2>2. CASE p \notin DOMAIN patterns
    BY <1>1, <1>4, <1>5, <2>2
  <2> QED
    BY <2>1, <2>2
<1>7. PatternInv'
  BY <1>5, <1>6 DEF PatternInv
<1>8. ASSUME NEW p \in DOMAIN patterns
      PROVE  patterns'[p].version = patterns[p].version /\ patterns[p].version \in Nat
  BY <1>2, <1>3 DEF PatternInv, IsRow
<1>9. RevisionsGrow
  BY <1>3, <1>5, <1>8 DEF RevisionsGrow
<1> QED
  BY <1>3, <1>5, <1>7, <1>9

\* A row an operator writes: a new status, or an older revision, as the next version.
LEMMA ReviseKeeps ==
    ASSUME PatternInv, NEW p \in DOMAIN patterns, NEW row, IsRow(row, Learnable),
           row.version = patterns[p].version + 1, Revise(p, row)
    PROVE  PatternInv' /\ RevisionsGrow
<1>1. Learnable' = Learnable
  BY DEF Revise, Learnable
<1>2. /\ DOMAIN patterns' = DOMAIN patterns \union {p} /\ patterns'[p] = row
      /\ \A q \in DOMAIN patterns : q # p => patterns'[q] = patterns[q]
  BY DEF Revise
<1>3. /\ DOMAIN revisions' = DOMAIN revisions \union {p}
      /\ revisions'[p] = Put(revisions[p], row.version, row)
      /\ \A q \in DOMAIN revisions : q # p => revisions'[q] = revisions[q]
  BY DEF Revise, PatternInv
<1>4. /\ DOMAIN (revisions'[p]) = DOMAIN revisions[p] \union {row.version}
      /\ revisions'[p][row.version] = row
      /\ \A v \in DOMAIN revisions[p] :
            v # row.version => revisions'[p][v] = revisions[p][v]
  BY <1>3 DEF Put
<1>5. p \in DOMAIN revisions
  BY DEF PatternInv
<1> QED
  BY <1>1, <1>2, <1>3, <1>4, <1>5, WriteKeeps

\* The operators' calls: SetCausalPatternStatus and RollbackCausalPattern.
LEMMA OperatorKeeps ==
    ASSUME PatternInv, NEW p \in DOMAIN patterns,
           \/ \E status \in Statuses : SetCausalPatternStatus(p, status)
           \/ \E v \in DOMAIN revisions[p] : RollbackCausalPattern(p, v)
    PROVE  PatternInv' /\ RevisionsGrow
<1>1. /\ IsRow(patterns[p], Learnable)
      /\ \A v \in DOMAIN revisions[p] : IsRow(revisions[p][v], Learnable)
      /\ patterns[p].version + 1 \in Nat \ {0}
  BY DEF PatternInv, IsRow
<1>2. ASSUME NEW status \in Statuses, SetCausalPatternStatus(p, status)
      PROVE  PatternInv' /\ RevisionsGrow
  <2> DEFINE row == WithStatus(patterns[p], status, patterns[p].version + 1)
  <2>1. IsRow(row, Learnable) /\ row.version = patterns[p].version + 1
    BY <1>1, StatusSet
  <2>2. Revise(p, row)
    BY <1>2 DEF SetCausalPatternStatus, WithStatus
  <2> QED
    BY <2>1, <2>2, ReviseKeeps
<1>3. ASSUME NEW v \in DOMAIN revisions[p], RollbackCausalPattern(p, v)
      PROVE  PatternInv' /\ RevisionsGrow
  <2>1. IsRow(RolledBack(p, v), Learnable)
        /\ RolledBack(p, v).version = patterns[p].version + 1
    BY <1>1, VersionSet DEF RolledBack
  <2>2. Revise(p, RolledBack(p, v))
    BY <1>3 DEF RollbackCausalPattern
  <2> QED
    BY <2>1, <2>2, ReviseKeeps
<1> QED
  BY <1>2, <1>3

\* Counting the events of a pattern.
LEMMA SupportKeeps ==
    ASSUME PatternInv, NEW i \in Incidents, RecordSupport(i)
    PROVE  /\ PatternInv' /\ RevisionsGrow /\ DOMAIN patterns' = DOMAIN patterns
           /\ \A q \in DOMAIN patterns : patterns'[q].status = patterns[q].status
<1>1. PICK p, count : patterns' = [patterns EXCEPT ![p].count = count]
  BY DEF RecordSupport
<1>2. Learnable' = Learnable /\ revisions' = revisions
  BY DEF RecordSupport, Learnable
<1>3. ASSUME NEW q \in DOMAIN patterns
      PROVE  /\ IsRow(patterns'[q], Learnable)
             /\ patterns'[q].version = patterns[q].version
             /\ patterns'[q].status = patterns[q].status
  <2>1. IsRow(patterns[q], Learnable)
    BY DEF PatternInv
  <2>2. patterns'[q] = IF q = p THEN [patterns[q] EXCEPT !.count = count] ELSE patterns[q]
    BY <1>1
  <2>3. \A row : IsRow(row, Learnable) =>
            LET new == [row EXCEPT !.count = count]
            IN  IsRow(new, Learnable) /\ new.version = row.version /\ new.status = row.status
    BY CountSet
  <2> QED
    BY <2>1, <2>2, <2>3
<1>4. DOMAIN patterns' = DOMAIN patterns
  BY <1>1
<1>5. PatternInv'
  BY <1>2, <1>3, <1>4 DEF PatternInv
<1>6. RevisionsGrow
  BY <1>2, <1>3, <1>4 DEF RevisionsGrow, PatternInv, IsRow
<1> QED
  BY <1>3, <1>4, <1>5, <1>6

-----------------------------------------------------------------------------
(* What no step takes back *)

\* An incident that is resolved stays among those resolved.
LEMMA LearnableGrows ==
    ASSUME TaskInv, Next
    PROVE  Range(resolved) \subseteq Range(resolved)' /\ Learnable \subseteq Learnable'
<1>1. Range(resolved) \subseteq Range(resolved)'
  <2>1. ASSUME NEW i \in Incidents, Learn(i)
        PROVE  Range(resolved) \subseteq Range(resolved)'
    <3>1. resolved' = <<i>> \o resolved /\ <<i>> \in Seq(Incidents)
          /\ resolved \in Seq(Incidents)
      BY <2>1 DEF Learn, TaskInv
    <3>2. Range(<<i>> \o resolved) = Range(<<i>>) \union Range(resolved)
      BY <3>1, RangeConcatenation
    <3> QED
      BY <3>1, <3>2
  <2>2. ASSUME UNCHANGED resolved PROVE Range(resolved) \subseteq Range(resolved)'
    BY <2>2
  <2>3. ASSUME NEW i \in Incidents, Step(i), ~Learn(i) PROVE UNCHANGED resolved
    BY <2>3 DEF Step, FindTopology, MergeTopology, ValidateProposal, MergeProposal,
       RecordSupport, Discover, UpsertDiscovered, UpsertValidating, JudgeCandidate,
       AcceptCandidate, UpsertOutcome, StoreKnowledge, IndexVector, LearnFails
  <2>4. CASE Restart
    BY <2>2, <2>4 DEF Restart
  <2>5. ASSUME NEW p, NEW s, SetCausalPatternStatus(p, s) PROVE UNCHANGED resolved
    BY <2>5 DEF SetCausalPatternStatus, Revise
  <2>6. ASSUME NEW p, NEW v, RollbackCausalPattern(p, v) PROVE UNCHANGED resolved
    BY <2>6 DEF RollbackCausalPattern, Revise
  <2> QED
    BY <2>1, <2>2, <2>3, <2>4, <2>5, <2>6 DEF Next
<1> QED
  BY <1>1 DEF Learnable

\* The observation of an incident that Learn runs for is a row.
LEMMA ObservationIsRow ==
    ASSUME NEW i \in Learnable
    PROVE  LET row == Observation(i, "candidate")
           IN  /\ IsRow(row, Learnable) /\ row.version = 1 /\ row.incidents = {i}
               /\ row.status = "candidate"
BY DEF Observation, IsRow, Statuses

\* Learn goes past its gates only for an incident it may learn from.
LEMMA RunningLearns ==
    ASSUME TaskInv, NEW i \in Incidents, pc[i] \notin {"idle", "skipped"}
    PROVE  i \in Learnable
BY DEF TaskInv, Progress, Learnable, Gates

\* The candidate at the head of a batch.
LEMMA HeadIsSound ==
    ASSUME ReadInv, NEW i \in Incidents, pc[i] \in InDiscovery
    PROVE  /\ Current(i) = read[i].batch[1] /\ 1 \in DOMAIN read[i].batch
           /\ Current(i).candidate.incidents \subseteq Learnable
           /\ Current(i).supported => Cardinality(Current(i).candidate.incidents) >= 3
<1>1. read[i].batch \in Seq(Range(read[i].batch)) /\ read[i].batch # <<>>
  BY DEF ReadInv, IsRead, Decided
<1>2. Current(i) = read[i].batch[1] /\ 1 \in DOMAIN read[i].batch
  BY <1>1, HeadTailProperties, LenProperties DEF Current
<1> QED
  BY <1>2 DEF ReadInv, IsRead

\* The pattern of a candidate that is accepted names three incidents.
LEMMA AcceptedIsRow ==
    ASSUME ReadInv, NEW i \in Incidents, pc[i] = "accept"
    PROVE  LET row == Accepted(Current(i).candidate)
           IN  /\ IsRow(row, Learnable) /\ row.version = 1
               /\ row.incidents = Current(i).candidate.incidents
               /\ Cardinality(row.incidents) >= 3
<1>1. pc[i] \in InDiscovery /\ Current(i).supported
  BY DEF InDiscovery, ReadInv, Decided
<1> QED
  BY <1>1, HeadIsSound DEF Accepted, IsRow, Statuses

\* No step loses a pattern, a revision or a version.
LEMMA PatternStep ==
    ASSUME PatternInv, TaskInv, ReadInv, Next
    PROVE  PatternInv' /\ RevisionsGrow
<1>0. Learnable \subseteq Learnable'
  BY LearnableGrows
<1>1. ASSUME UNCHANGED <<patterns, revisions>> PROVE PatternInv' /\ RevisionsGrow
  BY <1>0, <1>1, RowStays DEF PatternInv, RevisionsGrow, IsRow
<1>2. ASSUME NEW i \in Incidents, MergeProposal(i) PROVE PatternInv' /\ RevisionsGrow
  <2>1. PICK p \in Facts[i].proposal : MergePattern(p, Observation(i, "candidate"))
    BY <1>2 DEF MergeProposal
  <2>2. i \in Learnable
    BY <1>2, RunningLearns DEF MergeProposal
  <2> QED
    BY <1>0, <2>1, <2>2, ObservationIsRow, MergeKeeps
<1>3. ASSUME NEW i \in Incidents, AcceptCandidate(i) PROVE PatternInv' /\ RevisionsGrow
  <2>1. pc[i] = "accept" /\ MergePattern(Current(i).candidate.path, Accepted(Current(i).candidate))
    BY <1>3 DEF AcceptCandidate
  <2> QED
    BY <1>0, <2>1, AcceptedIsRow, MergeKeeps
<1>4. ASSUME NEW i \in Incidents, RecordSupport(i) PROVE PatternInv' /\ RevisionsGrow
  BY <1>4, SupportKeeps
<1>5. ASSUME NEW i \in Incidents, Step(i), ~MergeProposal(i), ~AcceptCandidate(i),
             ~RecordSupport(i)
      PROVE  UNCHANGED <<patterns, revisions>>
  BY <1>5 DEF Step, Learn, FindTopology, MergeTopology, ValidateProposal, Discover,
     UpsertDiscovered, UpsertValidating, JudgeCandidate, UpsertOutcome, StoreKnowledge,
     IndexVector, LearnFails, database
<1>6. CASE Restart
  <2>1. SeedCausalPatterns /\ Learnable' = Learnable
    BY <1>6 DEF Restart, Learnable
  <2> QED
    BY <2>1, SeedKeeps
<1> QED
  BY <1>1, <1>2, <1>3, <1>4, <1>5, <1>6, OperatorKeeps DEF Next

\* A pattern that named the incidents goes on naming them.
LEMMA CoveredStays ==
    ASSUME PatternInv, RevisionsGrow, NEW p, NEW incidents, Covered(p, incidents)
    PROVE  Covered(p, incidents)'
BY DEF Covered, RevisionsGrow, PatternInv

-----------------------------------------------------------------------------
(* The steps of Learn *)

\* Neither is what was derived of an incident.
LEMMA DerivedStays ==
    ASSUME PatternInv, RevisionsGrow, Next, NEW i
    PROVE  /\ TopologyStored(i) => TopologyStored(i)'
           /\ support \subseteq support'
           /\ Supported(i) => Supported(i)'
<1>1. \A t \in DOMAIN topology :
          t \in DOMAIN topology' /\ topology[t].incidents \subseteq topology'[t].incidents
  <2>1. ASSUME NEW j \in Incidents, MergeTopology(j)
        PROVE  \A t \in DOMAIN topology : /\ t \in DOMAIN topology'
                                         /\ topology[t].incidents \subseteq topology'[t].incidents
    <3>1. PICK s, frequency :
              topology' = Put(topology, s,
                [frequency |-> frequency,
                 incidents |-> (IF s \in DOMAIN topology THEN topology[s].incidents ELSE {})
                                  \union read[j].pattern.incidents \union {j}])
      BY <2>1 DEF MergeTopology
    <3> QED
      BY <3>1 DEF Put
  <2>2. ASSUME NEW j \in Incidents, Step(j), ~MergeTopology(j) PROVE UNCHANGED topology
    BY <2>2 DEF Step, Learn, FindTopology, ValidateProposal, MergeProposal, RecordSupport,
       Discover, UpsertDiscovered, UpsertValidating, JudgeCandidate, AcceptCandidate,
       UpsertOutcome, StoreKnowledge, IndexVector, LearnFails, database
  <2>3. CASE Restart
    BY <2>3 DEF Restart
  <2>4. ASSUME NEW p, NEW s, SetCausalPatternStatus(p, s) PROVE UNCHANGED topology
    BY <2>4 DEF SetCausalPatternStatus, Revise
  <2>5. ASSUME NEW p, NEW v, RollbackCausalPattern(p, v) PROVE UNCHANGED topology
    BY <2>5 DEF RollbackCausalPattern, Revise
  <2> QED
    BY <2>1, <2>2, <2>3, <2>4, <2>5 DEF Next
<1>2. support \subseteq support'
  <2>1. ASSUME NEW j \in Incidents, Step(j) PROVE support \subseteq support'
    BY <2>1 DEF Step, Learn, FindTopology, MergeTopology, ValidateProposal, MergeProposal,
       RecordSupport, Discover, UpsertDiscovered, UpsertValidating, JudgeCandidate,
       AcceptCandidate, UpsertOutcome, StoreKnowledge, IndexVector, LearnFails, database
  <2>2. CASE Restart
    BY <2>2 DEF Restart
  <2>3. ASSUME NEW p, NEW s, SetCausalPatternStatus(p, s) PROVE UNCHANGED support
    BY <2>3 DEF SetCausalPatternStatus, Revise
  <2>4. ASSUME NEW p, NEW v, RollbackCausalPattern(p, v) PROVE UNCHANGED support
    BY <2>4 DEF RollbackCausalPattern, Revise
  <2> QED
    BY <2>1, <2>2, <2>3, <2>4 DEF Next
<1> QED
  BY <1>1, <1>2, CoveredStays DEF TopologyStored, Supported

\* A step of another incident, or of an operator, changes nothing of what Learn
\* has behind it or holds.
LEMMA ProgressStays ==
    ASSUME PatternInv, TaskInv, ReadInv, Next, NEW i \in Incidents,
           pc'[i] \in {pc[i], "failed", "stopped"},
           pc[i] \in {"idle", "skipped"} => pc'[i] = pc[i],
           i \in knowledge' => i \in knowledge
    PROVE  Progress(i)'
<1>1. RevisionsGrow /\ Range(resolved) \subseteq Range(resolved)'
  BY PatternStep, LearnableGrows
<1>2. /\ TopologyStored(i) => TopologyStored(i)'
      /\ Supported(i) => Supported(i)'
      /\ \A p : Covered(p, {i}) => Covered(p, {i})'
  BY <1>1, DerivedStays, CoveredStays
<1> QED
  BY <1>1, <1>2 DEF TaskInv, Progress, AfterTopology, AfterSupport, InDiscovery

\* Neither does it change what Learn holds,
LEMMA ReadStays ==
    ASSUME ReadInv, Learnable \subseteq Learnable', NEW i \in Incidents,
           read'[i] = read[i]
    PROVE  IsRead(read'[i], Learnable')
BY DEF ReadInv, IsRead

\* nor what it decided of a candidate.
LEMMA DecidedStays ==
    ASSUME PatternInv, ReadInv, RevisionsGrow, NEW i \in Incidents,
           read'[i] = read[i], pc'[i] = pc[i]
    PROVE  Decided(i)'
<1>1. Current(i)' = Current(i)
  BY DEF Current
<1>2. Covered(Current(i).candidate.path, Current(i).candidate.incidents)
        => Covered(Current(i).candidate.path, Current(i).candidate.incidents)'
  BY <1>1 DEF Covered, RevisionsGrow, PatternInv
<1> QED
  BY <1>1, <1>2 DEF ReadInv, Decided

\* A step of Learn leaves behind it what the next one relies on.
LEMMA ProgressStep ==
    ASSUME PatternInv, TaskInv, ReadInv, NEW i \in Incidents, Step(i)
    PROVE  Progress(i)'
<1> USE DEF AfterTopology, AfterSupport, InDiscovery, Goto, Ends
<1>0. Next
  BY DEF Next
<1>1. RevisionsGrow /\ Range(resolved) \subseteq Range(resolved)'
  BY <1>0, PatternStep, LearnableGrows
<1>2. /\ TopologyStored(i) => TopologyStored(i)'
      /\ Supported(i) => Supported(i)'
      /\ \A p : Covered(p, {i}) => Covered(p, {i})'
  BY <1>0, <1>1, DerivedStays, CoveredStays
<1>3. Progress(i) /\ pc \in [Incidents -> Steps]
  BY DEF TaskInv
<1>4. AtMostOne(Facts[i].topology) /\ AtMostOne(Facts[i].proposal)
  BY FactsAssumption
<1>5. CASE Learn(i)
  <2>1. resolved' = <<i>> \o resolved /\ <<i>> \in Seq(Incidents)
        /\ resolved \in Seq(Incidents)
    BY <1>5 DEF Learn, TaskInv
  <2>2. i \in Range(<<i>>)
    BY DEF Range
  <2>4. Range(<<i>> \o resolved) = Range(<<i>>) \union Range(resolved)
    BY <2>1, RangeConcatenation
  <2>3. i \in Range(resolved)'
    BY <2>1, <2>2, <2>4
  <2> QED
    BY <1>2, <1>3, <1>5, <2>3 DEF Learn, Progress, database
<1>6. CASE FindTopology(i)
  BY <1>1, <1>2, <1>3, <1>6 DEF FindTopology, Progress, database
<1>7. CASE MergeTopology(i)
  <2>1. TopologyStored(i)'
    <3>1. PICK t, frequency, before :
              t \in Facts[i].topology /\ topology' = Put(topology, t,
                  [frequency |-> frequency, incidents |-> before \union {i}])
      BY <1>7 DEF MergeTopology
    <3>2. t \in Facts[i].topology /\ t \in DOMAIN topology' /\ i \in topology'[t].incidents
      BY <3>1 DEF Put
    <3> QED
      BY <1>4, <3>2 DEF TopologyStored, AtMostOne
  <2> QED
    BY <1>1, <1>2, <1>3, <1>7, <2>1 DEF MergeTopology, Progress
<1>8. CASE ValidateProposal(i)
  <2>1. pc'[i] = "discover" => Supported(i)'
    BY <1>3, <1>8 DEF ValidateProposal, Supported
  <2> QED
    BY <1>1, <1>2, <1>3, <1>8, <2>1 DEF ValidateProposal, Progress, database
<1>9. CASE MergeProposal(i)
  <2>1. PICK p \in Facts[i].proposal : MergePattern(p, Observation(i, "candidate"))
    BY <1>9 DEF MergeProposal
  <2>2. i \in Learnable /\ Learnable \subseteq Learnable'
    BY <1>0, <1>9, RunningLearns, LearnableGrows DEF MergeProposal
  <2>3. p \in DOMAIN revisions'
        /\ \E v \in DOMAIN (revisions'[p]) :
              Observation(i, "candidate").incidents \subseteq revisions'[p][v].incidents
    BY <2>1, <2>2, ObservationIsRow, MergeKeeps
  <2>4. \A q \in Facts[i].proposal : Covered(q, {i})'
    BY <1>4, <2>2, <2>3, ObservationIsRow DEF Covered, AtMostOne
  <2> QED
    BY <1>1, <1>2, <1>3, <1>9, <2>4 DEF MergeProposal, Progress
<1>10. CASE RecordSupport(i)
  <2>1. \A p \in Facts[i].proposal : Covered(p, {i})'
    BY <1>2, <1>3, <1>10 DEF RecordSupport, Progress
  <2>2. \A p \in Facts[i].proposal : <<p, i>> \in support'
    BY <1>4, <1>10 DEF RecordSupport, AtMostOne
  <2>3. Supported(i)'
    BY <2>1, <2>2 DEF Supported
  <2> QED
    BY <1>1, <1>2, <1>3, <1>10, <2>3 DEF RecordSupport, Progress
<1>11. CASE LearnFails(i)
  BY <1>1, <1>2, <1>3, <1>11 DEF LearnFails, Running, Progress, database
<1>12. ASSUME pc[i] \in AfterSupport, pc'[i] \in AfterSupport PROVE Progress(i)'
  BY <1>1, <1>2, <1>3, <1>12 DEF Progress
<1>13. CASE Discover(i) \/ UpsertDiscovered(i) \/ UpsertValidating(i) \/ JudgeCandidate(i)
            \/ AcceptCandidate(i) \/ UpsertOutcome(i) \/ StoreKnowledge(i) \/ IndexVector(i)
  BY <1>3, <1>12, <1>13 DEF Discover, UpsertDiscovered, UpsertValidating, JudgeCandidate,
     AcceptCandidate, UpsertOutcome, StoreKnowledge, IndexVector
<1> QED
  BY <1>5, <1>6, <1>7, <1>8, <1>9, <1>10, <1>11, <1>13 DEF Step

\* The other incidents do not move.
LEMMA OthersStay ==
    ASSUME NEW i \in Incidents, Step(i), TaskInv, ReadInv
    PROVE  /\ \A j \in Incidents : j # i => pc'[j] = pc[j] /\ read'[j] = read[j]
           /\ knowledge' \subseteq knowledge \union {i}
           /\ DOMAIN read' = Incidents /\ pc' \in [Incidents -> Steps]
           /\ ops' = ops
BY DEF Step, Learn, FindTopology, MergeTopology, ValidateProposal, MergeProposal,
   RecordSupport, Discover, UpsertDiscovered, UpsertValidating, JudgeCandidate,
   AcceptCandidate, UpsertOutcome, StoreKnowledge, IndexVector, LearnFails, database,
   Goto, Ends, TaskInv, ReadInv, Steps

\* Every step keeps what Learn relies on, for all incidents.
LEMMA TaskStep ==
    ASSUME PatternInv, TaskInv, ReadInv, Next
    PROVE  TaskInv'
<1>1. resolved' \in Seq(Incidents)
  <2>1. ASSUME NEW i \in Incidents, Step(i) PROVE resolved' \in Seq(Incidents)
    <3>1. resolved' \in {resolved, <<i>> \o resolved}
      BY <2>1 DEF Step, Learn, FindTopology, MergeTopology, ValidateProposal, MergeProposal,
         RecordSupport, Discover, UpsertDiscovered, UpsertValidating, JudgeCandidate,
         AcceptCandidate, UpsertOutcome, StoreKnowledge, IndexVector, LearnFails
    <3> QED
      BY <3>1 DEF TaskInv
  <2> QED
    BY <2>1 DEF Next, Restart, SetCausalPatternStatus, RollbackCausalPattern, Revise, TaskInv
<1>2. CASE \E i \in Incidents : Step(i)
  <2>1. PICK i \in Incidents : Step(i)
    BY <1>2
  <2>2. \A j \in Incidents : Progress(j)'
    BY <2>1, ProgressStep, OthersStay, ProgressStays
  <2> QED
    BY <1>1, <2>1, <2>2, OthersStay DEF TaskInv
<1>3. CASE ~\E i \in Incidents : Step(i)
  <2>1. /\ knowledge' = knowledge /\ pc' \in [Incidents -> Steps] /\ ops' \in Nat
        /\ \A i \in Incidents :
              /\ pc'[i] \in {pc[i], "failed", "stopped"}
              /\ pc[i] \in {"idle", "skipped"} => pc'[i] = pc[i]
    <3>1. CASE Restart
      <4>1. \A i \in Incidents : pc[i] \in Steps
        BY DEF TaskInv
      <4>2. /\ knowledge' = knowledge /\ ops' = ops
            /\ pc' = [i \in Incidents |-> IF Running(i) THEN "stopped" ELSE pc[i]]
        BY <3>1 DEF Restart
      <4>3. "stopped" \in Steps /\ ops \in Nat
        BY DEF Steps, TaskInv
      <4> QED
        BY <4>1, <4>2, <4>3 DEF Running
    <3>2. ASSUME knowledge' = knowledge, pc' = pc, ops' = ops + 1
          PROVE  /\ knowledge' = knowledge /\ pc' \in [Incidents -> Steps] /\ ops' \in Nat
                 /\ \A i \in Incidents :
                       /\ pc'[i] \in {pc[i], "failed", "stopped"}
                       /\ pc[i] \in {"idle", "skipped"} => pc'[i] = pc[i]
      BY <3>2 DEF TaskInv
    <3>3. ASSUME NEW p, NEW s, SetCausalPatternStatus(p, s)
          PROVE  knowledge' = knowledge /\ pc' = pc /\ ops' = ops + 1
      BY <3>3 DEF SetCausalPatternStatus, Revise, Operated
    <3>4. ASSUME NEW p, NEW v, RollbackCausalPattern(p, v)
          PROVE  knowledge' = knowledge /\ pc' = pc /\ ops' = ops + 1
      BY <3>4 DEF RollbackCausalPattern, Revise, Operated
    <3> QED
      BY <1>3, <3>1, <3>2, <3>3, <3>4 DEF Next
  <2> QED
    BY <1>1, <2>1, ProgressStays DEF TaskInv
<1> QED
  BY <1>2, <1>3

-----------------------------------------------------------------------------
(* What Learn holds *)

\* Discovery mines resolved incidents outside of evaluations only.
LEMMA MinedAreLearnable ==
    ASSUME TaskInv, NEW found \in Mine(Graphs)
    PROVE  found.incidents \subseteq Learnable
<1>1. PICK path, most : found = Candidate(Graphs, path, most)
  BY DEF Mine
<1>2. found.incidents = {Graphs[k].id : k \in Support(Graphs, path)}
  BY <1>1 DEF Candidate
<1>3. Support(Graphs, path) \subseteq DOMAIN Graphs
  BY DEF Support
<1>4. ASSUME NEW k \in DOMAIN Graphs PROVE Graphs[k].id \in Learnable
  <2>1. k \in History /\ Discoverable(Resolved(resolved[k])) /\ Graphs[k].id = resolved[k]
    BY DEF Graphs, Graph
  <2>2. k \in DOMAIN resolved /\ resolved[k] \in Incidents
    BY <2>1, ElementOfSeq, LenProperties DEF History, TaskInv
  <2>3. "production" \in Facts[resolved[k]].gates
    BY <2>1 DEF Discoverable, Resolved
  <2> QED
    BY <2>1, <2>2, <2>3 DEF Learnable, Range
<1> QED
  BY <1>2, <1>3, <1>4

\* The batch Discover takes from a set of candidates.
LEMMA BatchIsSound ==
    ASSUME TaskInv, NEW batch \in BestFirst(Mine(Graphs)), NEW judged,
           judged = [k \in DOMAIN batch |->
              [candidate |-> batch[k], supported |-> SupportedWell(Graphs, batch[k])]]
    PROVE  /\ judged \in Seq(Range(judged))
           /\ batch # <<>> => judged # <<>>
           /\ \A k \in DOMAIN judged :
                 /\ judged[k].candidate.incidents \subseteq Learnable
                 /\ judged[k].supported => Cardinality(judged[k].candidate.incidents) >= 3
<1>1. PICK n \in 0..Cardinality(Mine(Graphs)) : batch \in [1..n -> Mine(Graphs)]
  BY DEF BestFirst, SeqOf
<1>2. n \in Nat
  BY <1>1
<1>3. judged \in [1..n -> Range(judged)]
  BY <1>1 DEF Range
<1>4. judged \in Seq(Range(judged))
  BY <1>2, <1>3, SeqDef
<1>5. batch # <<>> => judged # <<>>
  <2>1. batch \in Seq(Mine(Graphs))
    BY <1>1, <1>2, SeqDef
  <2>2. batch # <<>> => Len(batch) # 0
    BY <2>1, EmptySeq
  <2>3. Len(batch) = n
    BY <1>1, <1>2, <2>1, LenProperties
  <2>4. n # 0 => 1 \in DOMAIN judged
    BY <1>2, <1>3
  <2> QED
    BY <2>2, <2>3, <2>4, EmptyTable
<1>6. ASSUME NEW k \in DOMAIN judged
      PROVE  /\ judged[k].candidate.incidents \subseteq Learnable
             /\ judged[k].supported => Cardinality(judged[k].candidate.incidents) >= 3
  <2>1. judged[k].candidate = batch[k] /\ batch[k] \in Mine(Graphs)
    BY <1>1
  <2>2. judged[k].supported = SupportedWell(Graphs, batch[k])
    OBVIOUS
  <2>3. SupportedWell(Graphs, batch[k]) => Cardinality(batch[k].incidents) >= 3
    BY DEF SupportedWell
  <2> QED
    BY <2>1, <2>2, <2>3, MinedAreLearnable
<1> QED
  BY <1>4, <1>5, <1>6

\* What Learn holds is a record of three fields.
IsHeld(held) ==
    held = [pattern |-> held.pattern, batch |-> held.batch, accepted |-> held.accepted]

\* With one field set it keeps the others.
LEMMA HeldUpdates ==
    ASSUME NEW held, IsHeld(held), NEW x
    PROVE  /\ LET new == [held EXCEPT !.pattern = x]
              IN  /\ IsHeld(new) /\ new.pattern = x
                  /\ new.batch = held.batch /\ new.accepted = held.accepted
           /\ LET new == [held EXCEPT !.batch = x]
              IN  /\ IsHeld(new) /\ new.pattern = held.pattern
                  /\ new.batch = x /\ new.accepted = held.accepted
           /\ LET new == [held EXCEPT !.accepted = x]
              IN  /\ IsHeld(new) /\ new.pattern = held.pattern
                  /\ new.batch = held.batch /\ new.accepted = x
<1> DEFINE p == held.pattern  b == held.batch  a == held.accepted
<1>1. held = [pattern |-> p, batch |-> b, accepted |-> a]
  BY DEF IsHeld
<1> HIDE DEF p, b, a
<1>2. /\ [held EXCEPT !.pattern = x] = [pattern |-> x, batch |-> b, accepted |-> a]
      /\ [held EXCEPT !.batch = x] = [pattern |-> p, batch |-> x, accepted |-> a]
      /\ [held EXCEPT !.accepted = x] = [pattern |-> p, batch |-> b, accepted |-> x]
  BY <1>1
<1> QED
  BY <1>1, <1>2 DEF IsHeld

\* A Learn that ended holds nothing.
LEMMA NothingIsRead == \A known : IsRead(NothingRead, known)
<1>1. NothingRead.batch = <<>> /\ <<>> \in Seq(Range(<<>>)) /\ DOMAIN <<>> = {}
  BY EmptyTable DEF NothingRead
<1> QED
  BY <1>1 DEF NothingRead, IsRead

\* What is left of a batch after its head.
Rest(held) == [held EXCEPT !.batch = Tail(@), !.accepted = FALSE]

\* UpsertOutcome leaves the pattern and the tail of the batch.
LEMMA RestIsHeld ==
    ASSUME NEW held, IsHeld(held)
    PROVE  IsHeld(Rest(held)) /\ Rest(held).pattern = held.pattern
           /\ Rest(held).batch = Tail(held.batch)
<1> DEFINE p == held.pattern  b == held.batch  a == held.accepted  tail == Tail(held.batch)
<1>1. held = [pattern |-> p, batch |-> b, accepted |-> a]
  BY DEF IsHeld
<1> HIDE DEF p, b, a, tail
<1>2. [held EXCEPT !.batch = tail] = [pattern |-> p, batch |-> tail, accepted |-> a]
  BY <1>1
<1>3. \A x : [[pattern |-> p, batch |-> tail, accepted |-> a] EXCEPT !.accepted = x]
               = [pattern |-> p, batch |-> tail, accepted |-> x]
  OBVIOUS
<1>4. Rest(held) = [pattern |-> p, batch |-> tail, accepted |-> FALSE]
  BY <1>2, <1>3, Zenon DEF Rest, tail
<1> QED
  BY <1>4 DEF IsHeld, p, tail

\* It is a batch again.
LEMMA RestIsSound ==
    ASSUME NEW known, NEW held, IsRead(held, known), held.batch # <<>>
    PROVE  IsRead(Rest(held), known)
<1>1. IsHeld(held) /\ held.batch \in Seq(Range(held.batch))
  BY DEF IsRead, IsHeld
<1>3. IsHeld(Rest(held)) /\ Rest(held).pattern = held.pattern
      /\ Rest(held).batch = Tail(held.batch)
  BY <1>1, RestIsHeld
<1>4. /\ Tail(held.batch) \in Seq(Range(held.batch))
      /\ Len(Tail(held.batch)) = Len(held.batch) - 1
      /\ \A k \in 1..Len(Tail(held.batch)) : Tail(held.batch)[k] = held.batch[k + 1]
  BY <1>1, HeadTailProperties
<1>5. Tail(held.batch) \in Seq(Range(Tail(held.batch)))
  BY <1>4, SeqOfRange
<1>6. \A k \in DOMAIN Tail(held.batch) :
          k + 1 \in DOMAIN held.batch /\ Tail(held.batch)[k] = held.batch[k + 1]
  BY <1>1, <1>4, LenProperties
<1> QED
  BY <1>3, <1>5, <1>6 DEF IsRead, IsHeld

\* A step of Learn holds what the next one may rely on.
LEMMA HeldStep ==
    ASSUME PatternInv, TaskInv, ReadInv, TableInv, NEW i \in Incidents, Step(i)
    PROVE  IsRead(read'[i], Learnable') /\ Decided(i)'
<1> USE DEF InDiscovery, Goto, Ends
<1>0. Next
  BY DEF Next
<1>1. RevisionsGrow /\ Learnable \subseteq Learnable'
  BY <1>0, PatternStep, LearnableGrows
<1>2. /\ IsRead(read[i], Learnable) /\ Decided(i) /\ DOMAIN read = Incidents
      /\ pc \in [Incidents -> Steps]
  BY DEF ReadInv, TaskInv
<1>3. ASSUME read'[i] = read[i], pc'[i] \notin InDiscovery
      PROVE  IsRead(read'[i], Learnable') /\ Decided(i)'
  BY <1>1, <1>3, ReadStays DEF Decided
<1>4. ASSUME read'[i] = NothingRead, pc'[i] \notin InDiscovery
      PROVE  IsRead(read'[i], Learnable') /\ Decided(i)'
  BY <1>4, NothingIsRead DEF Decided
<1>5. CASE Learn(i) \/ ValidateProposal(i) \/ MergeProposal(i) \/ RecordSupport(i)
           \/ StoreKnowledge(i) \/ IndexVector(i) \/ LearnFails(i) \/ MergeTopology(i)
  BY <1>2, <1>3, <1>4, <1>5 DEF Learn, ValidateProposal, MergeProposal, RecordSupport,
     StoreKnowledge, IndexVector, LearnFails, MergeTopology
<1>6. CASE FindTopology(i)
  <2>1. CASE Facts[i].topology = {} /\ Ends(i, "failed")
    BY <1>2, <1>4, <2>1
  <2>2. ASSUME NEW old, pc' = [pc EXCEPT ![i] = "topology write"],
               read' = [read EXCEPT ![i].pattern = old],
               old = NothingRead.pattern \/ \E t \in DOMAIN topology : old = topology[t]
        PROVE  IsRead(read'[i], Learnable') /\ Decided(i)'
    <3>1. old.incidents \subseteq Learnable
      <4>1. CASE old = NothingRead.pattern
        BY <4>1 DEF NothingRead
      <4>2. CASE \E t \in DOMAIN topology : old = topology[t]
        BY <4>2 DEF TableInv
      <4> QED
        BY <2>2, <4>1, <4>2
    <3>2. read'[i] = [read[i] EXCEPT !.pattern = old]
      BY <1>2, <2>2
    <3>3. /\ IsHeld(read'[i]) /\ read'[i].pattern = old
          /\ read'[i].batch = read[i].batch
      BY <1>2, <3>2, HeldUpdates DEF IsRead, IsHeld
    <3>4. IsRead(read'[i], Learnable')
      BY <1>1, <1>2, <3>1, <3>3 DEF IsRead, IsHeld
    <3> QED
      BY <1>2, <2>2, <3>4 DEF Decided
  <2>3. CASE \E t \in Facts[i].topology :
                /\ read' = [read EXCEPT ![i].pattern =
                       IF t \in DOMAIN topology THEN topology[t] ELSE NothingRead.pattern]
                /\ pc' = [pc EXCEPT ![i] = "topology write"]
    <3>1. PICK t \in Facts[i].topology :
                /\ read' = [read EXCEPT ![i].pattern =
                       IF t \in DOMAIN topology THEN topology[t] ELSE NothingRead.pattern]
                /\ pc' = [pc EXCEPT ![i] = "topology write"]
      BY <2>3
    <3> DEFINE old == IF t \in DOMAIN topology THEN topology[t] ELSE NothingRead.pattern
    <3>2. old = NothingRead.pattern \/ \E s \in DOMAIN topology : old = topology[s]
      OBVIOUS
    <3>3. read' = [read EXCEPT ![i].pattern = old]
      BY <3>1
    <3> HIDE DEF old
    <3> QED
      BY <2>2, <3>1, <3>2, <3>3
  <2>4. CASE /\ read' = [read EXCEPT ![i].pattern = NothingRead.pattern]
             /\ pc' = [pc EXCEPT ![i] = "topology write"]
    BY <2>2, <2>4
  <2> QED
    BY <1>6, <2>1, <2>3, <2>4 DEF FindTopology, Goto
<1>7. CASE Discover(i)
  <2>1. PICK batch \in BestFirst(Mine(Graphs)) :
            /\ read' = [read EXCEPT ![i].batch = [k \in DOMAIN batch |->
                 [candidate |-> batch[k], supported |-> SupportedWell(Graphs, batch[k])]]]
            /\ pc' = [pc EXCEPT ![i] = IF batch = <<>> THEN "knowledge" ELSE "discovered"]
    BY <1>7 DEF Discover
  <2> DEFINE judged == [k \in DOMAIN batch |->
                 [candidate |-> batch[k], supported |-> SupportedWell(Graphs, batch[k])]]
  <2>2. /\ judged \in Seq(Range(judged))
        /\ batch # <<>> => judged # <<>>
        /\ \A k \in DOMAIN judged :
              /\ judged[k].candidate.incidents \subseteq Learnable
              /\ judged[k].supported => Cardinality(judged[k].candidate.incidents) >= 3
    BY BatchIsSound
  <2>3. read'[i] = [read[i] EXCEPT !.batch = judged]
    BY <1>2, <2>1
  <2> HIDE DEF judged
  <2>4. /\ IsHeld(read'[i]) /\ read'[i].pattern = read[i].pattern
        /\ read'[i].batch = judged
    BY <1>2, <2>3, HeldUpdates DEF IsRead, IsHeld
  <2>5. IsRead(read'[i], Learnable')
    BY <1>1, <1>2, <2>2, <2>4 DEF IsRead, IsHeld
  <2>6. pc'[i] \in {"knowledge", "discovered"}
        /\ (pc'[i] = "discovered" => read'[i].batch # <<>>)
    BY <1>2, <2>1, <2>2, <2>4
  <2> QED
    BY <2>5, <2>6 DEF Decided
<1>8. CASE UpsertDiscovered(i) \/ UpsertValidating(i)
  BY <1>1, <1>2, <1>8, ReadStays DEF UpsertDiscovered, UpsertValidating, Decided
<1>9. CASE JudgeCandidate(i)
  <2>1. PICK accepted \in BOOLEAN :
            /\ read'[i] = [read[i] EXCEPT !.accepted = accepted]
            /\ pc[i] = "judge"
            /\ pc'[i] = IF accepted THEN "accept" ELSE "outcome"
            /\ accepted => Current(i).supported
    <3>1. CASE /\ read' = [read EXCEPT ![i].accepted = Current(i).supported /\ ~ListFails]
               /\ pc' = [pc EXCEPT ![i] = IF Current(i).supported /\ ~ListFails THEN "accept" ELSE "outcome"]
      BY <1>2, <1>9, <3>1 DEF JudgeCandidate
    <3>2. CASE /\ read' = [read EXCEPT ![i].accepted = FALSE]
               /\ pc' = [pc EXCEPT ![i] = "outcome"]
      BY <1>2, <1>9, <3>2 DEF JudgeCandidate
    <3> QED
      BY <1>9, <3>1, <3>2 DEF JudgeCandidate, Goto
  <2>2. accepted => Current(i).supported
    BY <2>1
  <2>3. /\ IsHeld(read'[i]) /\ read'[i].pattern = read[i].pattern
        /\ read'[i].batch = read[i].batch /\ read'[i].accepted = accepted
    BY <1>2, <2>1, HeldUpdates DEF IsRead, IsHeld
  <2>4. IsRead(read'[i], Learnable')
    BY <1>1, <1>2, <2>3 DEF IsRead, IsHeld
  <2>5. Current(i)' = Current(i)
    BY <2>3 DEF Current
  <2> QED
    BY <1>2, <2>1, <2>2, <2>3, <2>4, <2>5 DEF Decided
<1>10. CASE AcceptCandidate(i)
  <2>1. /\ pc[i] = "accept" /\ read'[i] = read[i] /\ pc'[i] = "outcome"
        /\ MergePattern(Current(i).candidate.path, Accepted(Current(i).candidate))
    BY <1>2, <1>10 DEF AcceptCandidate
  <2> DEFINE p == Current(i).candidate.path  row == Accepted(Current(i).candidate)
  <2>2. /\ IsRow(row, Learnable) /\ row.version = 1
        /\ row.incidents = Current(i).candidate.incidents
    BY <2>1, AcceptedIsRow
  <2>3. p \in DOMAIN revisions'
        /\ \E v \in DOMAIN (revisions'[p]) : row.incidents \subseteq revisions'[p][v].incidents
    BY <1>1, <2>1, <2>2, MergeKeeps
  <2>4. Current(i)' = Current(i)
    BY <2>1 DEF Current
  <2>5. Covered(Current(i).candidate.path, Current(i).candidate.incidents)'
    BY <2>2, <2>3, <2>4 DEF Covered
  <2> QED
    BY <1>1, <1>2, <2>1, <2>5, ReadStays DEF Decided
<1>11. CASE UpsertOutcome(i)
  <2>1. /\ pc[i] = "outcome"
        /\ read'[i] = Rest(read[i])
        /\ pc'[i] = IF Len(read[i].batch) = 1 THEN "knowledge" ELSE "discovered"
    BY <1>2, <1>11 DEF UpsertOutcome, Rest
  <2>2. read[i].batch # <<>> /\ read[i].batch \in Seq(Range(read[i].batch))
    BY <1>2, <2>1 DEF Decided, IsRead
  <2>3. IsRead(read'[i], Learnable)
    BY <1>2, <2>1, <2>2, RestIsSound
  <2>4. IsRead(read'[i], Learnable')
    BY <1>1, <2>3 DEF IsRead
  <2>5. pc'[i] = "discovered" => read'[i].batch # <<>>
    <3>1. IsHeld(read[i])
      BY <1>2 DEF IsRead, IsHeld
    <3>2. read'[i].batch = Tail(read[i].batch)
      BY <2>1, <3>1, RestIsHeld
    <3>3. /\ Len(Tail(read[i].batch)) = Len(read[i].batch) - 1
          /\ Tail(read[i].batch) \in Seq(Range(read[i].batch))
      BY <2>2, HeadTailProperties
    <3>4. Tail(read[i].batch) = <<>> => Len(Tail(read[i].batch)) = 0
      BY <3>3, EmptySeq
    <3>5. Len(read[i].batch) # 1 => Tail(read[i].batch) # <<>>
      <4>1. Len(read[i].batch) \in Nat
        BY <2>2, LenProperties
      <4> QED
        BY <3>3, <3>4, <4>1
    <3> QED
      BY <2>1, <3>2, <3>5
  <2> QED
    BY <2>1, <2>4, <2>5 DEF Decided
<1> QED
  BY <1>5, <1>6, <1>7, <1>8, <1>9, <1>10, <1>11 DEF Step

\* Every step keeps what is said of what Learn holds, for all incidents.
LEMMA ReadStep ==
    ASSUME PatternInv, TaskInv, ReadInv, TableInv, Next
    PROVE  ReadInv'
<1>1. RevisionsGrow /\ Learnable \subseteq Learnable'
  BY PatternStep, LearnableGrows
<1>2. ASSUME NEW i \in Incidents, Step(i) PROVE ReadInv'
  <2>1. ASSUME NEW j \in Incidents, j # i PROVE IsRead(read'[j], Learnable') /\ Decided(j)'
    BY <1>1, <1>2, <2>1, OthersStay, ReadStays, DecidedStays
  <2> QED
    BY <1>2, <2>1, HeldStep, OthersStay DEF ReadInv
<1>3. CASE Restart
  <2>1. read' = [i \in Incidents |-> NothingRead]
    BY <1>3 DEF Restart
  <2>2. ASSUME NEW i \in Incidents PROVE IsRead(read'[i], Learnable') /\ Decided(i)'
    <3>1. pc'[i] \notin InDiscovery
      BY <1>3 DEF Restart, Running, InDiscovery
    <3> QED
      BY <2>1, <3>1, NothingIsRead DEF Decided, InDiscovery
  <2> QED
    BY <2>1, <2>2 DEF ReadInv
<1>4. ASSUME UNCHANGED <<pc, read>> PROVE ReadInv'
  BY <1>1, <1>4, ReadStays, DecidedStays DEF ReadInv
<1>5. ASSUME NEW p, NEW s, SetCausalPatternStatus(p, s) PROVE UNCHANGED <<pc, read>>
  BY <1>5 DEF SetCausalPatternStatus, Revise
<1>6. ASSUME NEW p, NEW v, RollbackCausalPattern(p, v) PROVE UNCHANGED <<pc, read>>
  BY <1>6 DEF RollbackCausalPattern, Revise
<1> QED
  BY <1>2, <1>3, <1>4, <1>5, <1>6 DEF Next

-----------------------------------------------------------------------------
(* The tables of knowledge *)

\* Every step keeps what is said of the tables.
LEMMA TableStep ==
    ASSUME PatternInv, TaskInv, ReadInv, TableInv, Next
    PROVE  TableInv'
<1> USE DEF Goto, Ends
<1>1. RevisionsGrow /\ Learnable \subseteq Learnable'
  BY PatternStep, LearnableGrows
<1>2. \A path \in DOMAIN candidates :
          /\ candidates[path].incidents \subseteq Learnable'
          /\ candidates[path].status = "ACCEPTED"
               => Covered(path, candidates[path].incidents)
  BY <1>1 DEF TableInv
<1>3. \A p, incidents : Covered(p, incidents) => Covered(p, incidents)'
  BY <1>1, CoveredStays
<1>c. ASSUME UNCHANGED candidates
      PROVE  \A path \in DOMAIN candidates' :
                /\ candidates'[path].incidents \subseteq Learnable'
                /\ candidates'[path].status = "ACCEPTED"
                     => Covered(path, candidates[path].incidents)'
  <2> SUFFICES ASSUME NEW path \in DOMAIN candidates
               PROVE  /\ candidates[path].incidents \subseteq Learnable'
                      /\ candidates[path].status = "ACCEPTED"
                           => Covered(path, candidates[path].incidents)'
    BY <1>c
  <2>1. Covered(path, candidates[path].incidents)
          => Covered(path, candidates[path].incidents)'
    BY <1>1, <1>c DEF Covered, RevisionsGrow, PatternInv
  <2> QED
    BY <1>2, <2>1
<1>4. ASSUME UNCHANGED <<topology, candidates, knowledge, vectors>> PROVE TableInv'
  <2>1. \A t \in DOMAIN topology' : topology'[t].incidents \subseteq Learnable'
    BY <1>1, <1>4 DEF TableInv
  <2>2. knowledge' \union vectors' \subseteq Learnable'
    BY <1>1, <1>4 DEF TableInv
  <2> QED
    BY <1>4, <1>c, <2>1, <2>2 DEF TableInv
<1>5. ASSUME NEW i \in Incidents, MergeTopology(i) PROVE TableInv'
  <2>1. PICK s, frequency :
            topology' = Put(topology, s,
              [frequency |-> frequency,
               incidents |-> (IF s \in DOMAIN topology THEN topology[s].incidents ELSE {})
                                \union read[i].pattern.incidents \union {i}])
    BY <1>5 DEF MergeTopology
  <2>2. i \in Learnable /\ read[i].pattern.incidents \subseteq Learnable
    BY <1>5, RunningLearns DEF MergeTopology, ReadInv, IsRead
  <2>3. \A t \in DOMAIN topology' : topology'[t].incidents \subseteq Learnable
    BY <2>1, <2>2 DEF Put, TableInv
  <2>4. UNCHANGED <<candidates, knowledge, vectors>>
    BY <1>5 DEF MergeTopology
  <2> QED
    BY <1>1, <1>c, <2>3, <2>4 DEF TableInv
<1>6. ASSUME NEW i \in Incidents, NEW status, UpsertCandidate(i, status),
             pc[i] \in InDiscovery, UNCHANGED <<revisions, topology, knowledge, vectors>>,
             status = "ACCEPTED" =>
                Covered(Current(i).candidate.path, Current(i).candidate.incidents)
      PROVE  TableInv'
  <2> DEFINE path == Current(i).candidate.path  found == Current(i).candidate.incidents
  <2>1. found \subseteq Learnable
    BY <1>6, HeadIsSound
  <2>2. candidates' = Put(candidates, path, [status |-> status, incidents |-> found])
    BY <1>6 DEF UpsertCandidate
  <2> HIDE DEF path, found
  <2>3. /\ DOMAIN candidates' = DOMAIN candidates \union {path}
        /\ candidates'[path] = [status |-> status, incidents |-> found]
        /\ \A q \in DOMAIN candidates : q # path => candidates'[q] = candidates[q]
    BY <2>2 DEF Put
  <2>4. ASSUME NEW q \in DOMAIN candidates'
        PROVE  /\ candidates'[q].incidents \subseteq Learnable'
               /\ candidates'[q].status = "ACCEPTED"
                    => Covered(q, candidates[q].incidents)'
    <3>1. CASE q = path
      <4>1. candidates'[q].incidents = found /\ candidates'[q].status = status
        BY <2>3, <3>1
      <4>2. status = "ACCEPTED" => Covered(path, found)
        BY <1>6 DEF path, found
      <4> QED
        BY <1>1, <1>6, <2>1, <3>1, <4>1, <4>2 DEF Covered
    <3>2. CASE q # path
      <4>1. q \in DOMAIN candidates /\ candidates'[q] = candidates[q]
        BY <2>3, <3>2
      <4> QED
        BY <1>2, <1>6, <4>1 DEF Covered
    <3> QED
      BY <3>1, <3>2
  <2>5. \A t \in DOMAIN topology' : topology'[t].incidents \subseteq Learnable'
    BY <1>1, <1>6 DEF TableInv
  <2>6. knowledge' \union vectors' \subseteq Learnable'
    BY <1>1, <1>6 DEF TableInv
  <2> QED
    BY <2>4, <2>5, <2>6 DEF TableInv
<1>7. ASSUME NEW i \in Incidents,
             UpsertDiscovered(i) \/ UpsertValidating(i) \/ UpsertOutcome(i)
      PROVE  TableInv'
  <2>1. CASE UpsertDiscovered(i)
    BY <1>6, <2>1 DEF UpsertDiscovered, InDiscovery
  <2>2. CASE UpsertValidating(i)
    BY <1>6, <2>2 DEF UpsertValidating, InDiscovery
  <2>3. CASE UpsertOutcome(i)
    <3>1. /\ pc[i] = "outcome" /\ UNCHANGED <<revisions, topology, knowledge, vectors>>
          /\ UpsertCandidate(i, IF read[i].accepted THEN "ACCEPTED" ELSE "REJECTED")
      BY <2>3 DEF UpsertOutcome
    <3>2. read[i].accepted
            => Covered(Current(i).candidate.path, Current(i).candidate.incidents)
      BY <3>1 DEF ReadInv, Decided
    <3> QED
      BY <1>6, <3>1, <3>2 DEF InDiscovery
  <2> QED
    BY <1>7, <2>1, <2>2, <2>3
<1>8. ASSUME NEW i \in Incidents, StoreKnowledge(i) \/ IndexVector(i) PROVE TableInv'
  <2>1. /\ knowledge' \union vectors' \subseteq knowledge \union vectors \union {i}
        /\ UNCHANGED <<topology, candidates>> /\ pc[i] \notin {"idle", "skipped"}
    BY <1>8 DEF StoreKnowledge, IndexVector
  <2>2. i \in Learnable
    BY <2>1, RunningLearns
  <2>3. \A t \in DOMAIN topology' : topology'[t].incidents \subseteq Learnable'
    BY <1>1, <2>1 DEF TableInv
  <2> QED
    BY <1>1, <1>c, <2>1, <2>2, <2>3 DEF TableInv
<1>9. ASSUME NEW i \in Incidents, Step(i), ~MergeTopology(i), ~UpsertDiscovered(i),
             ~UpsertValidating(i), ~UpsertOutcome(i), ~StoreKnowledge(i), ~IndexVector(i)
      PROVE  UNCHANGED <<topology, candidates, knowledge, vectors>>
  BY <1>9 DEF Step, Learn, FindTopology, ValidateProposal, MergeProposal, RecordSupport,
     Discover, JudgeCandidate, AcceptCandidate, LearnFails, database
<1>10. CASE Restart
  BY <1>4, <1>10 DEF Restart
<1>11. ASSUME NEW p, NEW s, SetCausalPatternStatus(p, s) PROVE TableInv'
  BY <1>4, <1>11 DEF SetCausalPatternStatus, Revise
<1>12. ASSUME NEW p, NEW v, RollbackCausalPattern(p, v) PROVE TableInv'
  BY <1>4, <1>12 DEF RollbackCausalPattern, Revise
<1> QED
  BY <1>4, <1>5, <1>7, <1>8, <1>9, <1>10, <1>11, <1>12 DEF Next

\* The invariant holds of a server that starts.
LEMMA InvInit == Init => IInv
<1> SUFFICES ASSUME Init PROVE IInv
  OBVIOUS
<1>1. PICK s \in Servers :
          /\ seeds = s.seeds /\ resolved = s.history
          /\ pc = [i \in Incidents |-> IF i \in s.arriving THEN "idle" ELSE "skipped"]
  BY DEF Init
<1>2. /\ patterns = [p \in seeds |-> Seeded(p)]
      /\ revisions = [p \in seeds |-> [v \in {1} |-> Seeded(p)]]
      /\ support = {} /\ topology = <<>> /\ candidates = <<>>
      /\ knowledge = {} /\ vectors = {}
      /\ read = [i \in Incidents |-> NothingRead]
      /\ ops = 0 /\ faults = 0
  BY DEF Init
<1>3. PatternInv
  <2>1. \A p : IsRow(Seeded(p), Learnable) /\ Seeded(p).version = 1
    BY DEF Seeded, IsRow, Statuses
  <2> QED
    BY <1>2, <2>1 DEF PatternInv
<1>4. TaskInv
  BY <1>1, <1>2, ServersAssumption
     DEF TaskInv, Progress, Steps, AfterTopology, AfterSupport, InDiscovery
<1>5. ReadInv
  BY <1>1, <1>2, NothingIsRead DEF ReadInv, Decided, InDiscovery
<1>6. TableInv
  BY <1>2, EmptyTable DEF TableInv
<1> QED
  BY <1>3, <1>4, <1>5, <1>6 DEF IInv

\* The inductive invariant: what the store of patterns keeps, what Learn has
\* behind it and holds at each of its steps, and what the tables say.
THEOREM InvariantCorrect == Spec => []IInv
<1>1. ASSUME IInv, [Next]_vars PROVE IInv'
  <2>1. CASE Next
    BY <1>1, <2>1, PatternStep, TaskStep, ReadStep, TableStep DEF IInv
  <2>2. CASE UNCHANGED vars
    <3>1. PatternInv'
      BY <1>1, <2>2 DEF vars, IInv, PatternInv, Learnable
    <3>2. TaskInv'
      BY <1>1, <2>2 DEF vars, IInv, TaskInv, Progress, TopologyStored, Supported, Covered
    <3>3. ReadInv'
      BY <1>1, <2>2 DEF vars, IInv, ReadInv, Decided, Current, Covered, Learnable
    <3>4. TableInv'
      BY <1>1, <2>2 DEF vars, IInv, TableInv, Covered, Learnable
    <3> QED
      BY <3>1, <3>2, <3>3, <3>4 DEF IInv
  <2> QED
    BY <1>1, <2>1, <2>2
<1> QED
  BY <1>1, InvInit, PTL DEF Spec

-----------------------------------------------------------------------------
(* The properties *)

\* Nothing is learned from an incident of an evaluation or a benchmark, whatever
\* the facts of the incidents (Learn's gates, excludedIncident of the graph
\* builder, ListResolvedIncidents).
THEOREM EvaluationIsKeptOut == Spec => []EvaluationStaysOut
<1>1. IInv => EvaluationStaysOut
  <2> SUFFICES ASSUME IInv PROVE EvaluationStaysOut
    OBVIOUS
  <2>1. \A i \in Learnable : "production" \in Facts[i].gates
    BY DEF Learnable
  <2>2. knowledge \union vectors \subseteq Learnable
    BY DEF IInv, TableInv
  <2>3. \A t \in DOMAIN topology : topology[t].incidents \subseteq Learnable
    BY DEF IInv, TableInv
  <2>4. \A path \in DOMAIN candidates : candidates[path].incidents \subseteq Learnable
    BY DEF IInv, TableInv
  <2>5. \A p \in DOMAIN revisions : \A v \in DOMAIN revisions[p] :
            revisions[p][v].incidents \subseteq Learnable
    BY DEF IInv, PatternInv, IsRow
  <2> QED
    BY <2>1, <2>2, <2>3, <2>4, <2>5 DEF EvaluationStaysOut
<1> QED
  BY <1>1, InvariantCorrect, PTL

\* What is shown as learned is stored, wherever a call fails or the server stops
\* between two writes (the order of the writes of Learn and of Engine.Discover).
THEOREM LearnedIsStored == Spec => []KnowledgeIsComplete
<1>1. IInv => KnowledgeIsComplete
  BY DEF IInv, TaskInv, TableInv, Learnable, Progress, KnowledgeIsComplete
<1> QED
  BY <1>1, InvariantCorrect, PTL

\* No call rewrites or removes a revision, and no version goes back
\* (PostgresCausalKnowledgeStore.Merge, SetCausalPatternStatus,
\* RollbackCausalPattern, SeedCausalPatterns).
THEOREM RevisionsStay == Spec => RevisionsAreKept
<1> DEFINE Kept == \A p \in DOMAIN patterns :
              /\ patterns'[p].version >= patterns[p].version
              /\ patterns'[p].version \in DOMAIN revisions'[p]
              /\ \A v \in DOMAIN revisions[p] :
                    v \in DOMAIN revisions'[p] /\ revisions'[p][v] = revisions[p][v]
<1>1. IInv /\ [Next]_vars => [Kept]_vars
  <2> SUFFICES ASSUME IInv, Next PROVE Kept
    OBVIOUS
  <2>1. PatternInv' /\ RevisionsGrow
    BY PatternStep DEF IInv
  <2> QED
    BY <2>1 DEF PatternInv, RevisionsGrow
<1> QED
  BY <1>1, InvariantCorrect, PTL DEF Spec, RevisionsAreKept

\* A learned pattern is activated by three resolved incidents or by an operator,
\* whatever the order of merges, retries, restarts and mining runs (Merge,
\* eligibleForActivation, validCandidate).
THEOREM ActivationNeedsIncidents == Spec => ActivationIsEarned
<1> DEFINE Earned == \A p \in (DOMAIN patterns') \ seeds :
              /\ patterns'[p].status = "active" /\ ops' = ops
              /\ p \in DOMAIN patterns => patterns[p].status # "active"
              => /\ Cardinality(patterns'[p].incidents) >= 3
                 /\ patterns'[p].incidents \subseteq Range(resolved)
<1>1. IInv /\ [Next]_vars => [Earned]_vars
  <2> SUFFICES ASSUME IInv, Next PROVE Earned
    OBVIOUS
  <2> SUFFICES ASSUME NEW p \in (DOMAIN patterns') \ seeds,
                      patterns'[p].status = "active", ops' = ops,
                      p \in DOMAIN patterns => patterns[p].status # "active"
               PROVE  /\ Cardinality(patterns'[p].incidents) >= 3
                      /\ patterns'[p].incidents \subseteq Range(resolved)
    OBVIOUS
  <2> USE DEF IInv
  <2>1. Learnable \subseteq Learnable' /\ Learnable \subseteq Range(resolved)
    BY LearnableGrows DEF Learnable
  <2>2. ASSUME NEW q, NEW row, IsRow(row, Learnable), row.version = 1, MergePattern(q, row),
               row.status = "active" => Cardinality(row.incidents) >= 3
        PROVE  /\ Cardinality(patterns'[p].incidents) >= 3
               /\ patterns'[p].incidents \subseteq Range(resolved)
    <3>1. /\ DOMAIN patterns' = DOMAIN patterns \union {q}
          /\ \A r \in DOMAIN patterns : r # q => patterns'[r] = patterns[r]
          /\ patterns'[q].status = "active" =>
                patterns'[q] = row \/ Cardinality(patterns'[q].incidents) >= 3
          /\ patterns'[q].incidents \subseteq Learnable
      BY <2>1, <2>2, MergeKeeps
    <3>2. p = q
      BY <3>1
    <3> QED
      BY <2>1, <2>2, <3>1, <3>2
  <2>3. ASSUME NEW i \in Incidents, MergeProposal(i) PROVE
               /\ Cardinality(patterns'[p].incidents) >= 3
               /\ patterns'[p].incidents \subseteq Range(resolved)
    <3>1. PICK q \in Facts[i].proposal : MergePattern(q, Observation(i, "candidate"))
      BY <2>3 DEF MergeProposal
    <3>2. i \in Learnable
      BY <2>3, RunningLearns DEF MergeProposal
    <3> QED
      BY <2>2, <3>1, <3>2, ObservationIsRow
  <2>4. ASSUME NEW i \in Incidents, AcceptCandidate(i) PROVE
               /\ Cardinality(patterns'[p].incidents) >= 3
               /\ patterns'[p].incidents \subseteq Range(resolved)
    <3>1. pc[i] = "accept"
          /\ MergePattern(Current(i).candidate.path, Accepted(Current(i).candidate))
      BY <2>4 DEF AcceptCandidate
    <3> QED
      BY <2>2, <3>1, AcceptedIsRow
  <2>5. ASSUME NEW i \in Incidents, RecordSupport(i) PROVE FALSE
    BY <2>5, SupportKeeps
  <2>6. ASSUME NEW i \in Incidents, Step(i), ~MergeProposal(i), ~AcceptCandidate(i),
               ~RecordSupport(i)
        PROVE  FALSE
    <3>1. UNCHANGED patterns
      BY <2>6 DEF Step, Learn, FindTopology, MergeTopology, ValidateProposal, Discover,
         UpsertDiscovered, UpsertValidating, JudgeCandidate, UpsertOutcome, StoreKnowledge,
         IndexVector, LearnFails, database
    <3> QED
      BY <3>1
  <2>7. CASE Restart
    <3>1. SeedCausalPatterns /\ Learnable' = Learnable
      BY <2>7 DEF Restart, Learnable
    <3> QED
      BY <3>1, SeedKeeps
  <2>8. ~Operated
    BY DEF Operated, TaskInv
  <2> QED
    BY <2>3, <2>4, <2>5, <2>6, <2>7, <2>8 DEF Next, SetCausalPatternStatus,
       RollbackCausalPattern
<1> QED
  BY <1>1, InvariantCorrect, PTL DEF Spec, ActivationIsEarned
=============================================================================
