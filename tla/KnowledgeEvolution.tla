------------------------- MODULE KnowledgeEvolution -------------------------
(***************************************************************************)
(* What the server learns from resolved incidents: topology patterns,      *)
(* causal patterns with their revisions, mined candidates and incident     *)
(* knowledge (internal/service/causal_learning.go, internal/causal,        *)
(* internal/topology, internal/store/knowledge.go, knowledge_evolution.go).*)
(*                                                                         *)
(* CausalLearner.Learn runs in the goroutine of each workflow that ends    *)
(* RESOLVED: it is a task per incident, a step per call to the database.   *)
(* Operators set the status of patterns and roll them back meanwhile, and  *)
(* a restart seeds the pattern file again.  A pattern is named by its      *)
(* causal path, which stands for all that PatternID hashes (see            *)
(* CausalMining): a path learned and the same path mined from the same     *)
(* evidence are one pattern.                                               *)
(***************************************************************************)
EXTENDS CausalMining

CONSTANTS
    Incidents,   \* incidents by id
    Facts,       \* what is known of each: see Fact
    Servers,     \* pattern file, history and new incidents a server may have
    MaxOps,      \* bound: calls of operators
    MaxFaults    \* bound: failed calls and restarts

\* The gates of Learn, each of which an incident passes or not.
Gates == {"namespace", "production", "resolved", "confident", "approved", "verified",
          "three checks", "two sources", "diagnosed"}

\* proposal is {} or the causal pattern ProposalFromDraft makes; grounded says
\* that it passes the checks of the validator; topology is {} or the pattern
\* with a dependency edge that Normalize makes of the incident's graph; mined is
\* {} or the path of the ledger's selected hypothesis, and others the names that
\* the incident's causal graph has besides it.
Fact == [gates : SUBSET Gates, confidence : 0..100, proposal : SUBSET Seq(STRING),
         grounded : BOOLEAN, topology : SUBSET STRING, mined : SUBSET Seq(STRING),
         others : SUBSET STRING]

AtMostOne(S) == \A a, b \in S : a = b

ASSUME BoundsAssumption == MaxOps \in Nat /\ MaxFaults \in Nat
ASSUME FactsAssumption == \A i \in Incidents :
    /\ Facts[i].gates \subseteq Gates /\ Facts[i].confidence \in 0..100
    /\ AtMostOne(Facts[i].proposal) /\ AtMostOne(Facts[i].topology)
    /\ AtMostOne(Facts[i].mined)
ASSUME ServersAssumption == \A s \in Servers :
    s.history \in Seq(Incidents) /\ s.arriving \subseteq Incidents

VARIABLES
    seeds,      \* the pattern file of this installation: names of builtin patterns
    patterns,   \* causal_patterns: the rows by name
    revisions,  \* causal_pattern_revisions: by name, then by revision
    support,    \* the incident_support events of causal_pattern_events
    topology,   \* topology_patterns: by name
    candidates, \* causal_pattern_candidates: by path
    knowledge,  \* incidents in incident_knowledge
    vectors,    \* incidents in the vector store
    resolved,   \* stored incidents with status RESOLVED, the newest first
    pc,         \* the step Learn takes next for an incident
    read,       \* what Learn holds: the topology pattern it found, or its batch
    ops, faults

vars == <<seeds, patterns, revisions, support, topology, candidates, knowledge, vectors,
          resolved, pc, read, ops, faults>>

database == <<patterns, revisions, support, topology, candidates, knowledge, vectors>>

Statuses == {"candidate", "validating", "active", "rejected", "disabled"}

Names == UNION ({Facts[i].proposal \union Facts[i].mined : i \in Incidents}
                \union {s.seeds : s \in Servers})

\* total is the confidence times the number of source incidents: the average
\* Merge takes stays exact.
Pattern == [status : Statuses, version : Nat \ {0}, incidents : SUBSET Incidents, total : Nat,
            count : Nat]

NothingRead == [pattern |-> [frequency |-> 0, incidents |-> {}], batch |-> <<>>,
                accepted |-> FALSE]

Steps == {"idle", "skipped", "topology", "topology write", "validate", "merge", "support",
          "discover", "discovered", "validating", "judge", "accept", "outcome", "knowledge",
          "vector", "done", "failed", "stopped"}

\* A row of a table set or inserted.
Put(table, key, value) ==
    [k \in DOMAIN table \union {key} |-> IF k = key THEN value ELSE table[k]]

Fault == faults < MaxFaults /\ faults' = faults + 1

Goto(i, step) == pc' = [pc EXCEPT ![i] = step]

Ends(i, step) == Goto(i, step) /\ read' = [read EXCEPT ![i] = NothingRead]
-----------------------------------------------------------------------------
(* The causal pattern store *)

\* SeedCausalPatterns: every column of the file's rows, the status too, is
\* written over the stored one; only the version never decreases.
Seeded(p) == [status |-> "active", version |-> 1, incidents |-> {}, total |-> 0, count |-> 0]

SeedRow(p) ==
    IF p \in DOMAIN patterns THEN [Seeded(p) EXCEPT !.version = Max({1, patterns[p].version})]
    ELSE Seeded(p)

SeedRevisions(p) ==
    IF p \in DOMAIN revisions /\ 1 \in DOMAIN revisions[p] THEN revisions[p]
    ELSE [v \in {1} |-> Seeded(p)]

SeedCausalPatterns ==
    /\ patterns' = [p \in DOMAIN patterns \union seeds |->
                        IF p \in seeds THEN SeedRow(p) ELSE patterns[p]]
    /\ revisions' = [p \in DOMAIN patterns \union seeds |->
                        IF p \in seeds THEN SeedRevisions(p) ELSE revisions[p]]

\* Mutant: two incidents are enough.
EligibleForActivation_Two(row) ==
    Cardinality(row.incidents) >= 2 /\ row.total >= 80 * Cardinality(row.incidents)

\* eligibleForActivation.  Its other two gates hold for every learned pattern:
\* ProposalFromDraft returns none with less than two sources of evidence, and
\* nothing gives a learned pattern contradicting evidence.
EligibleForActivation(row) ==
    Cardinality(row.incidents) >= 3 /\ row.total >= 80 * Cardinality(row.incidents)

\* Merge of a stored row with an observation of the same pattern: only its new
\* incidents weigh in the average.
MergeRows(left, right) ==
    LET new    == Cardinality(right.incidents \ left.incidents)
        merged == [left EXCEPT
                    !.incidents = @ \union right.incidents,
                    !.total = @ + (right.total \div Cardinality(right.incidents)) * new,
                    !.count = Cardinality(left.incidents \union right.incidents),
                    !.version = Max({left.version, right.version}) + 1]
    IN  [merged EXCEPT !.status = IF EligibleForActivation(merged) THEN "active"
                                  ELSE IF @ = "disabled" THEN @ ELSE "validating"]

\* PostgresCausalKnowledgeStore.Merge: one transaction under the advisory lock
\* of the pattern's name.  A first observation is stored with its own status.
MergedRow(p, row) == IF p \in DOMAIN patterns THEN MergeRows(patterns[p], row) ELSE row

MergePattern(p, row) ==
    LET merged == MergedRow(p, row)
    IN  /\ patterns' = Put(patterns, p, merged)
        /\ revisions' = Put(revisions, p,
              Put(IF p \in DOMAIN revisions THEN revisions[p] ELSE <<>>, merged.version, merged))

\* PostgresCausalKnowledgeStore.List scans 18 columns into 17 variables: it
\* fails as soon as there is a row to scan.
ListFails == DOMAIN patterns # {}
-----------------------------------------------------------------------------
(* Learn *)

Observation(i, status) ==
    [status |-> status, version |-> 1, incidents |-> {i}, total |-> Facts[i].confidence,
     count |-> 1]

\* A workflow has stored its incident as RESOLVED and calls Learn: the gates
\* are checked before anything is read.
Learn(i) ==
    /\ pc[i] = "idle"
    /\ resolved' = <<i>> \o resolved
    /\ Goto(i, IF Facts[i].gates = Gates THEN "topology" ELSE "skipped")
    /\ UNCHANGED <<seeds, database, read, ops, faults>>

\* topologyextractor.Extract refuses an incident without a dependency edge, and
\* Learn returns its error.  Merge starts by finding the stored pattern; when that
\* fails it goes on as if there were none.
FindTopology(i) ==
    /\ pc[i] = "topology"
    /\ \/ /\ Facts[i].topology = {}
          /\ Ends(i, "failed")
          /\ UNCHANGED faults
       \/ \E t \in Facts[i].topology :
             /\ \/ /\ read' = [read EXCEPT ![i].pattern =
                          IF t \in DOMAIN topology THEN topology[t] ELSE NothingRead.pattern]
                   /\ UNCHANGED faults
                \/ Fault /\ read' = [read EXCEPT ![i].pattern = NothingRead.pattern]
             /\ Goto(i, "topology write")
    /\ UNCHANGED <<seeds, database, resolved, ops>>

\* topologyknowledge.Merge: the count of the pattern that was found, plus one
\* when the incident is new to it, and at least the number of its incidents.
MergedFrequency(old, i) ==
    IF old = NothingRead.pattern THEN 1
    ELSE Max({old.frequency + Cardinality({i} \ old.incidents),
              Cardinality(old.incidents \union {i})})

\* The upsert writes that count and joins the incidents with those stored.
MergeTopology(i) ==
    /\ pc[i] = "topology write"
    /\ \E t \in Facts[i].topology :
          LET stored == IF t \in DOMAIN topology THEN topology[t].incidents ELSE {}
              old    == read[i].pattern
          IN  topology' = Put(topology, t,
                [frequency |-> MergedFrequency(old, i),
                 incidents |-> stored \union old.incidents \union {i}])
    /\ read' = [read EXCEPT ![i] = NothingRead]
    /\ Goto(i, "validate")
    /\ UNCHANGED <<seeds, patterns, revisions, support, candidates, knowledge, vectors,
                   resolved, ops, faults>>

\* Mutant: the error of List is taken for a refusal, as discovery does.
ValidateProposal_IgnoresError(i) ==
    /\ pc[i] = "validate"
    /\ Goto(i, IF Facts[i].proposal = {} \/ ~Facts[i].grounded \/ ListFails THEN "discover"
               ELSE "merge")
    /\ UNCHANGED <<seeds, database, resolved, read, ops, faults>>

\* Validator.Validate lists the stored patterns only for a grounded proposal.
ValidateProposal(i) ==
    /\ pc[i] = "validate"
    /\ \/ /\ Facts[i].proposal # {} /\ Facts[i].grounded
          /\ IF ListFails THEN Ends(i, "failed") ELSE Goto(i, "merge") /\ UNCHANGED read
       \/ /\ Facts[i].proposal = {} \/ ~Facts[i].grounded
          /\ Goto(i, "discover") /\ UNCHANGED read
    /\ UNCHANGED <<seeds, database, resolved, ops, faults>>

MergeProposal(i) ==
    /\ pc[i] = "merge"
    /\ \E p \in Facts[i].proposal : MergePattern(p, Observation(i, "candidate"))
    /\ Goto(i, "support")
    /\ UNCHANGED <<seeds, support, topology, candidates, knowledge, vectors, resolved, read,
                   ops, faults>>

\* RecordCausalPatternEvent: an incident supports a pattern once, and the
\* count becomes that of the events.
RecordSupport(i) ==
    /\ pc[i] = "support"
    /\ \E p \in Facts[i].proposal :
          /\ support' = support \union {<<p, i>>}
          /\ patterns' = [patterns EXCEPT ![p].count =
                              Cardinality({j \in Incidents : <<p, j>> \in support'})]
    /\ Goto(i, "discover")
    /\ UNCHANGED <<seeds, revisions, topology, candidates, knowledge, vectors, resolved, read,
                   ops, faults>>
-----------------------------------------------------------------------------
(* Discovery *)

\* What BuildIncidentCausalGraph reads of a stored incident.
Resolved(i) ==
    [status |-> "RESOLVED", evaluation |-> "production" \notin Facts[i].gates,
     verified |-> "verified" \in Facts[i].gates, sources |-> {"metric", "event"},
     others |-> Facts[i].others,
     hypothesis |-> {[cause |-> Head(path), path |-> path, contradiction |-> 0,
                      confidence |-> Facts[i].confidence] : path \in Facts[i].mined}]

\* ListResolvedIncidents: the positions in resolved, newest first, of incidents in
\* the namespaces the learner may learn from.
History == {k \in DOMAIN resolved : "namespace" \in Facts[resolved[k]].gates}

\* The graphs of the incidents that have one.
Graphs == [k \in {k \in History : Discoverable(Resolved(resolved[k]))} |->
              Graph(resolved[k], Resolved(resolved[k]))]

\* The candidates by falling confidence.  PatternID, a hash, breaks the ties.
BestFirst(found) ==
    {batch \in SeqOf(found, Cardinality(found)) :
        /\ Range(batch) = found /\ Len(batch) = Cardinality(found)
        /\ \A a, b \in DOMAIN batch : a < b => batch[a].confidence >= batch[b].confidence}

\* Engine.Discover mines once and walks through the candidates, best first.
Discover(i) ==
    /\ pc[i] = "discover"
    /\ \E batch \in BestFirst(Mine(Graphs)) :
          /\ read' = [read EXCEPT ![i].batch = [k \in DOMAIN batch |->
                [candidate |-> batch[k], supported |-> SupportedWell(Graphs, batch[k])]]]
          /\ Goto(i, IF batch = <<>> THEN "knowledge" ELSE "discovered")
    /\ UNCHANGED <<seeds, database, resolved, ops, faults>>

Current(i) == Head(read[i].batch)

\* Every Upsert replaces the whole row of the candidate.
UpsertCandidate(i, status) ==
    candidates' = Put(candidates, Current(i).candidate.path,
                      [status |-> status, incidents |-> Current(i).candidate.incidents])

UpsertDiscovered(i) ==
    /\ pc[i] = "discovered"
    /\ UpsertCandidate(i, "DISCOVERED")
    /\ Goto(i, "validating")
    /\ UNCHANGED <<seeds, patterns, revisions, support, topology, knowledge, vectors, resolved,
                   read, ops, faults>>

UpsertValidating(i) ==
    /\ pc[i] = "validating"
    /\ UpsertCandidate(i, "VALIDATING")
    /\ Goto(i, "judge")
    /\ UNCHANGED <<seeds, patterns, revisions, support, topology, knowledge, vectors, resolved,
                   read, ops, faults>>

\* validCandidate takes a failing List for a refusal.
JudgeCandidate(i) ==
    /\ pc[i] = "judge"
    /\ LET accepted == Current(i).supported /\ ~ListFails
       IN  \/ /\ read' = [read EXCEPT ![i].accepted = accepted]
              /\ Goto(i, IF accepted THEN "accept" ELSE "outcome")
              /\ UNCHANGED faults
           \/ /\ accepted /\ Fault
              /\ read' = [read EXCEPT ![i].accepted = FALSE]
              /\ Goto(i, "outcome")
    /\ UNCHANGED <<seeds, database, resolved, ops>>

\* The pattern of an accepted candidate names all of its incidents.
Accepted(found) ==
    [status |-> "active", version |-> 1, incidents |-> found.incidents,
     total |-> found.confidence * Cardinality(found.incidents),
     count |-> Cardinality(found.incidents)]

\* mergeAcceptedPattern, before the candidate is stored as accepted.
AcceptCandidate(i) ==
    /\ pc[i] = "accept"
    /\ LET found == Current(i).candidate IN MergePattern(found.path, Accepted(found))
    /\ Goto(i, "outcome")
    /\ UNCHANGED <<seeds, support, topology, candidates, knowledge, vectors, resolved, read,
                   ops, faults>>

UpsertOutcome(i) ==
    /\ pc[i] = "outcome"
    /\ UpsertCandidate(i, IF read[i].accepted THEN "ACCEPTED" ELSE "REJECTED")
    /\ read' = [read EXCEPT ![i].batch = Tail(@), ![i].accepted = FALSE]
    /\ Goto(i, IF Len(read[i].batch) = 1 THEN "knowledge" ELSE "discovered")
    /\ UNCHANGED <<seeds, patterns, revisions, support, topology, knowledge, vectors, resolved,
                   ops, faults>>
-----------------------------------------------------------------------------
(* The rest of Learn, its failures, and the operators *)

StoreKnowledge(i) ==
    /\ pc[i] = "knowledge"
    /\ knowledge' = knowledge \union {i}
    /\ Goto(i, "vector")
    /\ UNCHANGED <<seeds, patterns, revisions, support, topology, candidates, vectors, resolved,
                   read, ops, faults>>

\* The embedding and the upsert of its vector; the managed pattern store ends
\* Learn here.
IndexVector(i) ==
    /\ pc[i] = "vector"
    /\ vectors' = vectors \union {i}
    /\ Ends(i, "done")
    /\ UNCHANGED <<seeds, patterns, revisions, support, topology, candidates, knowledge,
                   resolved, ops, faults>>

Running(i) == pc[i] \notin {"idle", "skipped", "done", "failed", "stopped"}

\* Any other call may fail: Learn returns the error, which is audited and forgotten.
LearnFails(i) ==
    /\ Running(i) /\ pc[i] \notin {"topology", "judge"} /\ Fault
    /\ Ends(i, "failed")
    /\ UNCHANGED <<seeds, database, resolved, ops>>

\* The server stops and starts again: no Learn is resumed, the file is seeded.
Restart ==
    /\ Fault
    /\ pc' = [i \in Incidents |-> IF Running(i) THEN "stopped" ELSE pc[i]]
    /\ read' = [i \in Incidents |-> NothingRead]
    /\ SeedCausalPatterns
    /\ UNCHANGED <<seeds, support, topology, candidates, knowledge, vectors, resolved, ops>>

Operated == ops < MaxOps /\ ops' = ops + 1

Revise(p, row) ==
    /\ patterns' = [patterns EXCEPT ![p] = row]
    /\ revisions' = [revisions EXCEPT ![p] = Put(@, row.version, row)]
    /\ UNCHANGED <<seeds, support, topology, candidates, knowledge, vectors, resolved, pc, read,
                   faults>>

SetCausalPatternStatus(p, status) ==
    /\ Operated /\ p \in DOMAIN patterns /\ status \in Statuses \ {"candidate"}
    /\ Revise(p, [patterns[p] EXCEPT !.status = status, !.version = @ + 1])

\* Mutant: the old revision becomes current again under its old number.
RolledBack_ToItsVersion(p, revision) == revisions[p][revision]

RolledBack(p, revision) == [revisions[p][revision] EXCEPT !.version = patterns[p].version + 1]

RollbackCausalPattern(p, revision) ==
    /\ Operated /\ p \in DOMAIN patterns /\ revision \in DOMAIN revisions[p]
    /\ Revise(p, RolledBack(p, revision))

Init ==
    /\ \E s \in Servers :
          /\ seeds = s.seeds /\ resolved = s.history
          /\ pc = [i \in Incidents |-> IF i \in s.arriving THEN "idle" ELSE "skipped"]
    /\ patterns = [p \in seeds |-> Seeded(p)]
    /\ revisions = [p \in seeds |-> [v \in {1} |-> Seeded(p)]]
    /\ support = {} /\ topology = <<>> /\ candidates = <<>>
    /\ knowledge = {} /\ vectors = {}
    /\ read = [i \in Incidents |-> NothingRead]
    /\ ops = 0 /\ faults = 0

Step(i) ==
    \/ Learn(i) \/ FindTopology(i) \/ MergeTopology(i)
    \/ ValidateProposal(i) \/ MergeProposal(i) \/ RecordSupport(i)
    \/ Discover(i) \/ UpsertDiscovered(i) \/ UpsertValidating(i)
    \/ JudgeCandidate(i) \/ AcceptCandidate(i) \/ UpsertOutcome(i)
    \/ StoreKnowledge(i) \/ IndexVector(i) \/ LearnFails(i)

Next ==
    \/ \E i \in Incidents : Step(i)
    \/ Restart
    \/ \E p \in DOMAIN patterns, status \in Statuses : SetCausalPatternStatus(p, status)
    \/ \E p \in DOMAIN patterns : \E v \in DOMAIN revisions[p] : RollbackCausalPattern(p, v)

Spec == Init /\ [][Next]_vars
-----------------------------------------------------------------------------
(* Properties *)

\* Incidents of an evaluation or a benchmark never become knowledge, on none
\* of the paths that lead there: Learn's gates, the graph builder of discovery
\* and the history it reads.
EvaluationStaysOut ==
    \A i \in Incidents : "production" \notin Facts[i].gates =>
        /\ i \notin knowledge \union vectors
        /\ \A t \in DOMAIN topology : i \notin topology[t].incidents
        /\ \A path \in DOMAIN candidates : i \notin candidates[path].incidents
        /\ \A p \in DOMAIN revisions : \A v \in DOMAIN revisions[p] :
              i \notin revisions[p][v].incidents

\* README: a learned pattern is active only with three independent resolved
\* incidents.  No merge, retry, restart or mining run activates one with fewer:
\* only an operator can.
ActivationIsEarned ==
    [][\A p \in (DOMAIN patterns') \ seeds :
          /\ patterns'[p].status = "active" /\ ops' = ops
          /\ p \in DOMAIN patterns => patterns[p].status # "active"
          => /\ Cardinality(patterns'[p].incidents) >= 3
             /\ patterns'[p].incidents \subseteq Range(resolved)]_vars

\* Rollback relies on an audit that nothing rewrites: a stored revision keeps
\* its contents, versions never go back, and a row's version has a revision.
RevisionsAreKept ==
    [][\A p \in DOMAIN patterns :
          /\ patterns'[p].version >= patterns[p].version
          /\ patterns'[p].version \in DOMAIN revisions'[p]
          /\ \A v \in DOMAIN revisions[p] :
                v \in DOMAIN revisions'[p] /\ revisions'[p][v] = revisions[p][v]]_vars

\* Some revision of a pattern names the incidents, wherever the row is now.
Covered(p, incidents) ==
    /\ p \in DOMAIN revisions
    /\ \E v \in DOMAIN revisions[p] : incidents \subseteq revisions[p][v].incidents

TopologyStored(i) ==
    \A t \in Facts[i].topology : t \in DOMAIN topology /\ i \in topology[t].incidents

Supported(i) ==
    \A p \in Facts[i].proposal : Facts[i].grounded => <<p, i>> \in support /\ Covered(p, {i})

\* Wherever the server stops between two writes, what is shown as learned is
\* stored.  An incident enters incident_knowledge only after everything Learn
\* derives from it: its topology, and its support of a valid causal pattern, which
\* some revision of the pattern names.  A candidate is shown to agents as accepted
\* only once its pattern is stored with all of its incidents.
KnowledgeIsComplete ==
    /\ \A i \in knowledge : TopologyStored(i) /\ Supported(i)
    /\ \A path \in DOMAIN candidates :
          candidates[path].status = "ACCEPTED" => Covered(path, candidates[path].incidents)
-----------------------------------------------------------------------------
(* The inductive invariant *)

\* What may be learned from: resolved incidents outside of evaluations.
Learnable == {i \in Incidents : i \in Range(resolved) /\ "production" \in Facts[i].gates}

IsRow(row, known) ==
    /\ row = [status |-> row.status, version |-> row.version, incidents |-> row.incidents,
              total |-> row.total, count |-> row.count]
    /\ row.status \in Statuses /\ row.version \in Nat \ {0}
    /\ row.incidents \subseteq known

\* A row has its revisions, the first one and none that is newer than the row.
PatternInv ==
    /\ DOMAIN revisions = DOMAIN patterns
    /\ \A p \in DOMAIN patterns :
          /\ IsRow(patterns[p], Learnable)
          /\ {1, patterns[p].version} \subseteq DOMAIN revisions[p]
          /\ \A v \in DOMAIN revisions[p] :
                v \in 1..patterns[p].version /\ IsRow(revisions[p][v], Learnable)

AfterTopology == {"validate", "merge", "support"}

InDiscovery == {"discovered", "validating", "judge", "accept", "outcome"}

AfterSupport == {"discover"} \union InDiscovery \union {"knowledge", "vector", "done"}

\* What Learn has behind it at each of its steps.
Progress(i) ==
    /\ pc[i] \notin {"idle", "skipped"} => i \in Range(resolved) /\ Facts[i].gates = Gates
    /\ pc[i] \in AfterTopology \union AfterSupport \/ i \in knowledge => TopologyStored(i)
    /\ pc[i] = "support" => \A p \in Facts[i].proposal : Covered(p, {i})
    /\ pc[i] \in AfterSupport \/ i \in knowledge => Supported(i)

TaskInv ==
    /\ resolved \in Seq(Incidents) /\ ops \in Nat
    /\ pc \in [Incidents -> Steps]
    /\ \A i \in Incidents : Progress(i)

\* What Learn holds, and what was decided of the candidate at the head of it.
IsRead(held, known) ==
    /\ held = [pattern |-> held.pattern, batch |-> held.batch, accepted |-> held.accepted]
    /\ held.pattern.incidents \subseteq known
    /\ held.batch \in Seq(Range(held.batch))
    /\ \A k \in DOMAIN held.batch : LET found == held.batch[k] IN
          /\ found.candidate.incidents \subseteq known
          /\ found.supported => Cardinality(found.candidate.incidents) >= 3

Decided(i) ==
    /\ pc[i] \in InDiscovery => read[i].batch # <<>>
    /\ pc[i] = "accept" => Current(i).supported
    /\ pc[i] = "outcome" /\ read[i].accepted =>
          Covered(Current(i).candidate.path, Current(i).candidate.incidents)

ReadInv ==
    /\ DOMAIN read = Incidents
    /\ \A i \in Incidents : IsRead(read[i], Learnable) /\ Decided(i)

TableInv ==
    /\ \A t \in DOMAIN topology : topology[t].incidents \subseteq Learnable
    /\ \A path \in DOMAIN candidates :
          /\ candidates[path].incidents \subseteq Learnable
          /\ candidates[path].status = "ACCEPTED" => Covered(path, candidates[path].incidents)
    /\ knowledge \union vectors \subseteq Learnable

IInv == PatternInv /\ TaskInv /\ ReadInv /\ TableInv
=============================================================================
