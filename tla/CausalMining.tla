---------------------------- MODULE CausalMining ----------------------------
(***************************************************************************)
(* Mining of causal paths from resolved incidents                          *)
(* (internal/causal/discovery: graph_builder.go, miner.go, scorer.go).     *)
(*                                                                         *)
(* A graph is what BuildIncidentCausalGraph makes of one incident: the     *)
(* chain of causal names of its selected hypothesis, the confidence that   *)
(* all nodes and edges of the chain carry, the sources of the evidence     *)
(* attached to it, and the names of its other nodes (evidence, action,     *)
(* result, observed topology).  Confidences are whole percents, rounded    *)
(* down.  A batch of graphs is a function from positions, in the order of  *)
(* the incidents.                                                          *)
(*                                                                         *)
(* A candidate is named by its path.  PatternID hashes more: cluster,      *)
(* namespace, action and the observations of the pattern.  The incidents   *)
(* of an instance agree on those, so that the path tells patterns apart.   *)
(***************************************************************************)
EXTENDS Integers, Sequences, FiniteSets, SequencesExt, FiniteSetsExt

\* PatternMiner.MaxPathLength, the number of nodes of the longest mined path.
MaxPathLength == 6

\* normalizePath: a name that repeats its predecessor is dropped.
NormalizePath(path) ==
    FoldLeft(LAMBDA kept, name : IF kept # <<>> /\ Last(kept) = name THEN kept
                                 ELSE Append(kept, name), <<>>, path)

\* A cause that the hypothesis' path does not start with is put before it.
CausalPath(hypothesis) ==
    NormalizePath(IF hypothesis.cause = Head(hypothesis.path) THEN hypothesis.path
                  ELSE <<hypothesis.cause>> \o hypothesis.path)

\* Mutant: incidents of an evaluation give graphs too.
Discoverable_AnyEnvironment(in) ==
    /\ in.status = "RESOLVED" /\ in.verified
    /\ \A h \in in.hypothesis :
          /\ h.contradiction <= 10 /\ h.confidence >= 80
          /\ Len(h.path) > 0 /\ Len(CausalPath(h)) >= 2
    /\ in.hypothesis # {} /\ in.sources # {}

\* BuildIncidentCausalGraph's error returns.  An incident is a record with
\* `hypothesis`, the selected verified hypothesis ({} when there is none), and
\* `others`, the names its graph gets besides the chain.
Discoverable(in) ==
    /\ in.status = "RESOLVED" /\ ~in.evaluation /\ in.verified
    /\ \A h \in in.hypothesis :
          /\ h.contradiction <= 10 /\ h.confidence >= 80
          /\ Len(h.path) > 0 /\ Len(CausalPath(h)) >= 2
    /\ in.hypothesis # {} /\ in.sources # {}

\* Extractor.ExtractMany: incidents that give no graph are skipped.
Graph(id, in) ==
    LET h == CHOOSE h \in in.hypothesis : TRUE
    IN  [id |-> id, path |-> CausalPath(h), confidence |-> h.confidence, sources |-> in.sources,
         others |-> in.others]

\* causalPaths: the chains of 2 to MaxPathLength nodes along causal edges.
CausalPaths(graph) ==
    LET last == Len(graph.path)
        ends(a) == {b \in a + 1..last : b - a < MaxPathLength}
    IN  UNION {{SubSeq(graph.path, a, b) : b \in ends(a)} : a \in 1..last}

Support(graphs, path) == {k \in DOMAIN graphs : path \in CausalPaths(graphs[k])}

\* A graph counts against a path only when an earlier graph of the batch has
\* shown the path: the answer depends on the order of the batch.
Contradictions(graphs, path) ==
    {k \in DOMAIN graphs :
        /\ \E j \in Support(graphs, path) : j < k
        /\ path \notin CausalPaths(graphs[k])
        /\ path[1] \in Range(graphs[k].path) \union graphs[k].others}

\* A path inside a longer one with the same supporting incidents is dropped.
Redundant(graphs, path, all) ==
    \E other \in all :
        /\ Len(other) > Len(path)
        /\ Support(graphs, other) = Support(graphs, path)
        /\ \E k \in 0..(Len(other) - Len(path)) : SubSeq(other, k + 1, k + Len(path)) = path

MinedPaths(graphs) ==
    LET all == UNION {CausalPaths(graphs[k]) : k \in DOMAIN graphs}
    IN  {path \in all : ~Redundant(graphs, path, all)}

Percent(a, b) == (100 * a) \div b

AtMost100(x) == IF x > 100 THEN 100 ELSE x

\* ScoreCandidate: frequency against the most frequent path of the batch,
\* coverage of the batch, evidence confidence and consistency.
ScoreCandidate(frequency, contradictions, evidence, total, maxFrequency) ==
    LET contradicted == AtMost100(Percent(contradictions, frequency))
        score == 35 * Percent(frequency, maxFrequency) + 25 * Percent(frequency, total)
                 + 20 * evidence + 20 * (100 - contradicted) - 20 * contradicted
    IN  IF score < 0 THEN 0 ELSE AtMost100(score \div 100)

\* PatternMiner.Mine: the candidates of a batch of graphs.
Candidate(graphs, path, maxFrequency) ==
    LET support == Support(graphs, path)
        against == Contradictions(graphs, path)
    IN  [path |-> path, incidents |-> {graphs[k].id : k \in support},
         contradictions |-> {graphs[k].id : k \in against},
         confidence |-> ScoreCandidate(Cardinality(support), Cardinality(against),
                            SumFunction([k \in support |-> graphs[k].confidence])
                                \div Cardinality(support),
                            Cardinality(DOMAIN graphs), maxFrequency)]

Mine(graphs) ==
    LET paths == MinedPaths(graphs)
        maxFrequency == Max({1} \union {Cardinality(Support(graphs, path)) : path \in paths})
    IN  {Candidate(graphs, path, maxFrequency) : path \in paths}

\* validCandidate's own gates: three incidents, at most one contradiction for
\* ten supports, the path and two sources of evidence in every graph.  They
\* imply the last one, that the first supporting incident passes the validator:
\* its evidence has two sources, all of it is the incident's own, nothing
\* contradicts it, and Discoverable has excluded evaluations.
SupportedWell(graphs, candidate) ==
    /\ Len(candidate.path) >= 2 /\ Cardinality(candidate.incidents) >= 3
    /\ 10 * Cardinality(candidate.contradictions) <= Cardinality(candidate.incidents)
    /\ candidate.confidence > 0
    /\ \A k \in DOMAIN graphs :
          graphs[k].id \in candidate.incidents =>
              candidate.path \in CausalPaths(graphs[k]) /\ Cardinality(graphs[k].sources) >= 2
=============================================================================
