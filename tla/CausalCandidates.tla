--------------------------- MODULE CausalCandidates ---------------------------
(***************************************************************************)
(* How the deterministic runtime turns observations into root-cause        *)
(* candidates and how it verifies them (reasoning/candidates.go and        *)
(* reasoning/engine.go, as agent/cognitive_graph.go calls them: annotate,  *)
(* match the active causal patterns, generate, verify).                    *)
(*                                                                         *)
(* Patterns and items of evidence are numbered; patterns in the lexical    *)
(* order of their IDs.  A pattern is [category, nodes, edges, required], a *)
(* node [id, type, source, signals], source "any" when the node names      *)
(* none.  An item is [source, service, readings]; a reading is [signal,    *)
(* direction, strong], strong when its strength reaches the threshold of   *)
(* the labels.  Nodes without signals and items without readings, which    *)
(* the code matches by stored node IDs for old data, are left out.         *)
(***************************************************************************)
EXTENDS Integers, Sequences, FiniteSets, SequencesExt, FiniteSetsExt

CONSTANTS
    Pattern,       \* every causal pattern of the knowledge store, a sequence
    Catalogue,     \* the items of evidence a collection may return, a sequence
    Activations,   \* sets of patterns that may be active
    Taxonomy,      \* the fixed signals of candidateMechanismLabel, in its order
    MaxNodes       \* bound: nodes of a pattern

VARIABLES
    active,        \* patterns whose status is "active"
    evidence,      \* runtime.Evidence
    drafts,        \* runtime.Drafts
    verified       \* runtime.Verified

candidateVars == <<active, evidence, drafts, verified>>

Patterns == DOMAIN Pattern

Ids(pattern) == {n.id : n \in pattern.nodes}

ASSUME StoreAssumption ==
    /\ Patterns \subseteq Nat /\ IsFiniteSet(Patterns) /\ IsFiniteSet(DOMAIN Catalogue)
    /\ \A p \in Patterns :
          IsFiniteSet(Ids(Pattern[p])) /\ \A e \in Pattern[p].edges : e = <<e[1], e[2]>>
    /\ Activations \subseteq SUBSET Patterns /\ MaxNodes \in Nat

TypeOf(pattern, id) == (CHOOSE n \in pattern.nodes : n.id = id).type

Parents(pattern, id) == {e[1] : e \in {e \in pattern.edges : e[2] = id}} \intersect Ids(pattern)

Children(pattern, id) == {e[2] : e \in {e \in pattern.edges : e[1] = id}} \intersect Ids(pattern)

\* A reading establishes a node when it is abnormal; one that is merely
\* observed establishes causes only.
Establishes(reading, node) ==
    /\ \/ reading.direction = "abnormal"
       \/ reading.direction = "observed" /\ node.type = "cause"
    /\ reading.signal \in node.signals

\* evidenceMatchesCausalNode.
Shows(item, node) ==
    /\ node.source \in {"any", item.source}
    /\ \E reading \in item.readings : Establishes(reading, node)

ShownNodes(item, pattern) == {n.id : n \in {n \in pattern.nodes : Shows(item, n)}}

\* The nodes of each pattern that each item shows.
Shown == [item \in DOMAIN Catalogue |-> [p \in Patterns |->
    ShownNodes(Catalogue[item], Pattern[p])]]

\* The nodes of a pattern that current evidence shows.
Observed(p, items) == UNION {Shown[item][p] : item \in items}

RootCauses(pattern) ==
    {n.id : n \in {n \in pattern.nodes : n.type = "cause" /\ Parents(pattern, n.id) = {}}}

\* candidateAdmissionNodes: root causes and the mechanisms right below a cause;
\* a dependency must show its cause if it has one; a pattern without either
\* admits every mechanism.
Admits(pattern) ==
    LET mechanisms == {n.id : n \in {n \in pattern.nodes : n.type = "mechanism"}}
        direct == {id \in mechanisms :
                      \E c \in Parents(pattern, id) : TypeOf(pattern, c) = "cause"}
        admission == IF pattern.category = "dependency" /\ RootCauses(pattern) # {}
                     THEN RootCauses(pattern) ELSE RootCauses(pattern) \union direct
    IN  IF admission # {} THEN admission ELSE mechanisms

Admission == [p \in Patterns |-> Admits(Pattern[p])]

\* patternEvidence: the items attributed to the pattern, and whether it triggers.
Support(p, items) == {item \in items : Shown[item][p] # {}}

Triggers(p, items) ==
    LET observed == Observed(p, items)
    IN  observed \intersect Admission[p] # {} /\ Pattern[p].required \subseteq observed

\* AnnotateCausalNodes gives an item the IDs of nodes, whatever their pattern.
Annotation(item, patterns) == UNION {Shown[item][p] : p \in patterns}

Annotations(items, patterns) == UNION {Annotation(item, patterns) : item \in items}

Anomalous(item) == \E reading \in Catalogue[item].readings : reading.direction = "abnormal"

\* MatchCausalPatterns keeps the patterns with a node that an anomaly shows.
Matched(patterns, items) ==
    LET shown == Annotations({item \in items : Anomalous(item)}, patterns)
    IN  {p \in patterns : Ids(Pattern[p]) \intersect shown # {}}
-----------------------------------------------------------------------------
\* The simple chains of a pattern along its edges.
Chains(pattern) ==
    {chain \in UNION {[1..k -> Ids(pattern)] : k \in 1..MaxNodes} :
        /\ IsInjective(chain)
        /\ \A k \in 1..(Len(chain) - 1) : chain[k + 1] \in Children(pattern, chain[k])}

Longest(chains) ==
    IF chains = {} THEN <<>> ELSE CHOOSE c \in chains : \A d \in chains : Len(d) <= Len(c)

\* patternPath: a longest chain from a root to a leaf; every node is a root of a
\* pattern that is one cycle.  Ties, which the code breaks by name, are open.
PatternPath(pattern) ==
    LET roots == {id \in Ids(pattern) : Parents(pattern, id) = {}}
    IN  Longest({c \in Chains(pattern) : /\ Head(c) \in (IF roots = {} THEN Ids(pattern) ELSE roots)
                                         /\ Children(pattern, Last(c)) = {}})

\* Mutant: the path may skip a node nothing shows.
ObservedPaths_Skip(pattern, admission, observed) ==
    {c \in Chains(pattern) : Head(c) \in admission \intersect observed /\ Last(c) \in observed
                             /\ Len(c) >= 2}

\* observedPatternPath: the chains that start at an observed admission node, take
\* observed nodes only and cannot be prolonged.
ObservedPaths(pattern, admission, observed) ==
    {c \in Chains(pattern) :
        /\ Head(c) \in admission /\ ToSet(c) \subseteq observed /\ Len(c) >= 2
        /\ Children(pattern, Last(c)) \intersect observed \subseteq ToSet(c)}

\* One that ends in a symptom is preferred, then a longer one.
Preferred(pattern, chains) ==
    LET ending == {c \in chains : TypeOf(pattern, Last(c)) = "symptom"}
    IN  Longest(IF ending # {} THEN ending ELSE chains)

\* Tables, for they depend on the pattern and the observed nodes alone.
DeclaredPath == [p \in Patterns |-> PatternPath(Pattern[p])]

PathTable(pattern, admission) ==
    [observed \in SUBSET Ids(pattern) |->
        Preferred(pattern, ObservedPaths(pattern, admission, observed))]

ObservedPath == [p \in Patterns |-> PathTable(Pattern[p], Admission[p])]

\* patternSignalDirections: a signal counts when a node of the pattern reads it
\* and, if any of these nodes names a source, from one of the sources named.
ReadingsFor(item, pattern) ==
    {reading \in item.readings :
        LET reads == {n \in pattern.nodes : reading.signal \in n.signals}
            sources == {n.source : n \in reads} \ {"any"}
        IN  reads # {} /\ (sources = {} \/ item.source \in sources)}

Readings == [item \in DOMAIN Catalogue |-> [p \in Patterns |->
    ReadingsFor(Catalogue[item], Pattern[p])]]

\* candidateMechanismLabel: what each rule asks and the signals it names, in the
\* order of the code.
Rules(category, abnormal, strong, normal) ==
    LET endpoint == {"dependency_unavailable", "endpoint_unavailable"} \intersect abnormal
    IN  <<
            <<category = "database" /\ "database_endpoint_unavailable" \in abnormal,
              {"database_endpoint_unavailable"}>>,
            <<category = "dependency" /\ endpoint # {}, endpoint>>,
            <<"connection_pressure" \in strong, {"connection_pressure"}>>,
            <<{"memory_growth", "memory_pressure"} \subseteq abnormal,
              {"memory_growth", "memory_pressure"}>>,
            <<"cpu_throttling" \in strong /\ "cpu_pressure" \notin strong, {"cpu_throttling"}>>,
            <<"cpu_pressure" \in abnormal /\ "request_rate" \in normal \ abnormal,
              {"cpu_pressure"}>> >>
        \o [k \in DOMAIN Taxonomy |-> <<Taxonomy[k] \in abnormal, {Taxonomy[k]}>>]

FirstNamed(rules) ==
    LET applicable == {k \in DOMAIN rules : rules[k][1]}
    IN  IF applicable = {} THEN {} ELSE rules[Min(applicable)][2]

SignalsOf(readings, direction) == {r.signal : r \in {r \in readings : r.direction = direction}}

NamesFrom(p, readings) ==
    FirstNamed(Rules(Pattern[p].category, SignalsOf(readings, "abnormal"),
                     SignalsOf({r \in readings : r.strong}, "abnormal"),
                     SignalsOf(readings, "normal")))

\* The signals the candidate is named after, {} when its pattern's own name
\* remains.
NamingSignals(p, items) == NamesFrom(p, UNION {Readings[item][p] : item \in items})

\* observedDependencyTarget: a service whose own evidence shows an admission
\* node; the code takes the first in lexical order.
Target(p, items) ==
    LET services == {Catalogue[item].service : item \in
                        {item \in items : Shown[item][p] \intersect Admission[p] # {}}}
    IN  IF services = {} THEN "" ELSE CHOOSE s \in services : TRUE

\* The labels that keep the target they are about.
KeepsTarget(category, names) ==
    \/ /\ category = "dependency" /\ names # {}
       /\ names \subseteq {"dependency_unavailable", "endpoint_unavailable"}
    \/ category = "database" /\ names = {"database_endpoint_unavailable"}

LabelFrom(p, items, names) ==
    [signals |-> names,
     target |-> IF KeepsTarget(Pattern[p].category, names) THEN Target(p, items) ELSE ""]

Label(p, items) == LabelFrom(p, items, NamingSignals(p, items))
-----------------------------------------------------------------------------
\* candidateForProperty: the category an abnormal state assertion suggests.
CategoryOf(property) ==
    CASE property = "cpu_pressure" -> "cpu"
      [] property = "memory_pressure" -> "memory"
      [] property \in {"connection_pressure", "dependency_availability"} -> "database"
      [] property = "network_connectivity" -> "network"
      [] property \in {"workload_health", "pod_restarts"} -> "deployment"
      [] OTHER -> ""

\* What supports a category before a pattern is chosen for it: the items behind
\* its assertions and all that is attributed to its triggered patterns.
CategorySupport(category, triggered, items, assertions) ==
    (UNION {a.items : a \in {a \in assertions : CategoryOf(a.property) = category}})
      \union (UNION {Support(p, items) : p \in {p \in triggered : Pattern[p].category = category}})

\* bestCandidatePattern: most observed admission nodes, then most support, then ID.
Standing(eligible, support, items) ==
    [p \in eligible |-> <<Cardinality(Observed(p, items) \intersect Admission[p]),
                          Cardinality(Support(p, items) \intersect support), -p>>]

Above(a, b) == \E k \in DOMAIN a : a[k] > b[k] /\ \A j \in 1..(k - 1) : a[j] = b[j]

BestOf(standing) ==
    CHOOSE p \in DOMAIN standing : \A q \in DOMAIN standing \ {p} : Above(standing[p], standing[q])

\* Mutant: an assertion stands in for the trigger of its category's patterns.
Eligible_Asserted(category, patterns, items, assertions) ==
    {p \in patterns : /\ Pattern[p].category = category
                      /\ \/ Triggers(p, items)
                         \/ \E a \in assertions : CategoryOf(a.property) = category}

\* Only a triggered pattern of the category can be the best one.
Eligible(category, patterns, items, assertions) ==
    {p \in patterns : Pattern[p].category = category /\ Triggers(p, items)}

\* The candidate of a category, on the observed path of its best pattern or else
\* on the path that pattern declares.
Draft(p, items, observed) ==
    [category |-> Pattern[p].category, pattern |-> p, support |-> Support(p, items),
     path |-> IF observed # <<>> THEN observed ELSE DeclaredPath[p],
     label |-> Label(p, items)]

\* GenerateDeterministicCandidates: the assertions and the triggered patterns
\* name categories; one becomes a candidate when a pattern of it is eligible.
DraftsOf(categories, triggered, patterns, items, assertions) ==
    {LET p == BestOf(Standing(Eligible(c, patterns, items, assertions),
                              CategorySupport(c, triggered, items, assertions), items))
     IN  Draft(p, items, ObservedPath[p][Observed(p, items)]) :
        c \in {c \in categories : Eligible(c, patterns, items, assertions) # {}}}

Candidates(patterns, items, assertions) ==
    LET triggered == {p \in patterns : Triggers(p, items)}
    IN  DraftsOf({CategoryOf(a.property) : a \in assertions}
                   \union {Pattern[p].category : p \in triggered},
                 triggered, patterns, items, assertions)
-----------------------------------------------------------------------------
\* causalSignalSupport, evidenceSupportsExpectedNode: the item supports the path
\* when its annotation meets it and an abnormal reading of a signal of a node of
\* the path, of any pattern, lends it a strength.
Voices(item, path, patterns) ==
    LET on == ToSet(path)
        nodes == {n \in UNION {Pattern[p].nodes : p \in patterns} :
                     n.id \in on /\ n.source \in {"any", Catalogue[item].source}}
    IN  /\ Annotation(item, patterns) \intersect on # {}
        /\ \E r \in Catalogue[item].readings : r.direction = "abnormal"
                                    /\ r.signal \in UNION {n.signals : n \in nodes}

\* canonicalCausalCoverage: the nodes of the path that annotate no item.
Uncovered(path, items, patterns) == ToSet(path) \ Annotations(items, patterns)

\* Its other factor: the path follows edges of active patterns.
Connected(path, patterns) ==
    \A k \in 1..(Len(path) - 1) : <<path[k], path[k + 1]>> \in UNION {Pattern[p].edges : p \in patterns}

\* missingObservedDecisiveCausalNodes: of the admission nodes on the path, the
\* mechanisms or else the causes, none of which is shown.
Undecided(path, items, patterns) ==
    LET on == ToSet(path)
        admitting == UNION {{p} \X (Admission[p] \intersect on) : p \in patterns}
        named(type) == {a[2] : a \in {a \in admitting : TypeOf(Pattern[a[1]], a[2]) = type}}
        required == IF named("mechanism") # {} THEN named("mechanism") ELSE named("cause")
        shown == {a[2] : a \in {a \in admitting : \E i \in items : a[2] \in Shown[i][a[1]]}}
    IN  IF required \intersect shown # {} THEN {} ELSE required

\* VerifyHypotheses, as far as causes go: what is missing, whether the path is
\* connected, and the sources whose support counts.
Verdict(draft, items, patterns) ==
    [draft |-> draft,
     missing |-> Uncovered(draft.path, items, patterns) \union Undecided(draft.path, items, patterns),
     connected |-> Connected(draft.path, patterns),
     voices |-> {Catalogue[item].source : item \in
                    {item \in draft.support : Voices(item, draft.path, patterns)}}]
-----------------------------------------------------------------------------
CandidateInit ==
    /\ active \in Activations
    /\ evidence = {} /\ drafts = {} /\ verified = {}

\* The assertions a round may hold about the evidence: none, or any property
\* backed by every item, the strongest support an assertion can lend.
Assertions(items) ==
    {{}, {[property |-> property, items |-> items] : property \in
             {"cpu_pressure", "memory_pressure", "connection_pressure", "network_connectivity",
              "workload_health", "request_latency"}}}

\* One round of the graph: an item is collected, then candidateGenerationNode
\* replaces drafts and verdicts.  These depend on the set that was collected, so
\* items come in the order of the catalogue: one order stands for all.
Round(item) ==
    /\ \A earlier \in evidence : earlier < item
    /\ LET items == evidence \union {item}
           patterns == Matched(active, items)
       IN  \E assertions \in Assertions(items) :
             /\ evidence' = items
             /\ drafts' = Candidates(patterns, items, assertions)
             /\ verified' = {Verdict(d, items, patterns) : d \in drafts'}
    /\ UNCHANGED active

CandidateNext == \E item \in DOMAIN Catalogue : Round(item)

CandidateSpec == CandidateInit /\ [][CandidateNext]_candidateVars
-----------------------------------------------------------------------------
\* A candidate on an observed path leaves verification nothing to miss.
ObservedIsComplete ==
    \A v \in verified :
        ObservedPath[v.draft.pattern][Observed(v.draft.pattern, evidence)] # <<>>
        => v.missing = {} /\ v.connected

\* A candidate without a missing node is earned by its own evidence: every node
\* of its path is shown by some active pattern, a pattern of its category has
\* the whole path, an item that supports it shows an admission node of that
\* pattern on the path, and an anomaly of at least one source speaks for it.
CompleteIsEarned ==
    \A v \in verified : v.missing = {} /\ v.connected =>
        /\ v.voices # {}
        /\ ToSet(v.draft.path) \subseteq UNION {Observed(p, evidence) : p \in active}
        /\ \E p \in active :
              /\ Pattern[p].category = v.draft.category
              /\ ToSet(v.draft.path) \subseteq Ids(Pattern[p])
              /\ \E item \in v.draft.support :
                    ToSet(v.draft.path) \intersect Admission[p] \intersect Shown[item][p] # {}

\* Generation and verification agree about what is observed, although admission
\* and path (candidates.go:338, 566), annotation (engine.go:770), coverage
\* (engine.go:1464) and the decisive nodes (engine.go:1542) are computed by
\* different functions over different tables: what generation found observed,
\* verification finds complete, and it finds nothing complete that is not earned.
VerificationAgrees == ObservedIsComplete /\ CompleteIsEarned

\* "An abnormal StateAssertion is an observation, not a root-cause admission"
\* (candidates.go:70): the assertions of a round neither make, drop nor change a
\* candidate, although they are collected into its category first.
AssertionsAdmitNothing == drafts = Candidates(Matched(active, evidence), evidence, {})

\* What knowledge/causal_patterns.yaml has and its loader does not ask for: a
\* pattern is a chain through all its nodes, with causes at its head only and with
\* a mechanism, and a mechanism is of one pattern.
PatternsAreChains ==
    \A p \in Patterns :
        /\ \A m, n \in Pattern[p].nodes : m.id = n.id => m = n
        /\ ToSet(DeclaredPath[p]) = Ids(Pattern[p])
        /\ \E n \in Pattern[p].nodes : n.type = "mechanism"
        /\ \A n \in Pattern[p].nodes :
              /\ n.type = "cause" => Parents(Pattern[p], n.id) = {}
              /\ n.type = "mechanism" => \A q \in Patterns \ {p} : n.id \notin Ids(Pattern[q])
=============================================================================
