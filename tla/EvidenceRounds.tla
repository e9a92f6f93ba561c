--------------------------- MODULE EvidenceRounds ---------------------------
(***************************************************************************)
(* What a round of observation makes of the evidence (agent/brain_state.go *)
(* observationUpdate, agent/cognitive_graph.go signalAssertionBuilderNode):*)
(* merge it by ID, rank it, choose what a model may see                    *)
(* (reasoning/engine.go RankEvidence) and move the state assertions on     *)
(* (reasoning/assertions.go BuildStateAssertions).                         *)
(*                                                                         *)
(* An item is [kind, at]: its ID is a hash of what was observed, without   *)
(* the time, so a kind stands for an ID.  Kinds are numbered in the order  *)
(* of their IDs; a kind is [modality, family, signature, readings], the    *)
(* family "" unless it is a metric, a reading [property, direction,        *)
(* strength].  Scores are left open: any order of the items is a ranking.  *)
(***************************************************************************)
EXTENDS Integers, Sequences, FiniteSets, SequencesExt, FiniteSetsExt

CONSTANTS
    Kind,          \* the kinds of items the collectors return, a sequence
    MaxItems,      \* ModelEvidenceMaxItems
    Staleness,     \* the ten minutes of assertions.go:87
    PerRound,      \* bound: items of a round
    Horizon        \* bound: rounds end here

\* config.go:275 refuses a smaller limit.
ASSUME RoundsAssumption ==
    MaxItems \in Nat \ {0, 1} /\ Staleness \in Nat /\ PerRound \in Nat /\ Horizon \in Nat

\* evidenceModality and metricEvidenceFamily: the four modalities, "" for any other
\* source; only metrics have a family.  The signature holds the source and the
\* type, which Normalize makes equal to the kind when a collector names only one
\* of them, as all do: items of one signature share modality and family.
ASSUME KindAssumption ==
    /\ Kind \in Seq(Range(Kind))
    /\ \A k \in DOMAIN Kind :
          /\ Kind[k].modality \in {"topology", "metric", "log", "trace", ""}
          /\ Kind[k].family # "" => Kind[k].modality = "metric"
          /\ \A l \in DOMAIN Kind : Kind[k].signature = Kind[l].signature =>
                Kind[k].modality = Kind[l].modality /\ Kind[k].family = Kind[l].family

VARIABLES
    now,           \* the time of the round
    observations,  \* state.Incident.Evidence
    context,       \* RankedEvidence.Evidence: the kinds chosen for a model
    assertions     \* state.RuntimeAssertions

roundVars == <<now, observations, context, assertions>>

\* The evidence window begins here.
Start == 0

Kinds(items) == {item.kind : item \in items}

\* mergeEvidence: the later collection of an ID replaces the earlier one, even
\* when it observed it earlier.
Merge(items, collected) ==
    {item \in items : item.kind \notin Kinds(collected)} \union collected

\* insideWindow: items observed before the window stay in the incident, and are
\* not ranked.
InWindow(items) == {item \in items : item.at >= Start}
-----------------------------------------------------------------------------
\* evidenceSignature: an item that repeats a chosen one, but for identifiers and
\* times, is no further observation.
Fresh(kind, chosen) ==
    \A other \in chosen : kind # other /\ Kind[kind].signature # Kind[other].signature

Add(chosen, kind) ==
    IF Cardinality(chosen) < MaxItems /\ Fresh(kind, chosen) THEN chosen \union {kind} ELSE chosen

\* appendBest: the first fresh item of a modality, if there is one.
Best(ranking, chosen, modality) ==
    LET matching == {k \in DOMAIN ranking : /\ Kind[ranking[k]].modality = modality
                                            /\ Fresh(ranking[k], chosen)}
    IN  IF matching = {} THEN chosen ELSE Add(chosen, ranking[Min(matching)])

Families(chosen) == {Kind[kind].family : kind \in chosen}

\* A loop over a sequence: step[e] maps what was chosen before element e to what
\* is chosen after it.  A recursive function, which TLC tabulates.
Loop(step, start, sequence) ==
    LET after[k \in 0..Len(sequence)] ==
            IF k = 0 THEN start ELSE step[sequence[k]][after[k - 1]]
    IN  after[Len(sequence)]

Required == <<"topology", "metric", "log", "trace">>

\* The three loops: the best item of a modality, a metric whose family is not
\* represented, and any item.
Require(ranking) ==
    [modality \in ToSet(Required) |-> [chosen \in SUBSET DOMAIN Kind |->
        Best(ranking, chosen, modality)]]

Represent ==
    [kind \in DOMAIN Kind |-> [chosen \in SUBSET DOMAIN Kind |->
        IF Kind[kind].family \in {""} \union Families(chosen) THEN chosen ELSE Add(chosen, kind)]]

Fill == [kind \in DOMAIN Kind |-> [chosen \in SUBSET DOMAIN Kind |-> Add(chosen, kind)]]

\* Mutant: items are taken by score, with no place kept for the modalities.
Preserved_ByScore(ranking) == Loop(Fill, Loop(Represent, {}, ranking), ranking)

\* preserveRequiredSources: one item for each modality, one for each family of
\* metrics, and then whatever ranks high.
Preserved(ranking) ==
    Loop(Fill, Loop(Represent, Loop(Require(ranking), {}, Required), ranking), ranking)

\* The orders that scores may give to the kinds.
Rankings(kinds) == {r \in [1..Cardinality(kinds) -> kinds] : Range(r) = kinds}

\* What the kinds may be narrowed to, for any scores: pairs, which TLC tabulates.
Selections ==
    {<<kinds, {Preserved(ranking) : ranking \in Rankings(kinds)}>> : kinds \in SUBSET DOMAIN Kind}

\* RankEvidence fails without Kubernetes evidence or without telemetry.
Admissible(chosen) ==
    /\ \E kind \in chosen : Kind[kind].modality = "topology"
    /\ \E kind \in chosen : Kind[kind].modality \in {"metric", "log", "trace"}
-----------------------------------------------------------------------------
\* The readings of a property among ranked items, with their times.
ReadingsOf(property, items) ==
    UNION {{[at |-> item.at, direction |-> r.direction, strength |-> r.strength] :
              r \in {r \in Kind[item.kind].readings : r.property = property}} : item \in items}

Properties(items) == UNION {{r.property : r \in Kind[item.kind].readings} : item \in items}

AbnormalOf(readings) == {r \in readings : r.direction = "abnormal"}
NormalOf(readings) == {r \in readings : r.direction = "normal"}

\* A new assertion is normal, without confidence, and was never seen.
NewAssertion(property) ==
    [property |-> property, state |-> "normal", confidence |-> 0, lastSeen |-> Start - 1,
     status |-> "ACTIVE"]

\* Mutant: a normal reading closes the assertion although the anomaly came back.
Contradicted_AnyNormal(assertion, readings) ==
    /\ assertion.lastSeen >= Start
    /\ \E r \in NormalOf(readings) : r.at > assertion.lastSeen

\* A round contradicts an assertion of an earlier round when it has a newer
\* normal reading and no newer abnormal one.
Contradicted(assertion, readings) ==
    /\ assertion.lastSeen >= Start
    /\ \E r \in NormalOf(readings) : r.at > assertion.lastSeen
    /\ \A r \in AbnormalOf(readings) : r.at <= assertion.lastSeen

\* BuildStateAssertions for one property.  Every abnormal reading in the
\* evidence, however old, makes the assertion ACTIVE before it is contradicted
\* or goes stale.
Asserted(assertion, readings) ==
    LET abnormal == AbnormalOf(readings)
        strongest == Max({0} \union {r.strength : r \in abnormal})
        decided == abnormal # {} /\ strongest >= assertion.confidence
        state == IF decided THEN "abnormal" ELSE assertion.state
        seen == Max({assertion.lastSeen} \union {r.at : r \in readings})
        status == IF abnormal # {} THEN "ACTIVE" ELSE assertion.status
        judged == IF state = "abnormal" /\ Contradicted(assertion, readings)
                  THEN "CONTRADICTED" ELSE status
    IN  [property |-> assertion.property, state |-> state, lastSeen |-> seen,
         confidence |-> IF decided THEN strongest ELSE assertion.confidence,
         status |-> IF judged = "ACTIVE" /\ seen < now - Staleness THEN "STALE" ELSE judged]

\* BuildStateAssertions: earlier assertions move on and new properties get one.
BuildStateAssertions(items) ==
    LET known == {a.property : a \in assertions}
        all == assertions \union {NewAssertion(p) : p \in Properties(items) \ known}
    IN  {Asserted(a, ReadingsOf(a.property, items)) : a \in all}
-----------------------------------------------------------------------------
RoundInit ==
    /\ now = Start /\ observations = {} /\ context = {} /\ assertions = {}

\* What a round may collect: up to PerRound items, observed now or, when a line
\* of a log was late, a little earlier.
Collections ==
    LET items == {[kind |-> k, at |-> at] : k \in DOMAIN Kind, at \in {now - 1, now}}
        timely == {item \in items : item.at = now \/ Kind[item.kind].modality = "log"}
    IN  {batch \in UNION {kSubset(n, timely) : n \in 1..PerRound} :
            Cardinality(Kinds(batch)) = Cardinality(batch)}

\* One round.  A ranking that is refused leaves context and assertions alone.
Observe(collected) ==
    LET items == Merge(observations, collected)
        ranked == InWindow(items)
    IN  /\ now < Horizon /\ now' = now + 1
        /\ observations' = items
        /\ \E selection \in Selections :
              /\ selection[1] = Kinds(ranked)
              /\ \E chosen \in selection[2] :
                    IF Admissible(chosen)
                    THEN context' = chosen /\ assertions' = BuildStateAssertions(ranked)
                    ELSE UNCHANGED <<context, assertions>>

RoundNext == \E collected \in Collections : Observe(collected)

RoundSpec == RoundInit /\ [][RoundNext]_roundVars
-----------------------------------------------------------------------------
Rankable == Admissible(Kinds(InWindow(observations)))

\* What a model may see stands for all that was observed (engine.go:369): every
\* modality of the evidence is there, no two items repeat each other, and no
\* family of metrics is there twice while another one is missing.  The choice is
\* made by three loops over one ranking, each with its own idea of a duplicate.
ContextIsRepresentative ==
    LET present == Kinds(InWindow(observations))
    IN  Rankable =>
          /\ context \subseteq present /\ Cardinality(context) <= MaxItems
          /\ \A k, l \in context : k # l => Kind[k].signature # Kind[l].signature
          /\ {Kind[k].modality : k \in present} \ {""} \subseteq {Kind[k].modality : k \in context}
          /\ (\E k, l \in context : /\ k # l /\ Kind[k].family # ""
                                    /\ Kind[k].family = Kind[l].family)
             => Families(present) \subseteq Families(context) \union {""}

\* A contradicted assertion is one whose anomaly was not reproduced: a normal
\* reading of its property is newer than every abnormal one in the evidence
\* (assertions.go:79), however late the readings came and whatever replaced them.
ContradictionIsEarned ==
    Rankable => \A a \in assertions : a.status = "CONTRADICTED" =>
        LET readings == ReadingsOf(a.property, InWindow(observations))
        IN  \E r \in NormalOf(readings) : \A b \in AbnormalOf(readings) : b.at < r.at
=============================================================================
