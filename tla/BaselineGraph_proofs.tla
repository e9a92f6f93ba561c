------------------------ MODULE BaselineGraph_proofs ------------------------
(***************************************************************************)
(* Proofs about BaselineGraph and the agents of ReActAgents, for any       *)
(* methods, hypotheses, sources, proposals, budgets and batches.           *)
(***************************************************************************)
EXTENDS BaselineGraph, FiniteSetTheorems, TLAPS

-----------------------------------------------------------------------------
(* The helpers *)

\* Only a diagnosis under way may be followed by a proposal, and every status a
\* run passes through may be followed by NEEDS_ATTENTION (the transitions table).
LEMMA StatusMoves ==
    ASSUME NEW status \in {"COLLECTING", "DIAGNOSING", "PROPOSING", "NEEDS_ATTENTION"}
    PROVE  /\ AfterMove(status, "NEEDS_ATTENTION") = "NEEDS_ATTENTION"
           /\ AfterMove(status, "PROPOSING") =
                IF status \in {"DIAGNOSING", "PROPOSING"} THEN "PROPOSING" ELSE status
BY DEF AfterMove, CanMove, Successors

\* More evidence corroborates no less.
LEMMA CorroborationStays ==
    ASSUME NEW more \in SUBSET Sources, NEW sources \in SUBSET more, Corroborated(sources)
    PROVE  Corroborated(more)
<1>1. IsFiniteSet(more)
  BY AgentsAssumption, FS_Subset
<1>2. IsFiniteSet(sources) /\ Cardinality(sources) <= Cardinality(more)
  BY <1>1, FS_Subset
<1>3. Cardinality(sources) \in Nat /\ Cardinality(more) \in Nat
  BY <1>1, <1>2, FS_CardinalityType
<1> QED
  BY <1>2, <1>3 DEF Corroborated

\* So a ledger stays one.
LEMMA LedgerStays ==
    ASSUME NEW more \in SUBSET Sources, NEW sources \in SUBSET more, NEW verified,
           IsLedger(verified, sources)
    PROVE  IsLedger(verified, more)
BY CorroborationStays DEF IsLedger

LEMMA EmptyLedger == ASSUME NEW sources PROVE IsLedger(<<>>, sources)
BY DEF IsLedger

\* The status that a ledger has for a hypothesis.
LEMMA StatusTyped ==
    ASSUME NEW verified \in Seq(VerifiedHypothesis), NEW h
    PROVE  StatusIn(verified, h, "") \in Lifecycle
<1>1. \A i \in DOMAIN verified : verified[i] \in VerifiedHypothesis
  OBVIOUS
<1>2. \A i \in DOMAIN verified : verified[i].status \in Lifecycle
  BY <1>1 DEF VerifiedHypothesis
<1> QED
  BY <1>2 DEF StatusIn, LastOf, Records, Lifecycle

\* VerifyHypotheses gives each draft one record, which passes only on
\* corroborated evidence.
LEMMA VerdictsAreLedgers ==
    ASSUME NEW drafts \in Seq(Hypotheses), NEW sources, NEW verdict \in Verdicts(drafts, sources)
    PROVE  /\ IsLedger(verdict, sources)
           /\ \A i \in DOMAIN verdict :
                 verdict[i].status \in {"EVIDENCE_SEARCHING", "REFUTED", "SUPPORTED"}
<1>1. PICK order \in Bijection(DOMAIN drafts, DOMAIN drafts), grade \in [DOMAIN drafts -> GradesFor(sources)] :
          verdict = [i \in DOMAIN drafts |->
              [id |-> drafts[order[i]], grade |-> grade[i],
               status |-> StatusOf(grade[i]), place |-> i]]
  BY DEF Verdicts
<1>2. order \in [DOMAIN drafts -> DOMAIN drafts]
  BY DEF Bijection, Injection
<1>3. PICK n \in Nat : DOMAIN drafts = 1..n /\ \A i \in 1..n : drafts[i] \in Hypotheses
  OBVIOUS
<1>4. \A g \in Grades : StatusOf(g) \in {"EVIDENCE_SEARCHING", "REFUTED", "SUPPORTED"}
  BY DEF Grades, StatusOf
<1>5. /\ GradesFor(sources) \subseteq Grades
      /\ "passes" \in GradesFor(sources) => Corroborated(sources)
  BY DEF GradesFor, Grades
<1>6. \A i \in 1..n :
        /\ verdict[i] = [id |-> drafts[order[i]], grade |-> grade[i],
                         status |-> StatusOf(grade[i]), place |-> i]
        /\ drafts[order[i]] \in Hypotheses /\ grade[i] \in GradesFor(sources)
  BY <1>1, <1>2, <1>3
<1>7. \A i \in 1..n : verdict[i] \in VerifiedHypothesis
  <2>1. ASSUME NEW id \in Hypotheses, NEW g \in Grades, NEW place \in Int
        PROVE  [id |-> id, grade |-> g, status |-> StatusOf(g), place |-> place]
                  \in VerifiedHypothesis
    BY <1>4 DEF VerifiedHypothesis, Lifecycle
  <2>2. ASSUME NEW i \in 1..n
        PROVE  verdict[i] \in VerifiedHypothesis
    <3>1. drafts[order[i]] \in Hypotheses /\ grade[i] \in GradesFor(sources)
      BY <1>6
    <3>2. grade[i] \in Grades
      BY <1>5, <3>1
    <3>3. i \in Int
      OBVIOUS
    <3>4. verdict[i] = [id |-> drafts[order[i]], grade |-> grade[i],
                        status |-> StatusOf(grade[i]), place |-> i]
      BY <1>6
    <3> QED
      BY <2>1, <3>1, <3>2, <3>3, <3>4
  <2> QED
    BY <2>2
<1>8. DOMAIN verdict = 1..n /\ verdict = [i \in 1..n |-> verdict[i]]
  BY <1>1, <1>3
<1>9. verdict \in Seq(VerifiedHypothesis)
  BY <1>7, <1>8
<1> QED
  BY <1>4, <1>5, <1>6, <1>8, <1>9 DEF IsLedger

-----------------------------------------------------------------------------
(* What a call makes of the state *)

\* The transition service remembers the acceptance a proposal follows from.
Firm(s) == s.status = "PROPOSING" => s.service[s.selected] = "ACCEPTED"

\* What no call takes back.
Keeps(s, t) ==
    /\ s.sources \subseteq t.sources
    /\ \A h \in Hypotheses :
          s.service[h] \in {"REFUTED", "ACCEPTED"} => t.service[h] = s.service[h]
    /\ s.status = "NEEDS_ATTENTION" => t.status = "NEEDS_ATTENTION"
    /\ s.status = "PROPOSING" => t.status \in {"PROPOSING", "NEEDS_ATTENTION"}
    /\ ResultEarned(s) /\ ~t.error =>
          /\ Firm(s) \/ t.verified = s.verified => ResultEarned(t)
          /\ Firm(s) => Firm(t)

\* A call, and a call that cannot make another diagnosis.
CallOK(s, t) == StateOK(t) /\ Keeps(s, t)

OtherCallOK(s, t) ==
    /\ CallOK(s, t) /\ t.selected = s.selected /\ t.error = s.error /\ t.verified = s.verified
    /\ t.status = "PROPOSING" => s.status = "PROPOSING"

LEMMA RefusedOK ==
    ASSUME NEW s, StateOK(s), NEW a \in Agents
    PROVE  OtherCallOK(s, Refused(s, a)) /\ Refused(s, a).status = "NEEDS_ATTENTION"
<1> DEFINE t == [[s EXCEPT !.status = "NEEDS_ATTENTION"] EXCEPT !.done = @ \union {a}]
<1>1. Refused(s, a) = t
  BY StatusMoves DEF Refused, Done, NeedsAttention, StateOK
<1>2. t \in WorkflowState
  BY DEF StateOK, WorkflowState, Status
<1>3. /\ t.sources = s.sources /\ t.verified = s.verified /\ t.usage = s.usage
      /\ t.service = s.service /\ t.selected = s.selected /\ t.error = s.error
      /\ t.status = "NEEDS_ATTENTION"
  BY DEF StateOK, WorkflowState
<1>4. StateOK(t)
  BY <1>2, <1>3 DEF StateOK, WithinBudget
<1>5. Keeps(s, t)
  BY <1>3 DEF Keeps, Firm, ResultEarned, OutcomeIsValid
<1> QED
  BY <1>1, <1>3, <1>4, <1>5 DEF OtherCallOK, CallOK

\* A call after another one that left the ledger alone.
LEMMA CallsCompose ==
    ASSUME NEW s, NEW t, NEW u, OtherCallOK(s, t), ~s.error, CallOK(t, u)
    PROVE  /\ CallOK(s, u)
           /\ OtherCallOK(t, u) => OtherCallOK(s, u)
<1>1. CallOK(s, u)
  BY DEF OtherCallOK, CallOK, Keeps
<1> QED
  BY <1>1 DEF OtherCallOK

LEMMA CorrectedOK ==
    ASSUME NEW s, StateOK(s), NEW a \in Agents
    PROVE  OtherCallOK(s, Corrected(s, a))
<1>1. CASE s.usage[a].corrections < MaxCorrections[a]
  <2> DEFINE t == [s EXCEPT !.usage[a].corrections = @ + 1]
  <2>1. Corrected(s, a) = t
    BY <1>1 DEF Corrected
  <2>2. s \in WorkflowState /\ s.usage \in [Agents -> Usage]
    BY DEF StateOK, WorkflowState
  <2>3. t.usage = [s.usage EXCEPT ![a] = [s.usage[a] EXCEPT !.corrections = @ + 1]]
    BY <2>2 DEF WorkflowState
  <2>4. [s.usage[a] EXCEPT !.corrections = @ + 1] \in Usage
    BY <2>2 DEF Usage
  <2>5. t.usage \in [Agents -> Usage]
    BY <2>2, <2>3, <2>4
  <2>6. /\ t.sources = s.sources /\ t.verified = s.verified /\ t.status = s.status
        /\ t.service = s.service /\ t.selected = s.selected /\ t.error = s.error
        /\ t.proposal = s.proposal /\ t.dryRun = s.dryRun /\ t.done = s.done
        /\ t.drafts = s.drafts
    BY <2>2 DEF WorkflowState
  <2>7. t \in WorkflowState
    BY <2>2, <2>5, <2>6 DEF WorkflowState
  <2>8. WithinBudget(t)
    BY <1>1, <2>2, <2>3, AgentsAssumption DEF StateOK, WithinBudget, Usage
  <2>9. StateOK(t) /\ Keeps(s, t)
    BY <2>6, <2>7, <2>8 DEF StateOK, Keeps, Firm, ResultEarned, SelectionEarned, Accepted,
       OutcomeIsValid
  <2> QED
    BY <2>1, <2>6, <2>9 DEF OtherCallOK, CallOK
<1>2. CASE ~(s.usage[a].corrections < MaxCorrections[a])
  BY <1>2, RefusedOK DEF Corrected
<1> QED
  BY <1>1, <1>2

\* A call that leaves the budget, the proposal, the dry run and the selection alone.
LEMMA LedgerCallOK ==
    ASSUME NEW s, StateOK(s), NEW t \in WorkflowState,
           s.sources \subseteq t.sources, IsLedger(t.verified, t.sources),
           t.usage = s.usage, t.done = s.done, t.proposal = s.proposal, t.dryRun = s.dryRun,
           t.selected = s.selected,
           t.status = s.status \/ (s.status = "COLLECTING" /\ t.status = "DIAGNOSING"),
           \A h \in Hypotheses :
              s.service[h] \in {"REFUTED", "ACCEPTED"} => t.service[h] = s.service[h]
    PROVE  CallOK(s, t) /\ (t.status = "PROPOSING" => s.status = "PROPOSING")
<1>1. StateOK(t)
  BY DEF StateOK, WithinBudget
<1>2. /\ s.selected \in Hypotheses \union {None} /\ s.sources \in SUBSET t.sources
      /\ t.sources \in SUBSET Sources
  BY DEF StateOK, WorkflowState
<1>3. SelectionEarned(s) /\ (s.service[s.selected] = "ACCEPTED" \/ t.verified = s.verified) =>
        SelectionEarned(t)
  BY <1>2, CorroborationStays DEF SelectionEarned, Accepted
<1>4. Keeps(s, t)
  BY <1>2, <1>3 DEF Keeps, Firm, ResultEarned, SelectionEarned, OutcomeIsValid
<1> QED
  BY <1>1, <1>4 DEF CallOK

\* Drafts: of the hypotheses that were supported or new, the rest keep their status.
LEMMA RecordedOK ==
    ASSUME NEW s, StateOK(s), NEW hs \in Seq(Hypotheses)
    PROVE  /\ OtherCallOK(s, Recorded(s, hs))
           /\ Recorded(s, hs).drafts \in Seq(Hypotheses)
           /\ Recorded(s, hs).verified = s.verified /\ Recorded(s, hs).sources = s.sources
<1>1. s \in WorkflowState
  BY DEF StateOK
<1> DEFINE refused == Len(hs) \notin 1..MaxDrafts \/ \E h \in Range(hs) : s.service[h] = "REFUTED"
<1>2. CASE refused
  <2>1. Recorded(s, hs) = Corrected(s, "diagnosis")
    BY <1>2 DEF Recorded
  <2>2. OtherCallOK(s, Corrected(s, "diagnosis"))
    BY CorrectedOK DEF Agents
  <2>3. /\ Corrected(s, "diagnosis").drafts = s.drafts
        /\ Corrected(s, "diagnosis").verified = s.verified
        /\ Corrected(s, "diagnosis").sources = s.sources
    BY <1>1 DEF Corrected, Refused, Done, NeedsAttention, WorkflowState
  <2> QED
    BY <1>1, <2>1, <2>2, <2>3 DEF WorkflowState
<1>3. CASE ~refused
  <2> DEFINE reopened == {from \in Lifecycle : CanTransitionHypothesis(from, "EVIDENCE_SEARCHING")}
             moved == [h \in Hypotheses |->
               IF h \in Range(hs) /\ s.service[h] \in reopened
                 THEN "EVIDENCE_SEARCHING" ELSE s.service[h]]
             t == [s EXCEPT !.drafts = hs, !.service = moved]
  <2>1. Recorded(s, hs) = t
    BY <1>1, <1>3 DEF Recorded, Recording, WorkflowState
  <2>2. moved \in [Hypotheses -> Lifecycle]
    BY <1>1 DEF WorkflowState, Lifecycle
  <2>3. \A h \in Hypotheses :
          s.service[h] \in {"REFUTED", "ACCEPTED"} => moved[h] = s.service[h]
    BY DEF CanTransitionHypothesis
  <2> HIDE DEF moved
  <2>4. /\ t \in WorkflowState
        /\ t.service = moved /\ t.drafts = hs
        /\ t.sources = s.sources /\ t.verified = s.verified /\ t.usage = s.usage
        /\ t.done = s.done /\ t.proposal = s.proposal /\ t.dryRun = s.dryRun
        /\ t.selected = s.selected /\ t.status = s.status /\ t.error = s.error
    BY <1>1, <2>2 DEF WorkflowState
  <2> HIDE DEF t
  <2>5. IsLedger(t.verified, t.sources)
    BY <2>4 DEF StateOK
  <2>6. CallOK(s, t)
    BY <2>3, <2>4, <2>5, LedgerCallOK
  <2> QED
    BY <2>1, <2>4, <2>6 DEF OtherCallOK
<1> QED
  BY <1>2, <1>3

LEMMA CollectedOK ==
    ASSUME NEW s, StateOK(s), NEW sources \in SUBSET Sources
    PROVE  OtherCallOK(s, Collected(s, sources))
<1>1. s \in WorkflowState
  BY DEF StateOK
<1> DEFINE status == IF s.status = "COLLECTING" THEN "DIAGNOSING" ELSE s.status
           t == [s EXCEPT !.sources = @ \union sources, !.status = status]
<1>2. /\ status \in Status
      /\ status = s.status \/ (s.status = "COLLECTING" /\ status = "DIAGNOSING")
  BY <1>1 DEF WorkflowState, Status
<1>3. Collected(s, sources) = t
  BY <1>1 DEF Collected, WorkflowState
<1> HIDE DEF status
<1>4. /\ t \in WorkflowState /\ s.sources \subseteq t.sources
      /\ t.service = s.service /\ t.verified = s.verified /\ t.usage = s.usage
      /\ t.done = s.done /\ t.proposal = s.proposal /\ t.dryRun = s.dryRun
      /\ t.selected = s.selected /\ t.error = s.error
      /\ t.status = s.status \/ (s.status = "COLLECTING" /\ t.status = "DIAGNOSING")
  BY <1>1, <1>2 DEF WorkflowState
<1> HIDE DEF t
<1>5. IsLedger(t.verified, t.sources)
  BY <1>4, LedgerStays DEF StateOK, WorkflowState
<1> QED
  BY <1>3, <1>4, <1>5, LedgerCallOK DEF OtherCallOK

\* A record that is scored again leaves the ledger one.
LEMMA MovedIsLedger ==
    ASSUME NEW verified, NEW sources, IsLedger(verified, sources), NEW k \in DOMAIN verified,
           NEW place \in Int, NEW grade \in Grades, grade = "passes" => Corroborated(sources)
    PROVE  IsLedger(Moved(verified, k, place, grade), sources)
<1> DEFINE moved == Moved(verified, k, place, grade)
<1>1. PICK n \in Nat : DOMAIN verified = 1..n /\ \A j \in 1..n : verified[j] \in VerifiedHypothesis
  BY DEF IsLedger
<1>2. ASSUME NEW j \in 1..n
      PROVE  /\ moved[j] \in VerifiedHypothesis
             /\ moved[j].grade = IF j = k THEN grade ELSE verified[j].grade
  <2>1. PICK new \in Int, g \in Grades :
          /\ moved[j] = [verified[j] EXCEPT !.place = new, !.grade = g]
          /\ g = IF j = k THEN grade ELSE verified[j].grade
    <3>1. CASE j = k
      BY <1>1, <3>1 DEF Moved
    <3>2. CASE j # k
      <4> DEFINE from == verified[k].place
                 at == verified[j].place
                 new == IF from < at /\ at <= place THEN at - 1
                        ELSE IF place <= at /\ at < from THEN at + 1 ELSE at
      <4>1. moved[j] = [verified[j] EXCEPT !.place = new]
        BY <1>1, <3>2 DEF Moved
      <4>2. at \in Int /\ verified[j].grade \in Grades /\ verified[j] \in VerifiedHypothesis
        BY <1>1 DEF VerifiedHypothesis
      <4>3. new \in Int
        BY <4>2
      <4> HIDE DEF new
      <4>4. [verified[j] EXCEPT !.place = new] = [verified[j] EXCEPT !.place = new, !.grade = verified[j].grade]
        BY <4>2 DEF VerifiedHypothesis
      <4> QED
        BY <3>2, <4>1, <4>2, <4>3, <4>4
    <3> QED
      BY <3>1, <3>2
  <2> QED
    BY <1>1, <2>1 DEF VerifiedHypothesis
<1>3. DOMAIN moved = 1..n /\ moved = [j \in 1..n |-> moved[j]]
  BY <1>1 DEF Moved
<1> HIDE DEF moved
<1>4. moved \in Seq(VerifiedHypothesis)
  BY <1>2, <1>3
<1> QED
  BY <1>1, <1>2, <1>3, <1>4 DEF IsLedger, moved

LEMMA RescoredOK ==
    ASSUME NEW s, StateOK(s), NEW h, NEW t \in Rescored(s, h)
    PROVE  CallOK(s, t)
<1>1. s \in WorkflowState /\ IsLedger(s.verified, s.sources)
  BY DEF StateOK
<1>2. CASE Records(s.verified, h) = {}
  BY <1>2, CorrectedOK DEF Rescored, Agents, OtherCallOK
<1>3. CASE Records(s.verified, h) # {}
  <2>1. PICK k \in FirstOf(s.verified, h) :
          \E place \in DOMAIN s.verified, g \in Regrades(s, s.verified[k].grade) :
            t = [s EXCEPT !.verified = Moved(@, k, place, g)]
    BY <1>3 DEF Rescored
  <2>2. PICK place \in DOMAIN s.verified, g \in Regrades(s, s.verified[k].grade) :
          t = [s EXCEPT !.verified = Moved(s.verified, k, place, g)]
    BY <1>1, <2>1 DEF WorkflowState
  <2> DEFINE verified == Moved(s.verified, k, place, g)
  <2>3. k \in DOMAIN s.verified /\ place \in Int
    BY <1>1 DEF FirstOf, Records, IsLedger
  <2>4. /\ g \in Grades
        /\ g = "passes" => Corroborated(s.sources)
    BY DEF Regrades, GradesFor, Grades
  <2>5. IsLedger(verified, s.sources)
    BY <1>1, <2>3, <2>4, MovedIsLedger
  <2>6. t = [s EXCEPT !.verified = verified]
    BY <2>2
  <2> HIDE DEF verified
  <2>7. /\ t \in WorkflowState /\ t.verified = verified
        /\ t.service = s.service /\ t.sources = s.sources /\ t.usage = s.usage
        /\ t.done = s.done /\ t.proposal = s.proposal /\ t.dryRun = s.dryRun
        /\ t.selected = s.selected /\ t.error = s.error /\ t.status = s.status
    BY <1>1, <2>5, <2>6 DEF WorkflowState, IsLedger
  <2> QED
    BY <2>5, <2>7, LedgerCallOK
<1> QED
  BY <1>2, <1>3

\* A verification writes over the ledger what it computed of an earlier one: no status
\* that is final is left, since the service and the copy must agree on it.
LEMMA VerifiedOK ==
    ASSUME NEW s, StateOK(s), NEW copy, copy.drafts \in Seq(Hypotheses),
           copy.sources \subseteq s.sources,
           NEW verdict \in Verdicts(copy.drafts, copy.sources)
    PROVE  /\ CallOK(s, Verified(s, copy, verdict))
           /\ Verified(s, copy, verdict).selected = s.selected
           /\ Verified(s, copy, verdict).status = "PROPOSING" => s.status = "PROPOSING"
<1>1. s \in WorkflowState /\ s.sources \in SUBSET Sources
  BY DEF StateOK, WorkflowState
<1>2. CASE \E h \in Range(copy.drafts) : From(copy, h) = "REFUTED"
  BY <1>2, CorrectedOK DEF Verified, OtherCallOK, Agents
<1>3. CASE ~\E h \in Range(copy.drafts) : From(copy, h) = "REFUTED"
  <2> DEFINE error == \E i \in DOMAIN verdict :
                 /\ verdict[i].status # From(copy, verdict[i].id)
                 /\ i \notin FirstMove(copy, verdict, verdict[i].id) \/ ~Legal(s, copy, verdict[i])
             first(h) == CHOOSE i \in FirstMove(copy, verdict, h) : TRUE
             moves(h) == \E i \in FirstMove(copy, verdict, h) : Legal(s, copy, verdict[i])
             service == [h \in Hypotheses |->
                 IF moves(h) THEN verdict[first(h)].status ELSE s.service[h]]
             t == [s EXCEPT !.verified = verdict, !.error = error, !.service = service]
  <2>1. Verified(s, copy, verdict) = t
    BY <1>1, <1>3 DEF Verified, WorkflowState
  <2>2. IsLedger(verdict, copy.sources)
        /\ \A i \in DOMAIN verdict : verdict[i].status \in {"EVIDENCE_SEARCHING", "REFUTED", "SUPPORTED"}
    BY VerdictsAreLedgers
  <2>3. IsLedger(verdict, s.sources)
    BY <1>1, <2>2, LedgerStays
  <2>4. \A h : moves(h) => first(h) \in FirstMove(copy, verdict, h)
    OBVIOUS
  <2>5. \A h : moves(h) => verdict[first(h)].status \in Lifecycle
    BY <2>2, <2>4 DEF FirstMove, Records, Lifecycle
  <2>6. service \in [Hypotheses -> Lifecycle]
    BY <1>1, <2>5 DEF WorkflowState
  <2>7. \A h \in Hypotheses :
          s.service[h] \in {"REFUTED", "ACCEPTED"} => service[h] = s.service[h]
    <3> SUFFICES ASSUME NEW h \in Hypotheses, s.service[h] \in {"REFUTED", "ACCEPTED"},
                        NEW i \in FirstMove(copy, verdict, h)
                 PROVE  ~Legal(s, copy, verdict[i])
      OBVIOUS
    <3>1. verdict[i].id = h /\ verdict[i].status # From(copy, h)
      BY DEF FirstMove, Records
    <3> QED
      BY <3>1 DEF Legal, CanTransitionHypothesis
  <2> HIDE DEF error, service
  <2>8. error \in BOOLEAN
    BY DEF error
  <2>9. /\ t \in WorkflowState /\ t.verified = verdict /\ t.service = service
        /\ t.sources = s.sources /\ t.usage = s.usage
        /\ t.done = s.done /\ t.proposal = s.proposal /\ t.dryRun = s.dryRun
        /\ t.selected = s.selected /\ t.status = s.status
    BY <1>1, <2>3, <2>6, <2>8 DEF WorkflowState, IsLedger
  <2> HIDE DEF t
  <2>10. CallOK(s, t)
    BY <2>3, <2>7, <2>9, LedgerCallOK
  <2> QED
    BY <2>1, <2>9, <2>10
<1> QED
  BY <1>2, <1>3

\* What the ranker selects passed on corroborated evidence.
LEMMA DiagnosableOK ==
    ASSUME NEW s, StateOK(s), NEW h, Diagnosable(s, h)
    PROVE  h \in Hypotheses /\ Corroborated(s.sources)
<1>1. PICK i \in Ranked(s.verified) : s.verified[i].id = h /\ s.verified[i].grade = "passes"
  BY DEF Diagnosable
<1>2. i \in DOMAIN s.verified /\ s.verified[i] \in VerifiedHypothesis
  BY DEF Ranked, StateOK, IsLedger
<1> QED
  BY <1>1, <1>2 DEF StateOK, IsLedger, VerifiedHypothesis

\* submit_diagnosis: a proposal may follow only for the hypothesis that was diagnosed.
LEMMA DiagnosedOK ==
    ASSUME NEW s, StateOK(s), NEW h, NEW known \in BOOLEAN
    PROVE  /\ CallOK(s, Diagnosed(s, h, known))
           /\ \/ OtherCallOK(s, Diagnosed(s, h, known))
              \/ Diagnosed(s, h, known).selected = h /\ h \in Hypotheses
<1>1. s \in WorkflowState /\ IsLedger(s.verified, s.sources)
  BY DEF StateOK
<1>2. CASE ~(Diagnosable(s, h) /\ known)
  BY <1>2, CorrectedOK DEF Diagnosed, OtherCallOK, Agents
<1>3. CASE Diagnosable(s, h) /\ known /\ s.service[h] # "SUPPORTED"
  <2> DEFINE t == [s EXCEPT !.selected = h, !.error = TRUE]
  <2>1. Diagnosed(s, h, known) = t
    BY <1>3 DEF Diagnosed
  <2>2. h \in Hypotheses
    BY <1>3, DiagnosableOK
  <2>3. /\ t \in WorkflowState /\ t.error /\ t.selected = h
        /\ t.verified = s.verified /\ t.service = s.service /\ t.sources = s.sources
        /\ t.usage = s.usage /\ t.status = s.status
    BY <1>1, <2>2 DEF WorkflowState
  <2> HIDE DEF t
  <2>4. CallOK(s, t)
    BY <2>3 DEF CallOK, StateOK, WithinBudget, Keeps
  <2> QED
    BY <2>1, <2>2, <2>3, <2>4
<1>4. CASE Diagnosable(s, h) /\ known /\ s.service[h] = "SUPPORTED"
  <2> DEFINE accepted(i) == IF i \notin FirstOf(s.verified, h) THEN s.verified[i]
                            ELSE [s.verified[i] EXCEPT !.status = "ACCEPTED"]
             verified == [i \in DOMAIN s.verified |-> accepted(i)]
             service == [s.service EXCEPT ![h] = "ACCEPTED"]
             status == AfterMove(s.status, "PROPOSING")
             t == [s EXCEPT !.selected = h, !.service = service, !.verified = verified,
                            !.status = status, !.done = @ \union {"diagnosis"}]
  <2>1. Diagnosed(s, h, known) = t
    BY <1>1, <1>4 DEF Diagnosed, Done, WorkflowState
  <2>2. h \in Hypotheses /\ Corroborated(s.sources)
    BY <1>4, DiagnosableOK
  <2>3. \A i \in DOMAIN s.verified :
          /\ accepted(i) \in VerifiedHypothesis
          /\ accepted(i).id = s.verified[i].id /\ accepted(i).grade = s.verified[i].grade
    <3> SUFFICES ASSUME NEW i \in DOMAIN s.verified
                 PROVE  /\ accepted(i) \in VerifiedHypothesis
                        /\ accepted(i).id = s.verified[i].id
                        /\ accepted(i).grade = s.verified[i].grade
      OBVIOUS
    <3>1. s.verified[i] \in VerifiedHypothesis
      BY <1>1 DEF IsLedger
    <3> QED
      BY <3>1 DEF VerifiedHypothesis, Lifecycle
  <2> HIDE DEF accepted
  <2>4. IsLedger(verified, s.sources)
    <3>1. PICK n \in Nat : DOMAIN s.verified = 1..n
      BY <1>1 DEF IsLedger
    <3>2. verified \in Seq(VerifiedHypothesis)
      BY <2>3, <3>1
    <3> QED
      BY <1>1, <2>3, <3>2 DEF IsLedger
  <2>5. service \in [Hypotheses -> Lifecycle] /\ service[h] = "ACCEPTED"
        /\ \A x \in Hypotheses : s.service[x] \in {"REFUTED", "ACCEPTED"} => service[x] = s.service[x]
    BY <1>1, <1>4, <2>2 DEF WorkflowState, Lifecycle
  <2>6. /\ status \in {"COLLECTING", "DIAGNOSING", "PROPOSING", "NEEDS_ATTENTION"}
        /\ s.status = "NEEDS_ATTENTION" => status = "NEEDS_ATTENTION"
        /\ s.status = "PROPOSING" => status = "PROPOSING"
    BY StatusMoves DEF StateOK
  <2> HIDE DEF verified, service, status
  <2>7. /\ t \in WorkflowState /\ t.selected = h /\ t.service = service
        /\ t.verified = verified /\ t.status = status /\ t.done = s.done \union {"diagnosis"}
        /\ t.sources = s.sources /\ t.usage = s.usage
        /\ t.proposal = s.proposal /\ t.dryRun = s.dryRun
    BY <1>1, <2>2, <2>4, <2>5, <2>6 DEF WorkflowState, IsLedger, Agents, Status
  <2> HIDE DEF t
  <2>8. StateOK(t)
    BY <2>4, <2>6, <2>7 DEF StateOK, WithinBudget
  <2>9. Firm(t) /\ (ResultEarned(s) => ResultEarned(t))
    <3>1. SelectionEarned(t) /\ Firm(t)
      BY <2>2, <2>5, <2>7, AgentsAssumption DEF SelectionEarned, Accepted, Firm
    <3> QED
      BY <2>6, <2>7, <3>1 DEF ResultEarned, OutcomeIsValid
  <2>10. Keeps(s, t)
    BY <2>5, <2>6, <2>7, <2>9 DEF Keeps
  <2> QED
    BY <2>1, <2>2, <2>7, <2>8, <2>10 DEF CallOK
<1> QED
  BY <1>2, <1>3, <1>4

\* The tools of the recovery agent and of the supervisor leave the diagnosis alone.
LEMMA ProposedOK ==
    ASSUME NEW s, StateOK(s), NEW p \in Proposals
    PROVE  OtherCallOK(s, Proposed(s, p))
<1> DEFINE t == [s EXCEPT !.proposal = p]
<1>1. /\ t \in WorkflowState /\ t.proposal = p
      /\ t.verified = s.verified /\ t.service = s.service /\ t.sources = s.sources
      /\ t.usage = s.usage /\ t.status = s.status /\ t.done = s.done
      /\ t.dryRun = s.dryRun /\ t.selected = s.selected /\ t.error = s.error
  BY DEF StateOK, WorkflowState
<1> HIDE DEF t
<1>2. StateOK(t)
  BY <1>1 DEF StateOK, WithinBudget
<1>3. Keeps(s, t)
  BY <1>1, AgentsAssumption
  DEF Keeps, Firm, ResultEarned, SelectionEarned, Accepted, OutcomeIsValid
<1> QED
  BY <1>1, <1>2, <1>3 DEF OtherCallOK, CallOK, Proposed, t

LEMMA DryRunOK ==
    ASSUME NEW s, StateOK(s)
    PROVE  OtherCallOK(s, DryRun(s))
<1>1. CASE s.proposal = None
  BY <1>1, CorrectedOK DEF DryRun, Agents
<1>2. CASE s.proposal # None
  <2> DEFINE t == [s EXCEPT !.dryRun = s.proposal]
  <2>1. DryRun(s) = t
    BY <1>2 DEF DryRun
  <2>2. /\ t \in WorkflowState /\ t.dryRun = s.proposal
        /\ t.verified = s.verified /\ t.service = s.service /\ t.sources = s.sources
        /\ t.usage = s.usage /\ t.status = s.status /\ t.done = s.done
        /\ t.proposal = s.proposal /\ t.selected = s.selected /\ t.error = s.error
    BY DEF StateOK, WorkflowState
  <2> HIDE DEF t
  <2>3. StateOK(t)
    BY <2>2 DEF StateOK, WithinBudget
  <2>4. Keeps(s, t)
    BY <1>2, <2>2 DEF Keeps, Firm, ResultEarned, SelectionEarned, Accepted, OutcomeIsValid
  <2> QED
    BY <2>1, <2>2, <2>3, <2>4 DEF OtherCallOK, CallOK
<1> QED
  BY <1>1, <1>2

LEMMA DoneOK ==
    ASSUME NEW s, StateOK(s), NEW a \in Agents, a = "supervisor" => OutcomeIsValid(s)
    PROVE  OtherCallOK(s, Done(s, a))
<1> DEFINE t == [s EXCEPT !.done = @ \union {a}]
<1>1. /\ t \in WorkflowState /\ t.done = s.done \union {a}
      /\ t.verified = s.verified /\ t.service = s.service /\ t.sources = s.sources
      /\ t.usage = s.usage /\ t.status = s.status /\ t.proposal = s.proposal
      /\ t.dryRun = s.dryRun /\ t.selected = s.selected /\ t.error = s.error
  BY DEF StateOK, WorkflowState
<1> HIDE DEF t
<1>2. StateOK(t)
  BY <1>1 DEF StateOK, WithinBudget
<1>3. Keeps(s, t)
  BY <1>1 DEF Keeps, Firm, ResultEarned, SelectionEarned, Accepted, OutcomeIsValid
<1> QED
  BY <1>1, <1>2, <1>3 DEF OtherCallOK, CallOK, Done, t

LEMMA UsageCharged ==
    ASSUME NEW usage \in Usage, NEW n \in Nat
    PROVE  LET used == [usage EXCEPT !.iterations = usage.iterations + 1, !.tools = usage.tools + n]
           IN /\ used \in Usage /\ used.iterations = usage.iterations + 1
              /\ used.tools = usage.tools + n /\ used.corrections = usage.corrections
<1> DEFINE first == [usage EXCEPT !.iterations = usage.iterations + 1]
<1>1. /\ first \in Usage /\ first.iterations = usage.iterations + 1
      /\ first.tools = usage.tools /\ first.corrections = usage.corrections
  BY DEF Usage
<1> HIDE DEF first
<1>2. LET used == [first EXCEPT !.tools = usage.tools + n]
      IN /\ used \in Usage /\ used.iterations = first.iterations
         /\ used.tools = usage.tools + n /\ used.corrections = first.corrections
  <2>1. usage.tools + n \in Nat
    BY DEF Usage
  <2> QED
    BY <1>1, <2>1 DEF Usage
<1> QED
  BY <1>1, <1>2 DEF first

\* A turn is charged only when the budget has room for it.
LEMMA ChargedOK ==
    ASSUME NEW s, StateOK(s), NEW a \in Agents, NEW calls, Len(calls) \in Nat,
           s.usage[a].iterations < MaxIterations[a],
           s.usage[a].tools + Len(calls) <= MaxToolUses[a]
    PROVE  OtherCallOK(s, Charged(s, a, calls))
<1>1. s \in WorkflowState /\ s.usage \in [Agents -> Usage] /\ s.usage[a] \in Usage
  BY DEF StateOK, WorkflowState
<1> DEFINE n == Len(calls)
           usage == s.usage[a]
           used == [usage EXCEPT !.iterations = usage.iterations + 1, !.tools = usage.tools + n]
           t == [s EXCEPT !.usage = [s.usage EXCEPT ![a] = used]]
<1>2. n \in Nat /\ usage \in Usage
  BY <1>1
<1>3. Charged(s, a, calls) = t
  <2>1. Charged(s, a, calls) =
          [s EXCEPT !.usage = [s.usage EXCEPT ![a] = [usage EXCEPT !.iterations = @ + 1, !.tools = @ + n]]]
    BY <1>1 DEF Charged, WorkflowState, Usage
  <2> QED
    BY <2>1
<1> HIDE DEF n, usage
<1>4. /\ used \in Usage /\ used.iterations = usage.iterations + 1
      /\ used.tools = usage.tools + n
      /\ used.corrections = usage.corrections
  BY <1>2, UsageCharged
<1> USE DEF usage
<1> HIDE DEF used
<1>5. /\ t \in WorkflowState /\ t.usage = [s.usage EXCEPT ![a] = used]
      /\ t.verified = s.verified /\ t.service = s.service /\ t.sources = s.sources
      /\ t.done = s.done /\ t.status = s.status /\ t.proposal = s.proposal
      /\ t.dryRun = s.dryRun /\ t.selected = s.selected /\ t.error = s.error
  BY <1>1, <1>4 DEF WorkflowState
<1> HIDE DEF t
<1>6. WithinBudget(t)
  <2> SUFFICES ASSUME NEW b \in Agents
               PROVE  /\ t.usage[b].iterations <= MaxIterations[b]
                      /\ t.usage[b].tools <= MaxToolUses[b]
                      /\ t.usage[b].corrections <= MaxCorrections[b]
    BY DEF WithinBudget
  <2>1. CASE b = a
    <3>1. t.usage[b] = used
      BY <1>1, <1>5, <2>1
    <3>2. s.usage[a].corrections <= MaxCorrections[a]
      BY DEF StateOK, WithinBudget
    <3> QED
      BY <1>1, <1>4, <1>2, <2>1, <3>1, <3>2, AgentsAssumption DEF Usage, n
  <2>2. CASE b # a
    BY <1>1, <1>5, <2>2 DEF StateOK, WithinBudget
  <2> QED
    BY <2>1, <2>2
<1>7. StateOK(t)
  BY <1>5, <1>6 DEF StateOK
<1>8. Keeps(s, t)
  BY <1>5 DEF Keeps, Firm, ResultEarned, SelectionEarned, Accepted, OutcomeIsValid
<1> QED
  BY <1>3, <1>5, <1>7, <1>8 DEF OtherCallOK, CallOK

\* Every call: only submit_diagnosis may select a hypothesis or fail the run, and only
\* it and a new score change the ledger.
LEMMA EffectsOK ==
    ASSUME NEW s, StateOK(s),
           NEW tool \in DiagnosisTools \union SequentialTools("supervisor") \union RecoveryTools,
           tool \notin {"verify_incident_hypotheses", "diagnosis", "recovery"},
           NEW t \in Effects(s, tool)
    PROVE  /\ CallOK(s, t)
           /\ tool \notin {"submit_diagnosis", "score_hypothesis_causality"} => OtherCallOK(s, t)
<1>1. OtherCallOK(s, s)
  BY DEF OtherCallOK, CallOK, Keeps
<1>2. \A a \in Agents : OtherCallOK(s, Corrected(s, a)) /\ OtherCallOK(s, Refused(s, a))
  BY CorrectedOK, RefusedOK
<1>3. CASE tool \in Sources
  <2>1. t \in {s, Collected(s, {}), Collected(s, {tool}), Corrected(s, "diagnosis")}
    BY <1>3, ToolNames DEF Effects, TerminalTools, RecoveryTools
  <2> QED
    BY <1>1, <1>2, <1>3, <2>1, CollectedOK DEF Agents, OtherCallOK
<1> DEFINE Is(name) == tool = name /\ tool \notin Sources
<1>4. CASE Is("reason")
  BY <1>1, <1>2, <1>4 DEF Effects, Agents, OtherCallOK
<1>5. CASE Is("submit_hypotheses")
  <2>1. PICK hs \in Submissions : t = Recorded(s, hs)
    BY <1>5 DEF Effects
  <2>2. hs \in Seq(Hypotheses)
    BY AgentsAssumption DEF Submissions, BoundedSeq, SeqOf
  <2> QED
    BY <2>1, <2>2, RecordedOK DEF OtherCallOK
<1>6. CASE Is("score_hypothesis_causality")
  BY <1>6, RescoredOK DEF Effects, OtherCallOK
<1>7. CASE Is("submit_diagnosis")
  BY <1>7, DiagnosedOK DEF Effects
<1>8. CASE Is("escalate_diagnosis")
  BY <1>2, <1>8 DEF Effects, Agents, OtherCallOK
<1>9. CASE Is("submit_recovery_proposal")
  BY <1>2, <1>9, ProposedOK DEF Effects, Agents, OtherCallOK
<1>10. CASE Is("dry_run_recovery_proposal")
  BY <1>2, <1>10, DryRunOK DEF Effects, Agents, OtherCallOK
<1>11. CASE Is("accept_recovery_proposal")
  <2>1. OtherCallOK(s, AcceptedRecovery(s))
    BY <1>2, DoneOK DEF AcceptedRecovery, Agents
  <2> QED
    BY <1>2, <1>11, <2>1 DEF Effects, Agents, OtherCallOK
<1>12. CASE Is("escalate_recovery")
  BY <1>2, <1>12 DEF Effects, Agents, OtherCallOK
<1>13. CASE Is("submit_supervisor_outcome")
  <2>1. OtherCallOK(s, Submitted(s))
    BY <1>2, DoneOK DEF Submitted, Agents
  <2> QED
    BY <1>13, <2>1 DEF Effects, OtherCallOK
<1>14. CASE Is("escalate_incident")
  BY <1>2, <1>14 DEF Effects, Agents, OtherCallOK
<1> QED
  BY <1>3, <1>4, <1>5, <1>6, <1>7, <1>8, <1>9, <1>10, <1>11, <1>12, <1>13, <1>14
  DEF DiagnosisTools, RecoveryTools, SequentialTools

-----------------------------------------------------------------------------
(* Steps of the agents *)

\* A step of the agents that moves the state on.
MovesOn ==
    /\ StateOK(state') /\ run' \in {"running", "failed", "ended"}
    /\ run' = "running" => ~state'.error /\ ResultEarned(state')
    /\ run' = "ended" => ResultEarned(state') /\ OutcomeIsValid(state')
    /\ state.sources \subseteq state'.sources
    /\ \A h \in Hypotheses :
          state.service[h] \in {"REFUTED", "ACCEPTED"} => state'.service[h] = state.service[h]
    /\ state.status = "NEEDS_ATTENTION" => state'.status = "NEEDS_ATTENTION"
    /\ state.status = "PROPOSING" => state'.status \in {"PROPOSING", "NEEDS_ATTENTION"}
    /\ run' = "running" /\ Firm(state) => Firm(state')
    /\ NoDiagnosis => state'.selected = state.selected

\* What every step of the agents keeps.
AgentsStepOK ==
    /\ AgentsInv' /\ run' # "idle" /\ state.sources \subseteq state'.sources
    /\ \A h \in Hypotheses : state.service[h] = "REFUTED" => state'.service[h] = "REFUTED"
    /\ method # "react" => DiagnosisIsOver'
    /\ Deterministic /\ run' # "failed" => IsArbitrated'

\* An agent is about to make a step.
Stepping ==
    IInv /\ node = "agents" /\ run = "running" /\ UNCHANGED <<method, node, rt>>

LEMMA MovedOn ==
    ASSUME Stepping, MovesOn, agent' \in Agents, DOMAIN todo' = Agents,
           \A a \in Agents : todo'[a] \in Seq(SequentialTools(a)),
           agent' # "supervisor" => todo'["supervisor"] # <<>>,
           \A call \in DOMAIN flight' : IsCall(call, state'.sources),
           NoDiagnosis /\ state.status \in {"PROPOSING", "NEEDS_ATTENTION"} => NoDiagnosis'
    PROVE  AgentsStepOK
<1>1. run' = "running" /\ state'.status = "PROPOSING" =>
        NoDiagnosis' \/ state'.service[state'.selected] = "ACCEPTED"
  BY DEF Stepping, IInv, AgentsInv, MovesOn, Firm
<1>2. AgentsInv'
  BY <1>1 DEF AgentsInv, MovesOn
<1>3. ASSUME method # "react"
      PROVE  DiagnosisIsOver'
  <2>1. DiagnosisIsOver
    BY <1>3 DEF Stepping, IInv, GraphInv
  <2> QED
    BY <2>1 DEF Stepping, MovesOn, DiagnosisIsOver
<1>4. ASSUME Deterministic, run' # "failed"
      PROVE  IsArbitrated'
  <2>1. IsArbitrated /\ NoDiagnosis /\ state.status \in {"PROPOSING", "NEEDS_ATTENTION"}
    BY <1>4 DEF Stepping, IInv, GraphInv, DiagnosisIsOver, Deterministic
  <2> QED
    BY <2>1 DEF Stepping, MovesOn, IsArbitrated
<1> QED
  BY <1>2, <1>3, <1>4 DEF AgentsStepOK, MovesOn

LEMMA TailOK ==
    ASSUME NEW S, NEW q \in Seq(S), q # <<>>
    PROVE  Tail(q) \in Seq(S) /\ Range(Tail(q)) \subseteq Range(q)
<1>1. /\ Tail(q) \in Seq(S)
      /\ \A i \in DOMAIN Tail(q) : i + 1 \in DOMAIN q /\ Tail(q)[i] = q[i + 1]
  OBVIOUS
<1> QED
  BY <1>1 DEF Range

\* Steps that leave the calls that are left, or some of them.
LEMMA MovedOnAlong ==
    ASSUME Stepping, MovesOn, UNCHANGED agent, DOMAIN todo' = Agents,
           \A a \in Agents : todo'[a] = todo[a] \/ (todo[a] # <<>> /\ todo'[a] = Tail(todo[a])),
           agent # "supervisor" => todo'["supervisor"] = todo["supervisor"],
           DOMAIN flight' \subseteq DOMAIN flight
    PROVE  AgentsStepOK
<1>1. \A a \in Agents : /\ todo'[a] \in Seq(SequentialTools(a))
                        /\ Range(todo'[a]) \subseteq Range(todo[a])
  <2> TAKE a \in Agents
  <2>1. todo[a] \in Seq(SequentialTools(a))
    BY DEF Stepping, IInv, AgentsInv
  <2>2. CASE todo'[a] = todo[a]
    BY <2>1, <2>2
  <2>3. CASE todo[a] # <<>> /\ todo'[a] = Tail(todo[a])
    BY <2>1, <2>3, TailOK
  <2> QED
    BY <2>2, <2>3
<1>2. \A call \in DOMAIN flight' : IsCall(call, state'.sources)
  <2>1. \A call \in DOMAIN flight : IsCall(call, state.sources)
    BY DEF Stepping, IInv, AgentsInv
  <2>2. state.sources \subseteq state'.sources
    BY DEF MovesOn
  <2> QED
    BY <2>1, <2>2 DEF IsCall
<1>3. NoDiagnosis => NoDiagnosis'
  BY <1>1 DEF NoDiagnosis, Agents
<1>4. agent \in Agents /\ (agent # "supervisor" => todo["supervisor"] # <<>>)
  BY DEF Stepping, IInv, AgentsInv
<1> QED
  BY <1>1, <1>2, <1>3, <1>4, MovedOn DEF Agents

\* The error of a call ends the run.
LEMMA AfterMovesOn ==
    ASSUME Stepping, NEW s, CallOK(state, s), After(s),
           NoDiagnosis => s.selected = state.selected /\ s.verified = state.verified
    PROVE  MovesOn
<1>1. s \in WorkflowState /\ StateOK(s) /\ Keeps(state, s)
  BY DEF CallOK, StateOK
<1>2. /\ state' \in WorkflowState /\ ~state'.error
      /\ state'.verified = s.verified /\ state'.service = s.service
      /\ state'.sources = s.sources /\ state'.usage = s.usage /\ state'.done = s.done
      /\ state'.status = s.status /\ state'.proposal = s.proposal
      /\ state'.dryRun = s.dryRun /\ state'.selected = s.selected
  BY <1>1 DEF After, WorkflowState
<1>3. StateOK(state')
  BY <1>1, <1>2 DEF StateOK, WithinBudget
<1>4. run' \in {"running", "failed"} /\ (run' = "running" => ~s.error)
  BY DEF After
<1>5. run' = "running" => ResultEarned(state') /\ (Firm(state) => Firm(state'))
  <2>1. ResultEarned(state) /\ (Firm(state) \/ NoDiagnosis)
    BY DEF Stepping, IInv, AgentsInv, Firm
  <2>2. run' = "running" => ResultEarned(s) /\ (Firm(state) => Firm(s))
    BY <1>1, <1>4, <2>1 DEF Keeps
  <2> QED
    BY <1>2, <2>2 DEF ResultEarned, SelectionEarned, Accepted, OutcomeIsValid, Firm
<1> QED
  BY <1>1, <1>2, <1>3, <1>4, <1>5 DEF MovesOn, Keeps

\* A call that was refused, corrected or charged goes on.
LEMMA OtherMovesOn ==
    ASSUME Stepping, OtherCallOK(state, state'), run' = run
    PROVE  MovesOn
<1>1. ResultEarned(state) /\ ~state.error
  BY DEF Stepping, IInv, AgentsInv
<1> QED
  BY <1>1 DEF Stepping, OtherCallOK, CallOK, Keeps, MovesOn

\* A call that is charged again, as long as the budget has room for it.
LEMMA AdmittedOK ==
    ASSUME NEW s, StateOK(s), NEW a \in Agents, NEW t \in Admitted(s, a)
    PROVE  OtherCallOK(s, t)
<1>1. CASE t = s
  BY <1>1 DEF OtherCallOK, CallOK, Keeps
<1>2. CASE RemainingTools(s, a) > 0 /\ t = [s EXCEPT !.usage[a].tools = @ + 1]
  <2>1. s \in WorkflowState /\ s.usage \in [Agents -> Usage] /\ s.usage[a] \in Usage
    BY DEF StateOK, WorkflowState
  <2> DEFINE used == [s.usage[a] EXCEPT !.tools = @ + 1]
  <2>2. /\ used \in Usage /\ used.tools = s.usage[a].tools + 1
        /\ used.iterations = s.usage[a].iterations
        /\ used.corrections = s.usage[a].corrections
    BY <2>1 DEF Usage
  <2>3. t = [s EXCEPT !.usage = [s.usage EXCEPT ![a] = used]]
    BY <1>2, <2>1 DEF WorkflowState
  <2> HIDE DEF used
  <2>4. /\ t \in WorkflowState /\ t.usage = [s.usage EXCEPT ![a] = used]
        /\ t.verified = s.verified /\ t.service = s.service /\ t.sources = s.sources
        /\ t.done = s.done /\ t.status = s.status /\ t.proposal = s.proposal
        /\ t.dryRun = s.dryRun /\ t.selected = s.selected /\ t.error = s.error
    BY <2>1, <2>2, <2>3 DEF WorkflowState
  <2>5. s.usage[a].tools + 1 <= MaxToolUses[a]
    BY <1>2, <2>1, AgentsAssumption DEF RemainingTools, Usage
  <2>6. WithinBudget(t)
    BY <2>1, <2>2, <2>4, <2>5 DEF StateOK, WithinBudget
  <2>7. StateOK(t)
    BY <2>4, <2>6 DEF StateOK
  <2>8. Keeps(s, t)
    BY <2>4 DEF Keeps, Firm, ResultEarned, SelectionEarned, Accepted, OutcomeIsValid
  <2> QED
    BY <2>4, <2>7, <2>8 DEF OtherCallOK, CallOK
<1> QED
  BY <1>1, <1>2 DEF Admitted

LEMMA CallFailsOK == ASSUME Stepping, CallFails PROVE AgentsStepOK
<1>1. MovesOn
  BY DEF Stepping, IInv, AgentsInv, CallFails, MovesOn
<1> QED
  BY <1>1, MovedOnAlong DEF CallFails, Stepping, IInv, AgentsInv

LEMMA DelegationRefusedOK == ASSUME Stepping, DelegationRefused PROVE AgentsStepOK
<1>1. StateOK(state) /\ ~state.error
  BY DEF Stepping, IInv, AgentsInv
<1>2. PICK s \in Admitted(state, "supervisor") : state' = Refused(s, "supervisor")
  BY DEF DelegationRefused
<1>3. OtherCallOK(state, s)
  BY <1>1, AdmittedOK DEF Agents
<1>4. OtherCallOK(state, state')
  BY <1>1, <1>2, <1>3, RefusedOK, CallsCompose DEF OtherCallOK, CallOK, Agents
<1>5. MovesOn
  BY <1>4, OtherMovesOn DEF DelegationRefused
<1> QED
  BY <1>5, MovedOnAlong DEF DelegationRefused, Stepping, IInv, AgentsInv

LEMMA DelegateOK == ASSUME Stepping, Delegate PROVE AgentsStepOK
<1>1. MovesOn
  <2>1. StateOK(state)
    BY DEF Stepping, IInv, AgentsInv
  <2>2. OtherCallOK(state, state')
    BY <2>1, AdmittedOK DEF Delegate, Agents
  <2> QED
    BY <2>2, OtherMovesOn DEF Delegate
<1>2. Head(todo["supervisor"]) \in Range(todo["supervisor"])
  <2>1. todo["supervisor"] \in Seq(SequentialTools("supervisor")) /\ todo["supervisor"] # <<>>
    BY DEF Stepping, IInv, AgentsInv, Delegate, Agents
  <2> QED
    BY <2>1 DEF Range
<1>3. agent' \in Agents /\ (NoDiagnosis => NoDiagnosis')
  BY <1>2 DEF NoDiagnosis, Delegate, Agents
<1>4. \A call \in DOMAIN flight' : IsCall(call, state'.sources)
  BY <1>1 DEF MovesOn, IsCall, Delegate, Stepping, IInv, AgentsInv
<1>5. /\ DOMAIN todo' = Agents /\ todo' = todo /\ todo["supervisor"] # <<>>
      /\ \A a \in Agents : todo[a] \in Seq(SequentialTools(a))
  BY DEF Delegate, Stepping, IInv, AgentsInv
<1> QED
  BY <1>1, <1>3, <1>4, <1>5, MovedOn

LEMMA SequentialCallOK ==
    ASSUME Stepping, NEW a \in {"supervisor", "recovery"}, SequentialCall(a)
    PROVE  AgentsStepOK
<1> DEFINE tool == Head(todo[a])
<1>1. PICK charged \in Admitted(state, a) :
        \E s \in Effects(charged, tool) \union {Refused(charged, a)} : After(s)
  BY DEF SequentialCall
<1>2. OtherCallOK(state, charged) /\ StateOK(charged) /\ ~state.error
  <2>1. StateOK(state) /\ ~state.error
    BY DEF Stepping, IInv, AgentsInv
  <2> QED
    BY <1>1, <2>1, AdmittedOK DEF OtherCallOK, CallOK, Agents
<1>3. tool \in SequentialTools(a) /\ tool \notin {"diagnosis", "recovery"}
  <2>1. todo[a] \in Seq(SequentialTools(a)) /\ todo[a] # <<>>
    BY DEF Stepping, IInv, AgentsInv, SequentialCall, Agents
  <2> QED
    BY <2>1 DEF SequentialCall
<1>4. PICK s \in Effects(charged, tool) \union {Refused(charged, a)} : After(s)
  BY <1>1
<1>5. OtherCallOK(state, s)
  <2>1. /\ tool \in SequentialTools("supervisor") \union RecoveryTools
        /\ tool \notin {"verify_incident_hypotheses", "diagnosis", "recovery",
                        "submit_diagnosis", "score_hypothesis_causality"}
    BY <1>3 DEF SequentialTools, RecoveryTools
  <2> HIDE DEF tool
  <2>2. OtherCallOK(charged, s)
    BY <1>2, <1>4, <2>1, EffectsOK, RefusedOK DEF Agents
  <2> QED
    BY <1>2, <2>2, CallsCompose DEF OtherCallOK
<1>6. MovesOn
  BY <1>4, <1>5, AfterMovesOn DEF OtherCallOK
<1> QED
  BY <1>6, MovedOnAlong DEF SequentialCall, Stepping, IInv, AgentsInv

\* While the diagnosis agent has calls in flight.
LEMMA InFlightOK ==
    ASSUME Stepping, NEW call, InFlight(call)
    PROVE  IsCall(call, state.sources) /\ ~NoDiagnosis
BY DEF Stepping, IInv, AgentsInv, NoDiagnosis, InFlight

LEMMA LandedOK ==
    ASSUME NEW call, Landed(call)
    PROVE  DOMAIN flight' \subseteq DOMAIN flight
BY DEF Landed, (-), SetToBag

LEMMA ParallelCallOK ==
    ASSUME Stepping, NEW call, ParallelCall(call)
    PROVE  AgentsStepOK
<1>1. PICK charged \in Admitted(state, "diagnosis") :
        \/ call.tool # "verify_incident_hypotheses" /\ \E s \in Effects(charged, call.tool) : After(s)
        \/ After(Refused(charged, "diagnosis"))
  BY DEF ParallelCall
<1>2. OtherCallOK(state, charged) /\ StateOK(charged) /\ ~state.error
  <2>1. StateOK(state) /\ ~state.error
    BY DEF Stepping, IInv, AgentsInv
  <2> QED
    BY <1>1, <2>1, AdmittedOK DEF OtherCallOK, CallOK, Agents
<1>3. IsCall(call, state.sources) /\ ~NoDiagnosis
  BY InFlightOK DEF ParallelCall
<1>4. \E s : CallOK(state, s) /\ After(s)
  <2>1. \E s : CallOK(charged, s) /\ After(s)
    <3>1. CASE After(Refused(charged, "diagnosis"))
      BY <1>2, <3>1, RefusedOK DEF Agents, OtherCallOK
    <3>2. ASSUME call.tool # "verify_incident_hypotheses",
                 NEW s \in Effects(charged, call.tool), After(s)
          PROVE  CallOK(charged, s) /\ After(s)
      <4>1. call.tool \in DiagnosisTools /\ call.tool \notin {"diagnosis", "recovery"}
        BY <1>3, ToolNames DEF IsCall, DiagnosisTools
      <4> QED
        BY <1>2, <3>2, <4>1, EffectsOK
    <3> QED
      BY <1>1, <3>1, <3>2
  <2> QED
    BY <1>2, <2>1, CallsCompose
<1>5. MovesOn
  BY <1>3, <1>4, AfterMovesOn
<1> QED
  BY <1>5, MovedOnAlong, LandedOK DEF ParallelCall, Stepping, IInv, AgentsInv

LEMMA VerifyReadsOK ==
    ASSUME Stepping, NEW call, VerifyReads(call)
    PROVE  AgentsStepOK
<1> DEFINE copied == [call EXCEPT !.copy = Copied(state)]
<1>1. MovesOn
  <2>1. StateOK(state)
    BY DEF Stepping, IInv, AgentsInv
  <2>2. OtherCallOK(state, state')
    BY <2>1, AdmittedOK DEF VerifyReads, Agents
  <2> QED
    BY <2>2, OtherMovesOn DEF VerifyReads
<1>2. IsCall(call, state.sources) /\ ~NoDiagnosis
  BY InFlightOK DEF VerifyReads
<1>3. IsCall(copied, state.sources)
  <2>1. copied = [tool |-> call.tool, copy |-> Copied(state)]
    BY <1>2 DEF IsCall
  <2>2. /\ Copied(state).drafts \in Seq(Hypotheses)
        /\ IsLedger(Copied(state).verified, Copied(state).sources)
        /\ Copied(state).sources = state.sources
    BY DEF Copied, Stepping, IInv, AgentsInv, StateOK, WorkflowState
  <2> HIDE DEF copied
  <2> QED
    BY <1>2, <2>1, <2>2 DEF IsCall
<1> HIDE DEF copied
<1>4. DOMAIN flight' \subseteq DOMAIN flight \union {copied}
  BY DEF VerifyReads, copied, (-), (+), SetToBag
<1>5. \A c \in DOMAIN flight' : IsCall(c, state'.sources)
  <2>1. \A c \in DOMAIN flight' : IsCall(c, state.sources)
    BY <1>3, <1>4 DEF Stepping, IInv, AgentsInv
  <2> QED
    BY <1>1, <2>1 DEF IsCall, MovesOn
<1> QED
  BY <1>1, <1>2, <1>5, MovedOn DEF VerifyReads, Stepping, IInv, AgentsInv

LEMMA VerifyWritesOK ==
    ASSUME Stepping, NEW call, VerifyWrites(call)
    PROVE  AgentsStepOK
<1>1. IsCall(call, state.sources) /\ ~NoDiagnosis
  BY InFlightOK DEF VerifyWrites
<1>2. StateOK(state)
  BY DEF Stepping, IInv, AgentsInv
<1>3. CASE After(Corrected(state, "diagnosis"))
  <2>1. MovesOn
    BY <1>1, <1>2, <1>3, CorrectedOK, AfterMovesOn DEF OtherCallOK, Agents
  <2> QED
    BY <2>1, MovedOnAlong, LandedOK DEF VerifyWrites, Stepping, IInv, AgentsInv
<1>4. ASSUME NEW verdict \in Verdicts(call.copy.drafts, call.copy.sources),
             After(Verified(state, call.copy, verdict))
      PROVE  AgentsStepOK
  <2>1. call.copy.drafts \in Seq(Hypotheses) /\ call.copy.sources \subseteq state.sources
    BY <1>1 DEF IsCall, VerifyWrites
  <2>2. CallOK(state, Verified(state, call.copy, verdict))
    BY <1>2, <2>1, VerifiedOK
  <2>3. MovesOn
    BY <1>1, <1>4, <2>2, AfterMovesOn
  <2> QED
    BY <2>3, MovedOnAlong, LandedOK DEF VerifyWrites, Stepping, IInv, AgentsInv
<1> QED
  BY <1>3, <1>4 DEF VerifyWrites

\* What the model is offered are tools of its agent.
LEMMA OfferedOK ==
    ASSUME NEW a \in Agents
    PROVE  /\ a = "diagnosis" => Offered(state, a) \subseteq DiagnosisTools
           /\ a # "diagnosis" => Offered(state, a) \subseteq SequentialTools(a)
           /\ a = "supervisor" /\ state.status \in {"PROPOSING", "NEEDS_ATTENTION"} =>
                 "diagnosis" \notin Offered(state, a)
<1>1. /\ SupervisorTools(state) \subseteq SequentialTools("supervisor")
      /\ state.status \in {"PROPOSING", "NEEDS_ATTENTION"} =>
            "diagnosis" \notin SupervisorTools(state)
  BY DEF SupervisorTools, SequentialTools
<1> QED
  BY <1>1 DEF Offered, SequentialTools, Agents

\* The run ends in front of a human.
LEMMA ExhaustedOK ==
    ASSUME Stepping, NEW a \in Agents, NEW s, OtherCallOK(state, s), Exhausted(s, a)
    PROVE  AgentsStepOK
<1> DEFINE t == Refused(s, a)
<1>1. OtherCallOK(s, t) /\ t.status = "NEEDS_ATTENTION"
  BY RefusedOK DEF OtherCallOK, CallOK
<1>2. OutcomeIsValid(t)
  BY <1>1 DEF OutcomeIsValid
<1>3. OtherCallOK(t, Done(t, "supervisor"))
  BY <1>1, <1>2, DoneOK DEF OtherCallOK, CallOK, Agents
<1>4. state' = Done(t, "supervisor") /\ run' = "ended"
  BY DEF Exhausted
<1>5. state'.status = "NEEDS_ATTENTION"
  BY <1>1, <1>3, <1>4 DEF OtherCallOK, CallOK, Keeps
<1> HIDE DEF t
<1>6. MovesOn
  BY <1>1, <1>3, <1>4, <1>5
  DEF OtherCallOK, CallOK, Keeps, MovesOn, ResultEarned, OutcomeIsValid
<1> QED
  BY <1>6, MovedOnAlong DEF Exhausted, Stepping, IInv, AgentsInv

LEMMA CallUnaffordableOK ==
    ASSUME Stepping, NEW a \in Agents, CallUnaffordable(a)
    PROVE  AgentsStepOK
<1>1. OtherCallOK(state, state)
  BY DEF Stepping, IInv, AgentsInv, OtherCallOK, CallOK, Keeps
<1> QED
  BY <1>1, ExhaustedOK DEF CallUnaffordable

\* What an agent has used lies within its budget.
LEMMA UsageOK ==
    ASSUME Stepping, NEW a \in Agents
    PROVE  /\ StateOK(state) /\ OtherCallOK(state, state)
           /\ state.usage[a].tools \in Nat /\ state.usage[a].iterations \in Nat
           /\ MaxToolUses[a] \in Nat /\ MaxIterations[a] \in Nat
           /\ state.usage[a].tools <= MaxToolUses[a]
<1>1. StateOK(state)
  BY DEF Stepping, IInv, AgentsInv
<1>2. state.usage[a] \in Usage
  BY <1>1 DEF StateOK, WorkflowState
<1> QED
  BY <1>1, <1>2, AgentsAssumption
  DEF OtherCallOK, CallOK, Keeps, StateOK, WithinBudget, Usage

LEMMA AffordableOK ==
    ASSUME Stepping, NEW a \in Agents, NEW calls, Len(calls) \in Nat, Affordable(state, a, calls)
    PROVE  OtherCallOK(state, Charged(state, a, calls))
<1>1. state.usage[a].tools + Len(calls) <= MaxToolUses[a]
  BY UsageOK DEF Affordable, RemainingTools
<1> QED
  BY <1>1, UsageOK, ChargedOK DEF Affordable

LEMMA ModelCallsOK ==
    ASSUME Stepping, NEW a \in Agents, NEW calls \in Batches(Offered(state, a)),
           ModelCalls(a, calls)
    PROVE  AgentsStepOK
<1>1. calls \in Seq(Offered(state, a)) /\ Len(calls) \in Nat
  <2>1. PICK n \in 1..MaxBatch : calls \in [1..n -> Offered(state, a)]
    BY DEF Batches
  <2> QED
    BY <2>1, AgentsAssumption
<1>2. CASE ~Affordable(state, a, calls)
  <2> DEFINE s == IF state.usage[a].iterations < MaxIterations[a]
                    THEN Charged(state, a, <<>>) ELSE state
  <2>1. OtherCallOK(state, s)
    <3>1. CASE state.usage[a].iterations < MaxIterations[a]
      <4>1. Affordable(state, a, <<>>)
        BY <3>1, UsageOK DEF Affordable, RemainingTools
      <4> QED
        BY <3>1, <4>1, AffordableOK
    <3> QED
      BY <3>1, UsageOK
  <2>2. Exhausted(s, a)
    BY <1>2 DEF ModelCalls
  <2> HIDE DEF s
  <2> QED
    BY <2>1, <2>2, ExhaustedOK
<1>3. CASE Affordable(state, a, calls)
  <2>1. state' = Charged(state, a, calls) /\ run' = run /\ agent' = agent /\ agent = a
    BY <1>3 DEF ModelCalls, AtModel
  <2>2. MovesOn
    BY <1>1, <1>3, <2>1, AffordableOK, OtherMovesOn
  <2>3. /\ DOMAIN todo = Agents /\ \A b \in Agents : todo[b] \in Seq(SequentialTools(b))
        /\ agent # "supervisor" => todo["supervisor"] # <<>>
        /\ \A call \in DOMAIN flight : IsCall(call, state.sources)
    BY DEF Stepping, IInv, AgentsInv
  <2>4. state.sources \subseteq state'.sources
    BY <2>2 DEF MovesOn
  <2>5. NoDiagnosis => /\ a # "diagnosis" /\ DOMAIN flight = {}
                       /\ "diagnosis" \notin Range(todo["supervisor"])
    BY <2>1 DEF NoDiagnosis
  <2>6. CASE a = "diagnosis"
    <3>1. /\ flight' = ToBag([i \in DOMAIN calls |-> Started(calls[i])])
          /\ todo' = todo
      BY <1>3, <2>6 DEF ModelCalls
    <3>2. ASSUME NEW call \in DOMAIN flight'
          PROVE  IsCall(call, state'.sources)
      <4>1. PICK i \in DOMAIN calls : call = Started(calls[i])
        BY <3>1 DEF ToBag, Range
      <4>2. calls[i] \in DiagnosisTools
        BY <1>1, <2>6, OfferedOK
      <4> QED
        BY <4>1, <4>2 DEF IsCall, Started
    <3> QED
      BY <2>1, <2>2, <2>3, <2>5, <2>6, <3>1, <3>2, MovedOn
  <2>7. CASE a # "diagnosis"
    <3>1. todo' = [todo EXCEPT ![a] = calls] /\ flight' = flight
      BY <1>3, <2>7 DEF ModelCalls
    <3>2. calls \in Seq(SequentialTools(a))
      <4>1. Offered(state, a) \subseteq SequentialTools(a)
        BY <2>7, OfferedOK
      <4> QED
        BY <1>1, <4>1
    <3>3. DOMAIN todo' = Agents /\ \A b \in Agents : todo'[b] \in Seq(SequentialTools(b))
      BY <2>3, <3>1, <3>2
    <3>4. \A call \in DOMAIN flight' : IsCall(call, state'.sources)
      BY <2>3, <2>4, <3>1 DEF IsCall
    <3>5. a # "supervisor" => todo'["supervisor"] # <<>>
      BY <2>1, <2>3, <3>1
    <3>6. NoDiagnosis /\ state.status \in {"PROPOSING", "NEEDS_ATTENTION"} => NoDiagnosis'
      <4>1. CASE a = "supervisor"
        <5>1. state.status \in {"PROPOSING", "NEEDS_ATTENTION"} =>
                 "diagnosis" \notin Offered(state, a)
          BY <4>1, OfferedOK
        <5>2. todo'["supervisor"] = calls
          BY <2>3, <3>1, <4>1 DEF Agents
        <5> QED
          BY <1>1, <2>1, <2>5, <3>1, <5>1, <5>2 DEF Range, NoDiagnosis
      <4>2. CASE a # "supervisor"
        BY <2>1, <2>3, <2>5, <3>1, <4>2 DEF Agents, NoDiagnosis
      <4> QED
        BY <4>1, <4>2
    <3> QED
      BY <2>1, <2>2, <2>5, <3>1, <3>3, <3>4, <3>6, <3>5, MovedOn
  <2> QED
    BY <2>6, <2>7
<1> QED
  BY <1>2, <1>3

LEMMA ModelEndsOK ==
    ASSUME Stepping, NEW a \in Agents, ModelEnds(a)
    PROVE  AgentsStepOK
<1>1. CASE ~Affordable(state, a, <<>>)
  BY <1>1, UsageOK, ExhaustedOK DEF ModelEnds
<1>2. CASE Affordable(state, a, <<>>)
  <2>1. OtherCallOK(state, state') /\ agent = a /\ flight' = flight
    BY <1>2, AffordableOK DEF ModelEnds, AtModel
  <2>2. /\ state'.done = state.done /\ DOMAIN todo = Agents
        /\ \A b \in Agents : todo[b] \in Seq(SequentialTools(b))
        /\ agent # "supervisor" => todo["supervisor"] # <<>>
    BY <1>2 DEF ModelEnds, Charged, Stepping, IInv, AgentsInv, StateOK, WorkflowState, Agents
  <2>3. CASE a = "supervisor"
    <3>1. /\ run' = IF a \in state.done THEN "ended" ELSE "failed"
          /\ UNCHANGED <<agent, todo>>
      BY <1>2, <2>3 DEF ModelEnds
    <3>2. ResultEarned(state) /\ ~state.error
      BY DEF Stepping, IInv, AgentsInv
    <3>3. ResultEarned(state')
      BY <2>1, <3>2 DEF OtherCallOK, CallOK, Keeps
    <3>4. run' = "ended" => OutcomeIsValid(state')
      BY <2>2, <2>3, <3>1, <3>3 DEF ResultEarned
    <3>5. MovesOn
      BY <2>1, <3>1, <3>3, <3>4 DEF OtherCallOK, CallOK, Keeps, MovesOn
    <3> QED
      BY <2>1, <2>2, <3>1, <3>5, MovedOnAlong
  <2>4. CASE a # "supervisor"
    <3>1. /\ agent' = "supervisor" /\ run' = run
          /\ todo' = [todo EXCEPT !["supervisor"] = Tail(@)]
      BY <1>2, <2>4 DEF ModelEnds
    <3>2. MovesOn
      BY <2>1, <3>1, OtherMovesOn
    <3>3. Tail(todo["supervisor"]) \in Seq(SequentialTools("supervisor"))
          /\ Range(Tail(todo["supervisor"])) \subseteq Range(todo["supervisor"])
      <4>1. todo["supervisor"] \in Seq(SequentialTools("supervisor")) /\ todo["supervisor"] # <<>>
        BY <2>1, <2>2, <2>4 DEF Agents
      <4> QED
        BY <4>1, TailOK
    <3>4. \A call \in DOMAIN flight' : IsCall(call, state'.sources)
      BY <2>1, <3>2 DEF MovesOn, IsCall, Stepping, IInv, AgentsInv
    <3>5. /\ DOMAIN todo' = Agents /\ \A b \in Agents : todo'[b] \in Seq(SequentialTools(b))
          /\ todo'["supervisor"] = Tail(todo["supervisor"])
      BY <2>2, <3>1, <3>3 DEF Agents
    <3>6. NoDiagnosis => NoDiagnosis'
      BY <2>1, <3>1, <3>3, <3>5 DEF NoDiagnosis
    <3> QED
      BY <3>1, <3>2, <3>3, <3>4, <3>5, <3>6, MovedOn DEF Agents
  <2> QED
    BY <2>3, <2>4
<1> QED
  BY <1>1, <1>2

LEMMA AgentsStep == ASSUME Stepping, AgentSteps PROVE AgentsStepOK
<1>1. CASE Calls
  BY <1>1, DelegateOK, DelegationRefusedOK, CallFailsOK, SequentialCallOK, ParallelCallOK,
     VerifyReadsOK, VerifyWritesOK, CallUnaffordableOK DEF Calls
<1>2. CASE \E a \in Agents : Turn(a)
  BY <1>2, ModelEndsOK, ModelCallsOK DEF Turn
<1> QED
  BY <1>1, <1>2 DEF AgentSteps

-----------------------------------------------------------------------------
(* What the agents are started over *)

\* The transition service is built from the ledger again.
LEMMA RestartedOK ==
    ASSUME NEW s, StateOK(s)
    PROVE  LET t == Restarted(s) IN
           /\ StateOK(t) /\ t.done = {} /\ t.status = s.status /\ t.error = s.error
           /\ t.sources = s.sources /\ t.selected = s.selected
           /\ t.service = [h \in Hypotheses |-> StatusIn(s.verified, h, "")]
           /\ t.verified = s.verified /\ t.drafts = s.drafts
<1> DEFINE service == [h \in Hypotheses |-> StatusIn(s.verified, h, "")]
           t == [s EXCEPT !.done = {}, !.service = service]
<1>1. service \in [Hypotheses -> Lifecycle]
  BY StatusTyped DEF StateOK, IsLedger
<1>2. Restarted(s) = t
  BY DEF Restarted
<1> HIDE DEF service
<1>3. /\ t \in WorkflowState /\ t.done = {} /\ t.service = service
      /\ t.status = s.status /\ t.error = s.error /\ t.sources = s.sources
      /\ t.selected = s.selected /\ t.usage = s.usage /\ t.verified = s.verified
      /\ t.drafts = s.drafts
  BY <1>1 DEF StateOK, WorkflowState
<1> HIDE DEF t
<1>4. StateOK(t)
  BY <1>3 DEF StateOK, WithinBudget
<1> QED
  BY <1>2, <1>3, <1>4 DEF service

\* The ledger of a result, before anything of it is submitted.
LedgerReady(s, t) ==
    StateOK(t) /\ t.status # "PROPOSING" /\ s.sources \subseteq t.sources

LEMMA LedgersOK ==
    ASSUME NEW s, StateOK(s), s.status # "PROPOSING",
           NEW drafts \in Seq(Hypotheses), NEW verified, IsLedger(verified, s.sources),
           NEW t \in Ledgers(s, drafts, verified)
    PROVE  LedgerReady(s, t)
<1>1. s \in WorkflowState
  BY DEF StateOK
<1>2. CASE verified # <<>>
  <2> DEFINE u == [s EXCEPT !.drafts = drafts, !.verified = verified]
  <2>1. t = Restarted(u)
    BY <1>2 DEF Ledgers
  <2>2. /\ u \in WorkflowState /\ u.status = s.status /\ u.sources = s.sources
        /\ u.verified = verified /\ u.usage = s.usage
    BY <1>1 DEF WorkflowState, IsLedger
  <2> HIDE DEF u
  <2>3. StateOK(u)
    BY <2>2 DEF StateOK, WithinBudget
  <2> QED
    BY <2>1, <2>2, <2>3, RestartedOK DEF LedgerReady
<1>3. CASE verified = <<>>
  <2> DEFINE r == Restarted(s)
             u == Recorded(r, drafts)
  <2>1. StateOK(r) /\ r.status = s.status /\ r.sources = s.sources
    BY RestartedOK
  <2> HIDE DEF r
  <2>2. /\ OtherCallOK(r, u) /\ u.drafts \in Seq(Hypotheses)
        /\ u.sources = r.sources
    BY <2>1, RecordedOK
  <2>3. StateOK(u) /\ u.status # "PROPOSING"
    BY <2>1, <2>2 DEF OtherCallOK, CallOK
  <2>4. \/ t = Corrected(u, "diagnosis")
        \/ \E verdict \in Verdicts(u.drafts, u.sources) : t = Verified(u, Copied(u), verdict)
    BY <1>3 DEF Ledgers, r
  <2> HIDE DEF u
  <2>5. CASE t = Corrected(u, "diagnosis")
    BY <2>1, <2>2, <2>3, <2>5, CorrectedOK DEF OtherCallOK, CallOK, Keeps, LedgerReady, Agents
  <2>6. ASSUME NEW verdict \in Verdicts(u.drafts, u.sources), t = Verified(u, Copied(u), verdict)
        PROVE  LedgerReady(s, t)
    <3>1. Copied(u).drafts = u.drafts /\ Copied(u).sources = u.sources
      BY DEF Copied
    <3>2. CallOK(u, t) /\ (t.status = "PROPOSING" => u.status = "PROPOSING")
      BY <2>2, <2>3, <2>6, <3>1, VerifiedOK
    <3> QED
      BY <2>1, <2>2, <2>3, <3>2 DEF CallOK, Keeps, LedgerReady
  <2> QED
    BY <2>4, <2>5, <2>6
<1> QED
  BY <1>2, <1>3

\* A proposal follows only from a diagnosis that was accepted, in the ledger too.
LEMMA DiagnosedEarned ==
    ASSUME NEW s, StateOK(s), s.status # "PROPOSING", NEW h, NEW known \in BOOLEAN,
           Diagnosed(s, h, known).status = "PROPOSING", ~Diagnosed(s, h, known).error
    PROVE  LET t == Diagnosed(s, h, known) IN
           /\ t.selected = h /\ h \in Hypotheses /\ Corroborated(t.sources)
           /\ \E i \in DOMAIN t.verified : t.verified[i].id = h /\ t.verified[i].status = "ACCEPTED"
<1>1. s \in WorkflowState /\ s.verified \in Seq(VerifiedHypothesis)
  BY DEF StateOK, IsLedger
<1>2. Diagnosable(s, h) /\ known
  <2>1. OtherCallOK(s, Corrected(s, "diagnosis"))
    BY CorrectedOK DEF Agents
  <2> QED
    BY <2>1 DEF Diagnosed, OtherCallOK
<1>3. s.service[h] = "SUPPORTED"
  BY <1>1, <1>2 DEF Diagnosed, WorkflowState
<1> DEFINE verified == [i \in DOMAIN s.verified |->
                          IF i \notin FirstOf(s.verified, h) THEN s.verified[i]
                          ELSE [s.verified[i] EXCEPT !.status = "ACCEPTED"]]
           t == Diagnosed(s, h, known)
<1>4. t.selected = h /\ t.verified = verified /\ t.sources = s.sources
  BY <1>1, <1>2, <1>3 DEF Diagnosed, Done, WorkflowState
<1>5. h \in Hypotheses /\ Corroborated(s.sources)
  BY <1>2, DiagnosableOK
<1>6. PICK i \in FirstOf(s.verified, h) : TRUE
  BY <1>2 DEF Diagnosable
<1>7. s.verified[i] \in VerifiedHypothesis /\ s.verified[i].id = h /\ i \in DOMAIN s.verified
  BY <1>1 DEF FirstOf, Records
<1>8. verified[i].id = h /\ verified[i].status = "ACCEPTED" /\ i \in DOMAIN verified
  BY <1>6, <1>7 DEF VerifiedHypothesis
<1> HIDE DEF verified, t
<1> QED
  BY <1>4, <1>5, <1>8 DEF t

\* What the graph hands over: a failure, a case for a human, or an accepted diagnosis.
HandoverOK(s, choice) ==
    /\ StateOK(s)
    /\ \/ s.error \/ s.status = "NEEDS_ATTENTION"
       \/ /\ s.status = "PROPOSING" /\ Corroborated(s.sources)
          /\ s.selected \in Hypotheses /\ (choice # None => s.selected = choice)
          /\ \E i \in DOMAIN s.verified :
                s.verified[i].id = s.selected /\ s.verified[i].status = "ACCEPTED"

LEMMA NeedsAttentionOK ==
    ASSUME NEW s, StateOK(s)
    PROVE  /\ StateOK(NeedsAttention(s)) /\ NeedsAttention(s).status = "NEEDS_ATTENTION"
           /\ NeedsAttention(s).sources = s.sources
<1> DEFINE t == [s EXCEPT !.status = "NEEDS_ATTENTION"]
<1>1. NeedsAttention(s) = t
  BY StatusMoves DEF NeedsAttention, StateOK
<1>2. /\ t \in WorkflowState /\ t.status = "NEEDS_ATTENTION" /\ t.sources = s.sources
      /\ t.verified = s.verified /\ t.usage = s.usage
  BY DEF StateOK, WorkflowState, Status
<1> HIDE DEF t
<1>3. StateOK(t)
  BY <1>2 DEF StateOK, WithinBudget
<1> QED
  BY <1>1, <1>2, <1>3

LEMMA AppliedOK ==
    ASSUME NEW s, StateOK(s), s.status # "PROPOSING", NEW choice, NEW known \in BOOLEAN,
           NEW rejected \in BOOLEAN
    PROVE  LET t == Applied(s, choice, known, rejected) IN
           /\ HandoverOK(t, choice) /\ s.sources \subseteq t.sources
           /\ rejected => t.error \/ t.status = "NEEDS_ATTENTION"
<1>1. CASE s.error
  BY <1>1 DEF Applied, HandoverOK
<1>2. CASE ~s.error /\ rejected
  BY <1>2, NeedsAttentionOK DEF Applied, HandoverOK
<1>3. CASE ~s.error /\ ~rejected
  <2> DEFINE h == Selected(s, choice)
             t == Diagnosed(s, h, known)
  <2>1. StateOK(t) /\ s.sources \subseteq t.sources
    BY DiagnosedOK DEF CallOK, Keeps
  <2>2. CASE t.error \/ t.status = "NEEDS_ATTENTION"
    BY <1>3, <2>1, <2>2 DEF Applied, HandoverOK
  <2>3. CASE ~t.error /\ t.status = "PROPOSING"
    <3>1. /\ t.selected = h /\ h \in Hypotheses /\ Corroborated(t.sources)
          /\ \E i \in DOMAIN t.verified :
                t.verified[i].id = h /\ t.verified[i].status = "ACCEPTED"
      BY <2>3, DiagnosedEarned
    <3>2. choice # None => h = choice
      BY DEF Selected
    <3>3. Applied(s, choice, known, rejected) = t
      BY <1>3, <2>3 DEF Applied
    <3> HIDE DEF t, h
    <3> QED
      BY <1>3, <2>1, <2>3, <3>1, <3>2, <3>3 DEF HandoverOK
  <2>4. CASE ~t.error /\ t.status \notin {"PROPOSING", "NEEDS_ATTENTION"}
    <3>1. Applied(s, choice, known, rejected) = NeedsAttention(t)
      BY <1>3, <2>4 DEF Applied
    <3> HIDE DEF t
    <3> QED
      BY <1>3, <2>1, <3>1, NeedsAttentionOK DEF HandoverOK
  <2> QED
    BY <2>2, <2>3, <2>4
<1> QED
  BY <1>1, <1>2, <1>3

-----------------------------------------------------------------------------
(* Steps of the graph *)

\* A step of the graph before the agents run.
Proceeding == IInv /\ node \notin {"agents", "end"}

\* What every step keeps.
StepOK ==
    IInv' /\ \A h \in Hypotheses : state.service[h] = "REFUTED" => state'.service[h] = "REFUTED"

LEMMA ProceedingOK ==
    ASSUME Proceeding
    PROVE  /\ StateOK(state) /\ BeforeAgents /\ AgentsInv /\ BaselineTypeOK
           /\ IsLedger(rt.verified, state.sources)
           /\ rt.arbitration.accepted => rt.arbitration.top # None
           /\ \A h \in Hypotheses : state.service[h] = ""
BY DEF Proceeding, IInv, AgentsInv, GraphInv, BeforeAgents

\* The graph moves on to a node before the agents.
LEMMA MovesTo ==
    ASSUME Proceeding, NEW n \in Nodes \ {"agents", "end"}, Goto(n),
           StateOK(state'), state.sources \subseteq state'.sources,
           UNCHANGED <<state.status, state.service, state.usage, state.done, state.error>>,
           rt' \in DiagnosisRuntime, IsLedger(rt'.verified, state'.sources),
           rt'.arbitration.accepted => rt'.arbitration.top # None, PolicyInv'
    PROVE  StepOK
<1>1. UNCHANGED <<method, run, agent, todo, flight>> /\ node' = n
  BY DEF Goto
<1>2. AgentsInv'
  <2>1. \A call \in DOMAIN flight' : IsCall(call, state'.sources)
    BY <1>1, ProceedingOK DEF AgentsInv, IsCall
  <2> QED
    BY <1>1, <2>1, ProceedingOK DEF AgentsInv, BeforeAgents
<1>3. GraphInv'
  <2>1. BeforeAgents'
    BY <1>1, ProceedingOK DEF BeforeAgents
  <2>2. BaselineTypeOK'
    BY <1>1, ProceedingOK DEF BaselineTypeOK, DiagnosisRuntime, MaxRounds, Active
  <2> QED
    BY <1>1, <2>1, <2>2 DEF GraphInv
<1> QED
  BY <1>2, <1>3, ProceedingOK DEF StepOK, IInv

\* ... and takes the state along.
LEMMA MovesOver ==
    ASSUME Proceeding, NEW n \in Nodes \ {"agents", "end"}, Goto(n), UNCHANGED state,
           rt' \in DiagnosisRuntime, rt'.verified = rt.verified,
           rt'.arbitration.accepted => rt'.arbitration.top # None, PolicyInv'
    PROVE  StepOK
<1>1. StateOK(state) /\ IsLedger(rt.verified, state.sources)
  BY ProceedingOK
<1> QED
  BY <1>1, MovesTo

LEMMA NodeFailsOK == ASSUME Proceeding, NodeFails PROVE StepOK
<1>1. AgentsInv' /\ GraphInv'
  BY ProceedingOK DEF NodeFails, AgentsInv, GraphInv, BaselineTypeOK, DiagnosisRuntime,
     MaxRounds, Active, Nodes
<1>2. PolicyInv'
  BY DEF NodeFails, Proceeding, IInv, PolicyInv, PoliciesAreJudged
<1> QED
  BY <1>1, <1>2, ProceedingOK DEF StepOK, IInv, NodeFails

\* The agents are started over a state that is theirs.
LEMMA RunAgentsOK ==
    ASSUME Proceeding, NEW s, StateOK(s), ~s.error, state.sources \subseteq s.sources,
           s.status = "PROPOSING" => SelectionEarned(Restarted(s)),
           RunAgents(s), node' = "agents", UNCHANGED <<method, rt>>,
           method # "react" => s.status = "PROPOSING",
           Deterministic => rt.arbitration.accepted /\ s.selected = rt.arbitration.top
    PROVE  StepOK
<1>1. /\ state' = Restarted(s) /\ run' = "running" /\ agent' = "supervisor"
      /\ todo' = [a \in Agents |-> <<>>] /\ DOMAIN flight' = {}
  BY DEF RunAgents, EmptyBag, SetToBag
<1>2. /\ StateOK(state') /\ state'.done = {} /\ state'.status = s.status
      /\ ~state'.error /\ state'.sources = s.sources /\ state'.selected = s.selected
  BY <1>1, RestartedOK
<1>3. ResultEarned(state')
  BY <1>1, <1>2 DEF ResultEarned
<1>4. AgentsInv' /\ NoDiagnosis'
  <2>1. NoDiagnosis'
    BY <1>1 DEF NoDiagnosis, Range, Agents
  <2> QED
    BY <1>1, <1>2, <1>3, <2>1 DEF AgentsInv, Agents
<1>5. GraphInv'
  <2>1. IsLedger(rt.verified, state'.sources)
    BY <1>2, ProceedingOK, LedgerStays DEF StateOK, WorkflowState
  <2>2. /\ method # "react" => DiagnosisIsOver'
        /\ Deterministic => IsArbitrated'
    BY <1>2, <1>4 DEF DiagnosisIsOver, IsArbitrated
  <2>3. BaselineTypeOK'
    BY ProceedingOK DEF BaselineTypeOK, DiagnosisRuntime, MaxRounds, Active, Nodes
  <2> QED
    BY <1>1, <2>1, <2>2, <2>3, ProceedingOK DEF GraphInv, Deterministic
<1>6. PolicyInv'
  BY DEF Proceeding, IInv, PolicyInv, PoliciesAreJudged
<1> QED
  BY <1>4, <1>5, <1>6, ProceedingOK DEF StepOK, IInv

LEMMA HandoffOK ==
    ASSUME Proceeding, NEW choice, NEW s, HandoverOK(s, choice), Handoff(s),
           state.sources \subseteq s.sources, UNCHANGED <<method, rt>>,
           Deterministic => choice = rt.arbitration.top,
           Deterministic /\ ~rt.arbitration.accepted => s.error \/ s.status = "NEEDS_ATTENTION"
    PROVE  StepOK
<1>1. CASE s.error \/ s.status = "NEEDS_ATTENTION"
  <2>1. /\ state' = s /\ run' = IF s.error THEN "failed" ELSE "ended"
        /\ node' = "end" /\ UNCHANGED <<agent, todo, flight>>
    BY <1>1 DEF Handoff
  <2>2. StateOK(s) /\ (run' # "failed" => s.status = "NEEDS_ATTENTION" /\ run' = "ended")
    BY <1>1, <2>1 DEF HandoverOK
  <2>3. AgentsInv'
    <3>1. \A call \in DOMAIN flight : IsCall(call, s.sources)
      BY ProceedingOK DEF AgentsInv, IsCall
    <3>2. s.status = "NEEDS_ATTENTION" => ResultEarned(s) /\ OutcomeIsValid(s)
      BY DEF ResultEarned, OutcomeIsValid
    <3> QED
      BY <2>1, <2>2, <3>1, <3>2, ProceedingOK DEF AgentsInv
  <2>4. GraphInv'
    <3>1. IsLedger(rt.verified, s.sources)
      BY <2>2, ProceedingOK, LedgerStays DEF StateOK, WorkflowState
    <3>2. BaselineTypeOK'
      BY <2>1, ProceedingOK DEF BaselineTypeOK, DiagnosisRuntime, MaxRounds, Active, Nodes
    <3> QED
      BY <2>1, <2>2, <3>1, <3>2, ProceedingOK DEF GraphInv, IsArbitrated
  <2>5. PolicyInv'
    BY <2>1 DEF Proceeding, IInv, PolicyInv, PoliciesAreJudged
  <2> QED
    BY <2>3, <2>4, <2>5, ProceedingOK DEF StepOK, IInv
<1>2. CASE ~s.error /\ s.status # "NEEDS_ATTENTION"
  <2>1. RunAgents(s) /\ node' = "agents"
    BY <1>2 DEF Handoff
  <2>2. /\ StateOK(s) /\ s.status = "PROPOSING" /\ Corroborated(s.sources)
        /\ s.selected \in Hypotheses /\ (choice # None => s.selected = choice)
    BY <1>2 DEF HandoverOK
  <2>3. \E i \in DOMAIN s.verified :
          s.verified[i].id = s.selected /\ s.verified[i].status = "ACCEPTED"
    BY <1>2 DEF HandoverOK
  <2>4. SelectionEarned(Restarted(s))
    <3> DEFINE t == Restarted(s)
    <3>1. t.sources = s.sources /\ t.selected = s.selected /\ t.verified = s.verified
      BY <2>2, RestartedOK
    <3> HIDE DEF t
    <3>2. SelectionEarned(t)
      BY <2>2, <2>3, <3>1, AgentsAssumption DEF SelectionEarned, Accepted
    <3> QED
      BY <3>2 DEF t
  <2>5. Deterministic => rt.arbitration.accepted /\ s.selected = rt.arbitration.top
    BY <1>2, <2>2, ProceedingOK
  <2> QED
    BY <1>2, <2>1, <2>2, <2>4, <2>5, RunAgentsOK
<1> QED
  BY <1>1, <1>2

LEMMA RouterOK == ASSUME Proceeding, Router PROVE StepOK
<1>1. PICK n \in {"strategy", "intent"} : Goto(n)
  BY DEF Router
<1>2. UNCHANGED <<state, rt>> /\ node = "router" /\ node' = n
  BY <1>1 DEF Router, Goto
<1>3. PolicyInv'
  BY <1>1, <1>2 DEF Proceeding, IInv, PolicyInv, PoliciesAreJudged
<1> QED
  BY <1>1, <1>2, <1>3, ProceedingOK, MovesOver DEF Nodes, BaselineTypeOK

LEMMA ReactOK == ASSUME Proceeding, React PROVE StepOK
<1>1. ~Deterministic /\ method = "react"
  BY DEF React, Deterministic
<1>2. StateOK(state) /\ ~state.error /\ state.status # "PROPOSING"
  BY ProceedingOK DEF BeforeAgents
<1> QED
  BY <1>1, <1>2, RunAgentsOK DEF React

LEMMA SinglePassOK == ASSUME Proceeding, SinglePass PROVE StepOK
<1>1. PICK sources \in SUBSET Sources, drafts \in Submissions,
           choice \in Hypotheses \union {None}, known \in BOOLEAN :
        LET s == Charged([state EXCEPT !.sources = @ \union sources], "diagnosis", <<>>)
        IN \E t \in Ledgers(s, drafts, <<>>) : Handoff(Applied(t, choice, known, FALSE))
  BY DEF SinglePass
<1> DEFINE c == [state EXCEPT !.sources = @ \union sources]
           s == Charged(c, "diagnosis", <<>>)
<1>2. /\ StateOK(state) /\ state \in WorkflowState /\ state.status # "PROPOSING"
      /\ state.usage["diagnosis"] = [iterations |-> 0, tools |-> 0, corrections |-> 0]
  BY ProceedingOK DEF StateOK, BeforeAgents, Agents
<1>3. /\ c \in WorkflowState /\ c.sources = state.sources \union sources
      /\ c.status = state.status /\ c.usage = state.usage /\ c.verified = state.verified
  BY <1>2 DEF WorkflowState
<1> HIDE DEF c
<1>4. IsLedger(c.verified, c.sources)
  BY <1>2, <1>3, LedgerStays DEF StateOK, WorkflowState
<1>5. StateOK(c)
  BY <1>2, <1>3, <1>4 DEF StateOK, WithinBudget
<1>6. OtherCallOK(c, s)
  <2>1. /\ c.usage["diagnosis"].iterations < MaxIterations["diagnosis"]
        /\ c.usage["diagnosis"].tools + Len(<<>>) <= MaxToolUses["diagnosis"]
        /\ Len(<<>>) \in Nat
    BY <1>2, <1>3, AgentsAssumption DEF Agents
  <2> QED
    BY <1>5, <2>1, ChargedOK DEF Agents
<1>7. PICK t \in Ledgers(s, drafts, <<>>) : Handoff(Applied(t, choice, known, FALSE))
  BY <1>1 DEF c
<1> HIDE DEF s
<1>8. StateOK(s) /\ s.status # "PROPOSING" /\ state.sources \subseteq s.sources
  BY <1>2, <1>3, <1>6 DEF OtherCallOK, CallOK, Keeps
<1>9. LedgerReady(s, t)
  <2>1. drafts \in Seq(Hypotheses)
    BY AgentsAssumption DEF Submissions, BoundedSeq, SeqOf
  <2> QED
    BY <1>7, <1>8, <2>1, EmptyLedger, LedgersOK
<1> DEFINE u == Applied(t, choice, known, FALSE)
<1>10. HandoverOK(u, choice) /\ t.sources \subseteq u.sources
  BY <1>9, AppliedOK DEF LedgerReady
<1> HIDE DEF u
<1>11. state.sources \subseteq u.sources
  BY <1>8, <1>9, <1>10 DEF LedgerReady
<1>12. Handoff(u) /\ UNCHANGED <<method, rt>> /\ ~Deterministic
  BY <1>7 DEF u, SinglePass, Deterministic
<1> QED
  BY <1>10, <1>11, <1>12, HandoffOK

LEMMA IntentOK == ASSUME Proceeding, Intent PROVE StepOK
<1>1. Goto("compile") /\ UNCHANGED <<state, rt>> /\ node = "intent" /\ node' = "compile"
  BY DEF Intent, Goto
<1>2. PolicyInv'
  BY <1>1 DEF Proceeding, IInv, PolicyInv, PoliciesAreJudged
<1> QED
  BY <1>1, <1>2, ProceedingOK, MovesOver DEF Nodes, BaselineTypeOK

\* A round that stops early.
LEMMA StoppedOK ==
    ASSUME rt \in DiagnosisRuntime, NEW reason \in {"no requests", "duplicate"}
    PROVE  LET r == Stopped(reason) IN
           /\ r \in DiagnosisRuntime /\ r.verified = rt.verified /\ r.stop = reason
           /\ r.completed /\ ~r.arbitration.accepted
           /\ [r EXCEPT !.pending = FALSE] \in DiagnosisRuntime
           /\ [r EXCEPT !.pending = FALSE].verified = rt.verified
           /\ [r EXCEPT !.pending = FALSE].stop = reason
           /\ [r EXCEPT !.pending = FALSE].completed
           /\ ~[r EXCEPT !.pending = FALSE].arbitration.accepted
<1> DEFINE r == Stopped(reason)
<1>1. /\ r \in DiagnosisRuntime /\ r.verified = rt.verified /\ r.stop = reason
      /\ r.completed /\ ~r.arbitration.accepted
  BY DEF Stopped, DiagnosisRuntime
<1> HIDE DEF r
<1> QED
  BY <1>1 DEF r, DiagnosisRuntime

LEMMA CompileOK == ASSUME Proceeding, Compile PROVE StepOK
<1>1. /\ Goto("collect") /\ UNCHANGED state /\ node = "compile" /\ node' = "collect"
      /\ rt \in DiagnosisRuntime
  BY ProceedingOK DEF Compile, Goto, BaselineTypeOK
<1>2. rt' = rt \/ rt' = [rt EXCEPT !.pending = TRUE] \/ rt' = Stopped("no requests")
  BY DEF Compile
<1>3. CASE rt' = rt \/ rt' = [rt EXCEPT !.pending = TRUE]
  <2>1. /\ rt' \in DiagnosisRuntime /\ rt'.verified = rt.verified
        /\ rt'.arbitration = rt.arbitration /\ rt'.completed = rt.completed
        /\ rt'.awaiting = rt.awaiting /\ rt'.baseline = rt.baseline
        /\ rt'.round = rt.round /\ rt'.stop = rt.stop
    BY <1>1, <1>3 DEF DiagnosisRuntime
  <2>2. PolicyInv'
    BY <1>1, <2>1 DEF Proceeding, IInv, PolicyInv, PoliciesAreJudged
  <2> QED
    BY <1>1, <2>1, <2>2, ProceedingOK, MovesOver DEF Nodes
<1>4. CASE rt' = Stopped("no requests")
  <2>1. /\ rt' \in DiagnosisRuntime /\ rt'.verified = rt.verified
        /\ rt'.stop = "no requests" /\ rt'.completed /\ ~rt'.arbitration.accepted
    BY <1>1, <1>4, StoppedOK
  <2>2. PolicyInv'
    BY <1>1, <2>1 DEF PolicyInv, PoliciesAreJudged
  <2> QED
    BY <1>1, <2>1, <2>2, MovesOver DEF Nodes
<1> QED
  BY <1>2, <1>3, <1>4

LEMMA ResolvedOK ==
    ASSUME rt \in DiagnosisRuntime
    PROVE  LET r == Resolved(rt) IN
           /\ r \in DiagnosisRuntime /\ r.verified = rt.verified /\ r.round = rt.round
           /\ r.completed = rt.completed /\ r.stop = rt.stop
           /\ r.awaiting => rt.awaiting /\ ~rt.baseline
BY DEF Resolved, DiagnosisRuntime

LEMMA CollectOK == ASSUME Proceeding, Collect PROVE StepOK
<1>1. /\ Goto("assert") /\ node = "collect" /\ node' = "assert" /\ rt \in DiagnosisRuntime
  BY ProceedingOK DEF Collect, Goto, BaselineTypeOK
<1>2. CASE UNCHANGED <<state, rt>>
  <2>1. PolicyInv'
    BY <1>1, <1>2 DEF Proceeding, IInv, PolicyInv, PoliciesAreJudged
  <2> QED
    BY <1>1, <1>2, <2>1, ProceedingOK, MovesOver DEF Nodes
<1>3. CASE UNCHANGED state /\ rt' = [Stopped("duplicate") EXCEPT !.pending = FALSE]
  <2>1. /\ rt' \in DiagnosisRuntime /\ rt'.verified = rt.verified
        /\ rt'.stop = "duplicate" /\ rt'.completed /\ ~rt'.arbitration.accepted
    BY <1>1, <1>3, StoppedOK
  <2>2. PolicyInv'
    BY <1>1, <2>1 DEF PolicyInv, PoliciesAreJudged
  <2> QED
    BY <1>1, <1>3, <2>1, <2>2, MovesOver DEF Nodes
<1>4. ASSUME ~rt.completed, NEW sources \in SUBSET Sources, NEW fresh \in BOOLEAN,
             state' = [state EXCEPT !.sources = @ \union sources], rt' = Supplement(fresh)
      PROVE  StepOK
  <2>1. StateOK(state) /\ state \in WorkflowState
    BY ProceedingOK DEF StateOK
  <2>2. /\ state' \in WorkflowState /\ state'.sources = state.sources \union sources
        /\ state'.verified = state.verified
        /\ UNCHANGED <<state.status, state.service, state.usage, state.done, state.error>>
    BY <1>4, <2>1 DEF WorkflowState
  <2>3. StateOK(state')
    <3>1. IsLedger(state'.verified, state'.sources)
      BY <2>1, <2>2, LedgerStays DEF StateOK, WorkflowState
    <3> QED
      BY <2>1, <2>2, <3>1 DEF StateOK, WithinBudget
  <2>4. /\ rt' \in DiagnosisRuntime /\ rt'.verified = rt.verified
        /\ rt'.arbitration.accepted => rt.arbitration.accepted /\ rt'.arbitration = rt.arbitration
    <3>1. CASE rt.round > 1 /\ ~fresh
      <4> DEFINE r == Resolved(rt)
      <4>1. r \in DiagnosisRuntime /\ r.verified = rt.verified
        BY <1>1, ResolvedOK
      <4>2. rt' = [r EXCEPT !.pending = FALSE, !.completed = TRUE,
                            !.stop = "no new evidence", !.arbitration.accepted = FALSE]
        BY <1>4, <3>1 DEF Supplement
      <4> HIDE DEF r
      <4> QED
        BY <4>1, <4>2 DEF DiagnosisRuntime
    <3>2. CASE ~(rt.round > 1 /\ ~fresh)
      BY <1>1, <1>4, <3>2 DEF Supplement, DiagnosisRuntime
    <3> QED
      BY <3>1, <3>2
  <2>5. PolicyInv'
    <3>1. CASE rt.round > 1 /\ ~fresh
      <4> DEFINE r == Resolved(rt)
      <4>1. r \in DiagnosisRuntime /\ (r.awaiting => rt.awaiting /\ ~rt.baseline)
        BY <1>1, ResolvedOK
      <4>2. rt' = [r EXCEPT !.pending = FALSE, !.completed = TRUE,
                            !.stop = "no new evidence", !.arbitration.accepted = FALSE]
        BY <1>4, <3>1 DEF Supplement
      <4> HIDE DEF r
      <4>3. rt'.completed /\ rt'.awaiting = r.awaiting
        BY <4>1, <4>2 DEF DiagnosisRuntime
      <4>4. rt.awaiting => rt.baseline
        BY <1>4 DEF Proceeding, IInv, PolicyInv
      <4> QED
        BY <1>1, <4>1, <4>3, <4>4 DEF PolicyInv, PoliciesAreJudged
    <3>2. CASE ~(rt.round > 1 /\ ~fresh)
      <4>1. /\ rt'.completed = rt.completed /\ rt'.awaiting = rt.awaiting
            /\ rt'.baseline = rt.baseline /\ rt'.round = rt.round
        BY <1>1, <1>4, <3>2 DEF Supplement, DiagnosisRuntime
      <4> QED
        BY <1>1, <1>4, <4>1 DEF Proceeding, IInv, PolicyInv, PoliciesAreJudged
    <3> QED
      BY <3>1, <3>2
  <2>6. IsLedger(rt'.verified, state'.sources)
    BY <2>2, <2>4, ProceedingOK, LedgerStays DEF WorkflowState
  <2> QED
    BY <1>1, <2>2, <2>3, <2>4, <2>5, <2>6, ProceedingOK, MovesTo DEF Nodes
<1> QED
  BY <1>2, <1>3, <1>4 DEF Collect

LEMMA BuildAssertionsOK == ASSUME Proceeding, BuildAssertions PROVE StepOK
<1>1. CASE Goto("generate") /\ UNCHANGED <<state, rt>>
  <2>1. PolicyInv'
    BY <1>1 DEF Goto, BuildAssertions, Proceeding, IInv, PolicyInv, PoliciesAreJudged
  <2> QED
    BY <1>1, <2>1, ProceedingOK, MovesOver DEF Nodes, BaselineTypeOK
<1> QED
  BY <1>1, NodeFailsOK DEF BuildAssertions

LEMMA GenerateOK == ASSUME Proceeding, Generate PROVE StepOK
<1>1. CASE Goto("reason") /\ UNCHANGED <<state, rt>>
  <2>1. PolicyInv'
    BY <1>1 DEF Goto, Generate, Proceeding, IInv, PolicyInv, PoliciesAreJudged
  <2> QED
    BY <1>1, <2>1, ProceedingOK, MovesOver DEF Nodes, BaselineTypeOK
<1>2. ASSUME ~rt.completed, Goto("reason"),
             NEW candidates \in SUBSET Hypotheses, NEW drafts \in SetToSeqs(candidates),
             NEW verdict \in Verdicts(drafts, state.sources),
             rt' = [rt EXCEPT !.drafts = drafts, !.verified = verdict],
             state' = [state EXCEPT !.drafts = drafts, !.verified = verdict]
      PROVE  StepOK
  <2>1. drafts \in Seq(Hypotheses) /\ IsLedger(verdict, state.sources)
    <3>1. Cardinality(candidates) \in Nat
      BY AgentsAssumption, FS_Subset, FS_CardinalityType
    <3>2. drafts \in [1..Cardinality(candidates) -> candidates]
      BY DEF SetToSeqs
    <3>3. drafts \in Seq(Hypotheses)
      BY <3>1, <3>2
    <3> QED
      BY <3>3, VerdictsAreLedgers
  <2>2. verdict \in Seq(VerifiedHypothesis)
    BY <2>1 DEF IsLedger
  <2>3. StateOK(state) /\ state \in WorkflowState /\ rt \in DiagnosisRuntime
    BY ProceedingOK DEF StateOK, BaselineTypeOK
  <2>4. /\ rt' \in DiagnosisRuntime /\ rt'.verified = verdict
        /\ rt'.arbitration = rt.arbitration /\ rt'.completed = rt.completed
        /\ rt'.awaiting = rt.awaiting /\ rt'.baseline = rt.baseline
        /\ rt'.round = rt.round /\ rt'.stop = rt.stop
    BY <1>2, <2>1, <2>2, <2>3 DEF DiagnosisRuntime
  <2>5. /\ state' \in WorkflowState /\ state'.verified = verdict
        /\ UNCHANGED <<state.status, state.service, state.usage, state.done, state.error>>
        /\ state'.sources = state.sources
    BY <1>2, <2>1, <2>2, <2>3 DEF WorkflowState
  <2>6. StateOK(state')
    BY <2>1, <2>3, <2>5 DEF StateOK, WithinBudget
  <2>7. PolicyInv'
    BY <1>2, <2>4 DEF Goto, Proceeding, IInv, PolicyInv, PoliciesAreJudged
  <2> QED
    BY <1>2, <2>1, <2>4, <2>5, <2>6, <2>7, ProceedingOK, MovesTo DEF Nodes
<1> QED
  BY <1>1, <1>2, NodeFailsOK DEF Generate

LEMMA ReasonOK == ASSUME Proceeding, Reason PROVE StepOK
<1>1. Goto("arbitrate") /\ UNCHANGED state /\ node' = "arbitrate" /\ rt \in DiagnosisRuntime
  BY ProceedingOK DEF Reason, Goto, BaselineTypeOK
<1>2. PICK policies \in BOOLEAN, expansions \in BOOLEAN :
        rt' = rt \/ rt' = [rt EXCEPT !.policies = policies, !.unresolved = @ \/ expansions]
  BY DEF Reason
<1>3. /\ rt' \in DiagnosisRuntime /\ rt'.verified = rt.verified
      /\ rt'.arbitration = rt.arbitration /\ rt'.completed = rt.completed
      /\ rt'.awaiting = rt.awaiting /\ rt'.baseline = rt.baseline
      /\ rt'.round = rt.round /\ rt'.stop = rt.stop
  <2>1. CASE rt' = rt
    BY <1>1, <2>1
  <2>2. ASSUME NEW unresolved \in BOOLEAN,
               rt' = [rt EXCEPT !.policies = policies, !.unresolved = unresolved]
        PROVE  /\ rt' \in DiagnosisRuntime /\ rt'.verified = rt.verified
               /\ rt'.arbitration = rt.arbitration /\ rt'.completed = rt.completed
               /\ rt'.awaiting = rt.awaiting /\ rt'.baseline = rt.baseline
               /\ rt'.round = rt.round /\ rt'.stop = rt.stop
    BY <1>1, <2>2 DEF DiagnosisRuntime
  <2> QED
    BY <1>1, <1>2, <2>1, <2>2 DEF DiagnosisRuntime
<1>4. PolicyInv'
  BY <1>1, <1>3 DEF Proceeding, IInv, PolicyInv, PoliciesAreJudged
<1> QED
  BY <1>1, <1>3, <1>4, ProceedingOK, MovesOver DEF Nodes

\* What an arbitration accepts heads the ledger.
LEMMA ArbitratedOK ==
    ASSUME NEW verified \in Seq(VerifiedHypothesis), NEW wide \in BOOLEAN
    PROVE  LET a == Arbitrated(verified, wide) IN
           /\ a \in [accepted : BOOLEAN, top : Hypotheses \union {None}]
           /\ a.accepted => a.top # None
<1>1. verified # <<>> => verified[1] \in VerifiedHypothesis /\ Head(verified) = verified[1]
  OBVIOUS
<1>2. verified # <<>> => Head(verified).id \in Hypotheses
  BY <1>1 DEF VerifiedHypothesis
<1>3. 1 \in Ranked(verified) => verified # <<>>
  BY DEF Ranked
<1> QED
  BY <1>2, <1>3, AgentsAssumption DEF Arbitrated

LEMMA ArbitrateOK == ASSUME Proceeding, Arbitrate PROVE StepOK
<1>1. UNCHANGED state /\ rt \in DiagnosisRuntime /\ node = "arbitrate"
  BY ProceedingOK DEF Arbitrate, BaselineTypeOK
<1>2. CASE Goto("permission") /\ UNCHANGED rt
  <2>1. PolicyInv'
    BY <1>2 DEF Goto, Proceeding, IInv, PolicyInv, PoliciesAreJudged
  <2> QED
    BY <1>1, <1>2, <2>1, ProceedingOK, MovesOver DEF Nodes
<1>3. ASSUME ~rt.completed, NEW wide \in BOOLEAN,
             LET r == [(IF rt.round > 1 THEN Resolved(rt) ELSE rt)
                         EXCEPT !.arbitration = Arbitrated(rt.verified, wide)]
             IN IF r.arbitration.accepted \/ ~Active \/ LastRound(r)
                  THEN rt' = [r EXCEPT !.completed = TRUE] /\ Goto("permission")
                  ELSE \/ rt' = NextRound(r, TRUE) /\ Goto("compile")
                       \/ /\ r.policies /\ Len(r.verified) >= 2
                          /\ rt' = NextRound(r, FALSE) /\ Goto("compile")
                       \/ /\ rt' = [r EXCEPT !.completed = TRUE, !.stop = "no value"]
                          /\ Goto("permission")
      PROVE  StepOK
  <2> DEFINE q == IF rt.round > 1 THEN Resolved(rt) ELSE rt
             arbitration == Arbitrated(rt.verified, wide)
             r == [q EXCEPT !.arbitration = arbitration]
  <2>1. /\ q \in DiagnosisRuntime /\ q.verified = rt.verified /\ q.round = rt.round
        /\ ~q.completed /\ ~q.awaiting
    BY <1>1, <1>3, ResolvedOK DEF Proceeding, IInv, PolicyInv
  <2>2. /\ arbitration \in [accepted : BOOLEAN, top : Hypotheses \union {None}]
        /\ arbitration.accepted => arbitration.top # None
    BY <1>1, ArbitratedOK DEF DiagnosisRuntime
  <2> HIDE DEF q, arbitration
  <2>3. /\ r \in DiagnosisRuntime /\ r.verified = rt.verified /\ r.round = rt.round
        /\ r.arbitration = arbitration /\ ~r.completed /\ ~r.awaiting
    BY <2>1, <2>2 DEF DiagnosisRuntime
  <2>4. IF r.arbitration.accepted \/ ~Active \/ LastRound(r)
          THEN rt' = [r EXCEPT !.completed = TRUE] /\ Goto("permission")
          ELSE \/ rt' = NextRound(r, TRUE) /\ Goto("compile")
               \/ rt' = NextRound(r, FALSE) /\ Goto("compile")
               \/ rt' = [r EXCEPT !.completed = TRUE, !.stop = "no value"] /\ Goto("permission")
    BY <1>3 DEF q, arbitration
  <2> HIDE DEF r
  <2>5. ASSUME rt' = [r EXCEPT !.completed = TRUE] \/ rt' = [r EXCEPT !.completed = TRUE, !.stop = "no value"],
               Goto("permission")
        PROVE  StepOK
    <3>1. /\ rt' \in DiagnosisRuntime /\ rt'.verified = rt.verified
          /\ rt'.arbitration = arbitration /\ rt'.completed /\ ~rt'.awaiting
      BY <2>3, <2>5 DEF DiagnosisRuntime
    <3>2. PolicyInv'
      BY <2>5, <3>1 DEF Goto, PolicyInv, PoliciesAreJudged
    <3> QED
      BY <1>1, <2>2, <2>5, <3>1, <3>2, MovesOver DEF Nodes
  <2>6. ASSUME NEW dependency \in BOOLEAN, ~LastRound(r), rt' = NextRound(r, dependency), Goto("compile")
        PROVE  StepOK
    <3>1. r.round + 1 \in 1..MaxRounds /\ r.round + 1 > 1
      <4>1. MaxRounds \in Nat
        BY DEF MaxRounds
      <4>2. r.round \in 1..MaxRounds /\ ~(r.round >= MaxRounds)
        BY <2>3, <2>6 DEF DiagnosisRuntime, LastRound
      <4> HIDE DEF MaxRounds
      <4> QED
        BY <4>1, <4>2
    <3>2. rt' = [r EXCEPT !.round = r.round + 1, !.baseline = TRUE, !.pending = dependency,
                          !.awaiting = ~dependency]
      BY <2>3, <2>6 DEF NextRound, DiagnosisRuntime
    <3>3. /\ rt' \in DiagnosisRuntime /\ rt'.verified = rt.verified
          /\ rt'.arbitration = arbitration /\ rt'.baseline /\ rt'.round > 1 /\ ~rt'.completed
      BY <2>3, <3>1, <3>2 DEF DiagnosisRuntime
    <3>4. PolicyInv'
      BY <3>3 DEF PolicyInv, PoliciesAreJudged
    <3> QED
      BY <1>1, <2>2, <2>6, <3>3, <3>4, MovesOver DEF Nodes
  <2> QED
    BY <2>4, <2>5, <2>6
<1> QED
  BY <1>2, <1>3 DEF Arbitrate

LEMMA PermissionOK == ASSUME Proceeding, Permission PROVE StepOK
<1>1. CASE ~rt.completed
  BY <1>1, NodeFailsOK DEF Permission
<1>2. CASE rt.completed
  <2> DEFINE choice == rt.arbitration.top
             rejected == ~rt.arbitration.accepted
  <2>1. PICK s \in Ledgers(state, rt.drafts, rt.verified) : Handoff(Applied(s, choice, TRUE, rejected))
    BY <1>2 DEF Permission
  <2>2. /\ StateOK(state) /\ state.status # "PROPOSING" /\ IsLedger(rt.verified, state.sources)
        /\ rt.drafts \in Seq(Hypotheses) /\ rejected \in BOOLEAN
    BY ProceedingOK DEF BaselineTypeOK, DiagnosisRuntime, BeforeAgents
  <2>3. LedgerReady(state, s)
    BY <2>1, <2>2, LedgersOK
  <2> DEFINE u == Applied(s, choice, TRUE, rejected)
  <2>4. /\ HandoverOK(u, choice) /\ s.sources \subseteq u.sources
        /\ rejected => u.error \/ u.status = "NEEDS_ATTENTION"
    BY <2>2, <2>3, AppliedOK DEF LedgerReady
  <2>5. Handoff(u) /\ UNCHANGED <<method, rt>>
    BY <1>2, <2>1 DEF Permission
  <2> HIDE DEF u
  <2>6. state.sources \subseteq u.sources
    BY <2>3, <2>4 DEF LedgerReady
  <2> QED
    BY <2>4, <2>5, <2>6, HandoffOK
<1> QED
  BY <1>1, <1>2

LEMMA AgentsEndOK == ASSUME IInv, AgentsEnd PROVE StepOK
<1>1. UNCHANGED <<state, run, agent, todo, flight, method, rt>> /\ node' = "end"
      /\ run \in {"ended", "failed"} /\ node = "agents"
  BY DEF AgentsEnd, agentVars
<1>2. AgentsInv'
  BY <1>1 DEF IInv, AgentsInv
<1>3. GraphInv'
  BY <1>1 DEF IInv, GraphInv, BaselineTypeOK, Nodes, IsArbitrated, DiagnosisRuntime, MaxRounds,
     Active, Deterministic
<1>4. PolicyInv'
  BY <1>1 DEF IInv, PolicyInv, PoliciesAreJudged
<1> QED
  BY <1>1, <1>2, <1>3, <1>4 DEF StepOK, IInv

-----------------------------------------------------------------------------
(* The specification *)

LEMMA AgentsKeep ==
    ASSUME IInv, node = "agents", AgentSteps, UNCHANGED <<method, node, rt>>
    PROVE  StepOK
<1>1. run = "running"
  BY DEF AgentSteps, Calls, Delegate, DelegationRefused, CallFails, SequentialCall, ParallelCall,
     VerifyReads, VerifyWrites, InFlight, CallUnaffordable, Turn, ModelEnds, ModelCalls, AtModel
<1>2. Stepping
  BY <1>1 DEF Stepping
<1>3. AgentsStepOK
  BY <1>2, AgentsStep
<1>4. StateOK(state') /\ IsLedger(rt.verified, state'.sources)
  <2>1. StateOK(state') /\ state.sources \subseteq state'.sources
    BY <1>3 DEF AgentsStepOK, AgentsInv
  <2>2. state'.sources \in SUBSET Sources /\ state.sources \in SUBSET state'.sources
    BY <2>1 DEF StateOK, WorkflowState
  <2> QED
    BY <2>1, <2>2, LedgerStays DEF IInv, GraphInv
<1>5. GraphInv'
  BY <1>3, <1>4 DEF AgentsStepOK, IInv, GraphInv, BaselineTypeOK, DiagnosisRuntime, MaxRounds,
     Active, Deterministic
<1>6. PolicyInv'
  BY DEF IInv, PolicyInv, PoliciesAreJudged
<1> QED
  BY <1>3, <1>5, <1>6 DEF AgentsStepOK, StepOK, IInv

LEMMA NextKeeps == ASSUME IInv, Next PROVE StepOK
<1>1. CASE AgentsEnd
  BY <1>1, AgentsEndOK
<1>2. CASE GraphSteps /\ ~AgentsEnd
  <2>1. Proceeding
    BY <1>2 DEF GraphSteps, Router, React, SinglePass, SinglePassFails, Intent, Compile, Collect,
       BuildAssertions, Generate, Reason, Arbitrate, Permission, Proceeding
  <2> QED
    BY <1>2, <2>1, RouterOK, ReactOK, SinglePassOK, NodeFailsOK, IntentOK, CompileOK, CollectOK,
       BuildAssertionsOK, GenerateOK, ReasonOK, ArbitrateOK, PermissionOK
    DEF GraphSteps, SinglePassFails
<1>3. CASE node = "agents" /\ AgentSteps /\ UNCHANGED <<method, node, rt>>
  BY <1>3, AgentsKeep
<1> QED
  BY <1>1, <1>2, <1>3 DEF Next

LEMMA InitOK == ASSUME Init PROVE IInv
<1>1. PICK status \in {"COLLECTING", "DIAGNOSING"}, sources \in SUBSET Sources :
        state = NewState(status, sources)
  BY DEF Init
<1>2. state \in WorkflowState
  <2>1. /\ status \in Status /\ "" \in Lifecycle
        /\ [iterations |-> 0, tools |-> 0, corrections |-> 0] \in Usage
    BY DEF Status, Lifecycle, Usage
  <2> DEFINE service == [h \in Hypotheses |-> ""]
             usage == [a \in Agents |-> [iterations |-> 0, tools |-> 0, corrections |-> 0]]
  <2> DEFINE none == [iterations |-> 0, tools |-> 0, corrections |-> 0]
  <2>2. none \in Usage
    BY <2>1
  <2> HIDE DEF none
  <2>3. [a \in Agents |-> none] \in [Agents -> Usage]
    BY <2>2
  <2>4. service \in [Hypotheses -> Lifecycle]
    BY <2>1
  <2>5. usage \in [Agents -> Usage]
    BY <2>3, Zenon DEF none
  <2>6. <<>> \in Seq(VerifiedHypothesis) /\ <<>> \in Seq(Hypotheses)
    OBVIOUS
  <2>7. state = [status |-> status, sources |-> sources, drafts |-> <<>>, verified |-> <<>>,
                 service |-> service, selected |-> None, proposal |-> None, dryRun |-> None,
                 usage |-> usage, done |-> {}, error |-> FALSE]
    BY <1>1 DEF NewState
  <2> HIDE DEF service, usage
  <2> QED
    BY <2>1, <2>4, <2>5, <2>6, <2>7 DEF WorkflowState
<1>3. /\ state.verified = <<>> /\ state.status = status /\ ~state.error /\ state.done = {}
      /\ state.service = [h \in Hypotheses |-> ""]
      /\ state.usage = [a \in Agents |-> [iterations |-> 0, tools |-> 0, corrections |-> 0]]
  BY <1>1 DEF NewState
<1>4. StateOK(state)
  <2>1. IsLedger(state.verified, state.sources)
    BY <1>3, EmptyLedger
  <2>2. WithinBudget(state)
    <3>1. \A a \in Agents : 0 <= MaxIterations[a] /\ 0 <= MaxToolUses[a] /\ 0 <= MaxCorrections[a]
      BY AgentsAssumption
    <3>2. \A a \in Agents :
             state.usage[a] = [iterations |-> 0, tools |-> 0, corrections |-> 0]
      BY <1>3
    <3> QED
      BY <3>1, <3>2 DEF WithinBudget
  <2> QED
    BY <1>2, <1>3, <2>1, <2>2 DEF StateOK
<1>5. AgentsInv
  <2>1. run = "idle" /\ agent = "supervisor" /\ todo = [a \in Agents |-> <<>>]
        /\ DOMAIN flight = {}
    BY DEF Init, EmptyBag, SetToBag
  <2> QED
    BY <1>4, <2>1 DEF AgentsInv, Agents
<1>6. GraphInv
  <2>1. rt \in DiagnosisRuntime /\ rt.verified = <<>> /\ ~rt.arbitration.accepted
    BY DEF Init, NewRuntime, NoArbitration, DiagnosisRuntime, MaxRounds
  <2> QED
    BY <1>1, <1>3, <2>1, EmptyLedger DEF Init, GraphInv, BaselineTypeOK, Nodes, BeforeAgents
<1>7. PolicyInv
  BY DEF Init, NewRuntime, PolicyInv, PoliciesAreJudged
<1> QED
  BY <1>5, <1>6, <1>7 DEF IInv

\* The inductive invariant, for any methods, hypotheses, sources, budgets and batches.
THEOREM InvariantCorrect == Spec => []IInv
<1>1. IInv /\ UNCHANGED vars => IInv'
  BY DEF vars, agentVars, IInv, AgentsInv, GraphInv, PolicyInv, PoliciesAreJudged, BaselineTypeOK,
     DiagnosisRuntime, MaxRounds, Active, BeforeAgents, DiagnosisIsOver, NoDiagnosis, IsArbitrated,
     Deterministic
<1>2. IInv /\ [Next]_vars => IInv'
  BY <1>1, NextKeeps DEF StepOK
<1> QED
  BY <1>2, InitOK, PTL DEF Spec

\* No agent exceeds its budget, calls charged twice included, however the calls of the
\* diagnosis agent interleave.
THEOREM BudgetsKept == Spec => []BudgetsHold
<1>1. IInv => BudgetsHold
  BY DEF IInv, AgentsInv, GraphInv, StateOK, IsLedger, WithinBudget, BudgetsHold, TypeOK,
     AgentsTypeOK
<1> QED
  BY <1>1, InvariantCorrect, PTL

\* A run ends in front of a human or with what the end of the supervisor asks for.
THEOREM HandoffNeedsDiagnosis == Spec => []HandoffIsEarned
<1>1. IInv => HandoffIsEarned
  <2> SUFFICES ASSUME IInv, run = "ended", state.status # "NEEDS_ATTENTION"
               PROVE  HandoffIsEarned
    BY DEF HandoffIsEarned
  <2>1. /\ state.status = "PROPOSING" /\ state.proposal # None /\ state.dryRun # None
        /\ SelectionEarned(state)
    BY DEF IInv, AgentsInv, OutcomeIsValid, ResultEarned
  <2>2. Deterministic => rt.arbitration.accepted /\ state.selected = rt.arbitration.top
    BY <2>1 DEF IInv, GraphInv, BeforeAgents, IsArbitrated
  <2> QED
    BY <2>1, <2>2 DEF HandoffIsEarned, SelectionEarned, Corroborated, Deterministic
<1> QED
  BY <1>1, InvariantCorrect, PTL

\* The policies a round was bought for are judged before the diagnosis is over.
THEOREM PoliciesJudged == Spec => []PoliciesAreJudged
<1>1. IInv => PoliciesAreJudged
  BY DEF IInv, PolicyInv
<1> QED
  BY <1>1, InvariantCorrect, PTL

\* No call takes a refuted hypothesis up again, a verification that computed on an
\* older ledger included.
THEOREM RefutationStays == Spec => RefutedStaysRefuted
<1>1. IInv /\ [Next]_vars =>
        [\A h \in Hypotheses :
           state.service[h] = "REFUTED" => state'.service[h] = "REFUTED"]_vars
  BY NextKeeps DEF StepOK
<1> QED
  BY <1>1, InvariantCorrect, PTL DEF Spec, RefutedStaysRefuted
=============================================================================
