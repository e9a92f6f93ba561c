-------------------------- MODULE BrainLoop_proofs --------------------------
(***************************************************************************)
(* Proofs about BrainLoop, for any scenarios, budgets, batch sizes and      *)
(* numbers of hypotheses and revisions: the inductive invariant of the      *)
(* graph and, from it, the six properties of the module.  What a result     *)
(* does is first stated as facts about the operators it is built from       *)
(* (HypothesesGrow, MovedKeeps, ControlMoves, DiagnosisMoves); each part    *)
(* of the invariant then has one lemma for the steps and one for Init.      *)
(***************************************************************************)
EXTENDS BrainLoop, FiniteSetTheorems, SequenceTheorems, WellFoundedInduction, TLAPS

\* A nonempty, bounded set of numbers has a largest element.
LEMMA LargestOfBounded ==
    ASSUME NEW S \in SUBSET Nat, NEW K \in Nat, S # {}, \A w \in S : w <= K
    PROVE  \E v \in S : \A w \in S : w <= v
<1> DEFINE T == {n \in Nat : \A w \in S : w <= n}
<1>1. K \in T  OBVIOUS
<1>2. \E n \in T : \A m \in T : ~ (<<m, n>> \in OpToRel(<, Nat))
  <2>1. T \subseteq Nat /\ T # {}  BY <1>1
  <2> QED  BY <2>1, NatLessThanWellFounded, WFMin, Zenon
<1>3. PICK n \in T : \A m \in T : ~(m < n)
  BY <1>2 DEF OpToRel
<1>4. n \in S
  <2> SUFFICES ASSUME n \notin S PROVE FALSE  OBVIOUS
  <2>1. \A w \in S : w < n  OBVIOUS
  <2>2. PICK w \in S : w < n  BY <2>1
  <2>3. n - 1 \in T  BY <2>1, <2>2
  <2> QED  BY <2>3, <1>3
<1> QED  BY <1>4

\* A lineage has a largest version, so its next version is a number.
LEMMA NextVersionBounded ==
    ASSUME TypeOK, LedgerInv, NEW h \in Revisions
    PROVE  NextVersion(hypotheses[h].lineage) \in Nat
<1> DEFINE V == {hypotheses[r].version : r \in {q \in Revisions : hypotheses[q].lineage = hypotheses[h].lineage}}
<1>1. V \in SUBSET Nat
  <2>1. \A r \in Revisions : hypotheses[r] \in Hypothesis  BY DEF TypeOK, Revisions
  <2>2. \A r \in Revisions : hypotheses[r].version \in Nat  BY <2>1 DEF Hypothesis
  <2> QED  BY <2>2
<1>2. V # {}  OBVIOUS
<1>3. \A w \in V : w <= MaxRevisions + 1  BY DEF LedgerInv
<1>a. MaxRevisions + 1 \in Nat  BY LimitsAssumption
<1>4. \E v \in V : \A w \in V : w <= v
  <2> HIDE DEF V
  <2> QED  BY <1>1, <1>2, <1>3, <1>a, LargestOfBounded
<1> HIDE DEF V
<1>5. (CHOOSE v \in V : \A w \in V : w <= v) \in V  BY <1>4
<1>6. 1 + (CHOOSE v \in V : \A w \in V : w <= v) \in Nat
  <2> DEFINE c == CHOOSE v \in V : \A w \in V : w <= v
  <2>1. c \in Nat  BY <1>5, <1>1
  <2> HIDE DEF c
  <2>2. 1 + c \in Nat  BY <2>1
  <2> QED  BY <2>2 DEF c
<1>7. NextVersion(hypotheses[h].lineage) = 1 + (CHOOSE v \in V : \A w \in V : w <= v)
  BY DEF NextVersion, V
<1> QED  BY <1>6, <1>7

-----------------------------------------------------------------------------
(* What one result does *)

\* The counters of ToolPolicy.Validate stay within their limits.
LEMMA RecordedType ==
    ASSUME NEW h \in History, NEW tool \in Tool \union {"structured_output_guard"}, NEW category, NEW fresh \in BOOLEAN
    PROVE  Recorded(h, tool, category, fresh) \in History
BY DEF Recorded, AtMost, History, MaxQuiet, MaxRepeat

\* The number of active hypotheses is a number.
LEMMA ActiveCountType ==
    ASSUME NEW hs \in Seq(Hypothesis)
    PROVE  ActiveCount(hs) \in Nat
<1> DEFINE A == {h \in DOMAIN hs :
                    hs[h].status \in {"PROPOSED", "ADMITTED", "INVESTIGATING", "SUPPORTED"}}
<1>1. DOMAIN hs = 1..Len(hs) /\ Len(hs) \in Nat  OBVIOUS
<1>2. IsFiniteSet(DOMAIN hs)  BY <1>1, FS_Interval
<1>3. A \subseteq DOMAIN hs  OBVIOUS
<1>4. IsFiniteSet(A)  BY <1>2, <1>3, FS_Subset
<1>5. Cardinality(A) \in Nat  BY <1>4, FS_CardinalityType
<1> QED  BY <1>5 DEF ActiveCount

\* What submit_hypotheses adds are hypotheses at version 1.
LEMMA RootsWellFormed ==
    ASSUME TypeOK, NEW r \in Result
    PROVE  /\ NewRoots(r) \in Seq(Hypothesis)
           /\ \A n \in DOMAIN NewRoots(r) :
                NewRoots(r)[n].version = 1 /\ NewRoots(r)[n].status # "SUPPORTED"
<1>1. Created(r.call) \in Nat  BY DEF Created
<1>2. Len(hypotheses) \in Nat  BY DEF TypeOK
<1>3. \A n \in 1..Created(r.call) :
        [lineage |-> Len(hypotheses) + n, version |-> 1,
         status |-> IF r.call.arg = "rejected" THEN "PROPOSED" ELSE "ADMITTED",
         admitted |-> r.call.arg # "rejected", confidence |-> 1, level |-> None, snapshot |-> 0]
        \in Hypothesis
  BY <1>2 DEF Hypothesis, Status, None
<1>4. NewRoots(r) \in [1..Created(r.call) -> Hypothesis]  BY <1>3 DEF NewRoots
<1>5. NewRoots(r) \in Seq(Hypothesis)  BY <1>1, <1>4
<1> QED  BY <1>5, <1>4 DEF NewRoots

\* A revision is a hypothesis of the same lineage at the next version.
LEMMA RevisionWellFormed ==
    ASSUME TypeOK, NEW r \in Result, ResultHolds(r), Does(r, "revise_hypothesis")
    PROVE  /\ Revision(r) \in Hypothesis
           /\ Revision(r).version <= MaxRevisions + 1 /\ Revision(r).status # "SUPPORTED"
<1>1. r.call.hypothesis \in Revisions  BY DEF ResultHolds, WellShaped, Does, AboutOne
<1>2. hypotheses[r.call.hypothesis] \in Hypothesis  BY <1>1 DEF TypeOK, Revisions
<1>3. hypotheses[r.call.hypothesis].lineage \in Nat  BY <1>2 DEF Hypothesis
<1>4. r.seen.version \in Nat  BY DEF Result
<1>5. r.seen.version <= MaxRevisions + 1  BY DEF ResultHolds
<1> QED  BY <1>3, <1>4, <1>5 DEF Revision, Hypothesis, Status, None

\* Hypotheses are only added, what is supported has the snapshot of the ledger,
\* and no tool but the commit changes a confidence.
HypothesesStand(hs) ==
    /\ hs \in Seq(Hypothesis)
    /\ Revisions \subseteq DOMAIN hs
    /\ \A h \in DOMAIN hs :
          /\ hs[h].version <= MaxRevisions + 1
          /\ hs[h].status = "SUPPORTED" => hs[h].snapshot = snapshot
    /\ \A h \in Revisions : hs[h].confidence = hypotheses[h].confidence

\* A result adds hypotheses behind those it found and keeps the confidence of each;
\* what it grounds, it grounds on the snapshot.
LEMMA HypothesesGrow ==
    ASSUME TypeOK, LedgerInv, NEW r \in Result, ResultHolds(r)
    PROVE  HypothesesStand(HypothesesAfter(r))
<1> USE LimitsAssumption
<1>0. hypotheses \in Seq(Hypothesis) /\ Revisions = DOMAIN hypotheses  BY DEF TypeOK, Revisions
<1>a. \A h \in Revisions : hypotheses[h] \in Hypothesis  BY <1>0
<1>b. HypothesesStand(hypotheses)  BY <1>0 DEF HypothesesStand, LedgerInv
<1>1. CASE Does(r, "submit_hypotheses")
  <2>1. HypothesesAfter(r) = hypotheses \o NewRoots(r)  BY <1>1 DEF HypothesesAfter, Does
  <2> DEFINE new == NewRoots(r)
  <2>2. /\ new \in Seq(Hypothesis)
        /\ \A n \in DOMAIN new : new[n].version = 1 /\ new[n].status # "SUPPORTED"
    BY RootsWellFormed
  <2> HIDE DEF new
  <2> DEFINE hs == hypotheses \o new
  <2>3. hs \in Seq(Hypothesis) /\ Len(hs) = Len(hypotheses) + Len(new)  BY <1>0, <2>2
  <2>4. \A h \in DOMAIN hs :
           hs[h] = IF h \in Revisions THEN hypotheses[h] ELSE new[h - Len(hypotheses)]
    BY <1>0, <2>2
  <2>5. \A h \in DOMAIN hs : h \notin Revisions => h - Len(hypotheses) \in DOMAIN new
    BY <1>0, <2>2, <2>3
  <2>6. Revisions \subseteq DOMAIN hs  BY <1>0, <2>2, <2>3
  <2> HIDE DEF hs
  <2>7. ASSUME NEW h \in DOMAIN hs
        PROVE  hs[h].version <= MaxRevisions + 1 /\ (hs[h].status = "SUPPORTED" => hs[h].snapshot = snapshot)
    <3>1. CASE h \in Revisions  BY <3>1, <2>4 DEF LedgerInv
    <3>2. CASE h \notin Revisions  BY <3>2, <2>4, <2>5, <2>2
    <3> QED  BY <3>1, <3>2
  <2>8. \A h \in Revisions : hs[h].confidence = hypotheses[h].confidence  BY <2>4, <2>6
  <2>9. HypothesesStand(hs)  BY <2>3, <2>6, <2>7, <2>8 DEF HypothesesStand
  <2> QED  BY <2>1, <2>9 DEF hs, new
<1>2. CASE Does(r, "revise_hypothesis")
  <2> DEFINE parents == {r.call.hypothesis} \union r.call.merged
             old == Superseded(parents)
             hs == Append(old, Revision(r))
  <2>1. HypothesesAfter(r) = hs
    BY <1>2 DEF HypothesesAfter, Does
  <2>3. /\ Revision(r) \in Hypothesis
        /\ Revision(r).version <= MaxRevisions + 1 /\ Revision(r).status # "SUPPORTED"
    BY <1>2, RevisionWellFormed
  <2>4. \A h \in Revisions : [hypotheses[h] EXCEPT !.status = "REPLACED"] \in Hypothesis
    BY <1>a DEF Hypothesis, Status
  <2>6. \A h \in Revisions : old[h] = IF h \in parents THEN [hypotheses[h] EXCEPT !.status = "REPLACED"]
                                      ELSE hypotheses[h]
    BY <1>0 DEF Superseded
  <2>5. old \in Seq(Hypothesis) /\ Len(old) = Len(hypotheses) /\ DOMAIN old = Revisions
    <3>1. old \in [1..Len(hypotheses) -> Hypothesis]  BY <1>0, <1>a, <2>4 DEF Superseded
    <3>2. Len(hypotheses) \in Nat /\ DOMAIN old = 1..Len(hypotheses)  BY <1>0, <3>1
    <3> HIDE DEF old
    <3>3. old \in Seq(Hypothesis) /\ Len(old) = Len(hypotheses)  BY <3>1, <3>2
    <3> QED  BY <3>2, <3>3, <1>0
  <2>7. ASSUME NEW h \in Revisions
        PROVE  /\ old[h].version <= MaxRevisions + 1
               /\ old[h].status = "SUPPORTED" => old[h].snapshot = snapshot
               /\ old[h].confidence = hypotheses[h].confidence
    <3>1. hypotheses[h] \in Hypothesis  BY <1>a
    <3>2. /\ hypotheses[h].version <= MaxRevisions + 1
          /\ hypotheses[h].status = "SUPPORTED" => hypotheses[h].snapshot = snapshot
      BY DEF LedgerInv
    <3>3. CASE h \in parents
      <4>1. old[h] = [hypotheses[h] EXCEPT !.status = "REPLACED"]  BY <2>6, <3>3
      <4> QED  BY <3>1, <3>2, <4>1 DEF Hypothesis
    <3>4. CASE h \notin parents  BY <2>6, <3>4, <3>2
    <3> QED  BY <3>3, <3>4
  <2> HIDE DEF old
  <2>8. hs \in Seq(Hypothesis) /\ Len(hs) = Len(old) + 1  BY <2>5, <2>3
  <2>9. \A h \in DOMAIN hs : hs[h] = IF h \in Revisions THEN old[h] ELSE Revision(r)
    BY <2>5, <2>3, <1>0
  <2>10. Revisions \subseteq DOMAIN hs  BY <2>5, <2>8, <1>0
  <2> HIDE DEF hs
  <2>11. ASSUME NEW h \in DOMAIN hs
         PROVE  hs[h].version <= MaxRevisions + 1 /\ (hs[h].status = "SUPPORTED" => hs[h].snapshot = snapshot)
    <3>1. CASE h \in Revisions  BY <3>1, <2>9, <2>7
    <3>2. CASE h \notin Revisions  BY <3>2, <2>9, <2>3
    <3> QED  BY <3>1, <3>2
  <2>12. \A h \in Revisions : hs[h].confidence = hypotheses[h].confidence  BY <2>9, <2>10, <2>7
  <2>13. HypothesesStand(hs)  BY <2>8, <2>10, <2>11, <2>12 DEF HypothesesStand
  <2> QED  BY <2>1, <2>13
<1>3. CASE Does(r, "validate_hypothesis")
  <2> DEFINE at == r.call.hypothesis
             level == GroundedLevel(r.call)
             new == [hypotheses[at] EXCEPT !.level = level, !.snapshot = r.seen.snapshot,
                                           !.status = GroundedStatus(level)]
             hs == [hypotheses EXCEPT ![at].level = level, ![at].snapshot = r.seen.snapshot,
                                      ![at].status = GroundedStatus(level)]
  <2>1. HypothesesAfter(r) = hs
    BY <1>3 DEF HypothesesAfter, Does
  <2>2. at \in Revisions /\ r.call.arg \in Level \union Contested /\ r.seen.snapshot = snapshot
    BY <1>3 DEF ResultHolds, WellShaped, Does, AboutOne
  <2>3. level \in Level  BY <2>2 DEF GroundedLevel, Contested, Level
  <2>4. GroundedStatus(level) \in Status  BY <2>3 DEF GroundedStatus, Level, Status
  <2>5. hypotheses[at] \in Hypothesis  BY <1>a, <2>2
  <2>6. snapshot \in Nat  BY DEF TypeOK
  <2>7. /\ new \in Hypothesis
        /\ new.version = hypotheses[at].version /\ new.snapshot = snapshot
        /\ new.confidence = hypotheses[at].confidence
    <3> HIDE DEF level
    <3> QED  BY <2>2, <2>3, <2>4, <2>5, <2>6 DEF Hypothesis
  <2>8. hs = [hypotheses EXCEPT ![at] = new]  BY <1>0, <2>2, <2>5 DEF Hypothesis
  <2> HIDE DEF new, hs
  <2>9. hs \in Seq(Hypothesis) /\ DOMAIN hs = Revisions  BY <2>8, <1>0, <2>2, <2>7, ExceptSeq
  <2>10. \A h \in Revisions : hs[h] = IF h = at THEN new ELSE hypotheses[h]  BY <2>8, <1>0, <2>2
  <2>11. ASSUME NEW h \in Revisions
         PROVE  /\ hs[h].version <= MaxRevisions + 1
                /\ hs[h].status = "SUPPORTED" => hs[h].snapshot = snapshot
                /\ hs[h].confidence = hypotheses[h].confidence
    BY <2>10, <2>7 DEF LedgerInv
  <2>12. HypothesesStand(hs)  BY <2>9, <2>11 DEF HypothesesStand
  <2> QED  BY <2>1, <2>12
<1>4. CASE ~Does(r, "submit_hypotheses") /\ ~Does(r, "revise_hypothesis") /\ ~Does(r, "validate_hypothesis")
  <2>1. HypothesesAfter(r) = hypotheses  BY <1>4 DEF HypothesesAfter
  <2> QED  BY <2>1, <1>b
<1> QED  BY <1>1, <1>2, <1>3, <1>4

\* A phase that reflects knows the phase it came from.
ControlStands(c) ==
    /\ c \in Control
    /\ c.resume # "REFLECTION"
    /\ c.phase = "REFLECTION" => c.resume # None

\* Entering a phase touches nothing but the phase and the category it opens with.
LEMMA EnterKeeps ==
    ASSUME NEW c \in Control, NEW phase \in Phase
    PROVE  /\ Enter(c, phase) \in Control
           /\ Enter(c, phase).phase = phase /\ Enter(c, phase).resume = c.resume
           /\ Enter(c, phase).owed = c.owed /\ Enter(c, phase).termination = c.termination
<1>1. defaultCategoryForPhase(phase) \in Category  BY DEF defaultCategoryForPhase, Phase, Category
<1> QED  BY <1>1 DEF Enter, Control

\* Where a tool result may move the loop, and which one moves it to RECOVERY.
LEMMA MovedKeeps ==
    ASSUME control \in Control, NEW r \in Result, ResultHolds(r)
    PROVE  /\ Moved(r) \in Control
           /\ Moved(r).resume = control.resume /\ Moved(r).owed = control.owed
           /\ Moved(r).phase = control.phase \/ Moved(r).phase \in {"PLANNING", "INVESTIGATION", "DIAGNOSIS", "ESCALATION"}
              \/ (Moved(r).phase = "RECOVERY" /\ Does(r, "validate_diagnosis") /\ r.seen.valid
                                              /\ ~r.seen.diagnosis.provisional)
           /\ Moved(r).termination = control.termination
              \/ (Does(r, "finish_investigation") /\ Moved(r).termination = r.call.arg /\ r.call.arg # None)
           /\ Moved(r).phase # control.phase => Moved(r).phase # "REFLECTION"
           /\ r.class = "EVIDENCE" => Moved(r) = control
<1>0. control.phase \in Phase  BY DEF Control
<1>1. CASE Does(r, "submit_incident_understanding")
  <2>1. Moved(r) = Enter(control, "PLANNING") /\ "PLANNING" \in Phase /\ r.class # "EVIDENCE"
    BY <1>1 DEF Moved, Phase, Does, ResultHolds, EvidenceTools
  <2> QED  BY <2>1, EnterKeeps
<1>2. CASE Does(r, "submit_investigation_plan") \/ Does(r, "revise_investigation_plan")
  <2>1. Moved(r) = Enter(control, "INVESTIGATION") /\ "INVESTIGATION" \in Phase /\ r.class # "EVIDENCE"
    BY <1>2 DEF Moved, Phase, Does, ResultHolds, EvidenceTools
  <2> QED  BY <2>1, EnterKeeps
<1>3. CASE Does(r, "validate_diagnosis") /\ r.seen.valid
  <2> DEFINE phase == HandoffPhase(r.seen.diagnosis)
  <2>1. Moved(r) = Enter(control, phase) /\ phase \in Phase /\ r.class # "EVIDENCE"
    BY <1>3 DEF Moved, Phase, Does, HandoffPhase, ResultHolds, EvidenceTools
  <2>2. phase = "ESCALATION" \/ (phase = "RECOVERY" /\ ~r.seen.diagnosis.provisional)
    BY DEF HandoffPhase
  <2> HIDE DEF phase
  <2> QED  BY <1>3, <2>1, <2>2, EnterKeeps
<1>4. CASE Does(r, "advance_brain_phase")
  <2>1. Moved(r) = Enter(control, "DIAGNOSIS") /\ "DIAGNOSIS" \in Phase /\ r.class # "EVIDENCE"
    BY <1>4 DEF Moved, Phase, Does, ResultHolds, EvidenceTools
  <2> QED  BY <2>1, EnterKeeps
<1>5. CASE Does(r, "request_skills") /\ r.call.arg = "explore-resources"
  <2>1. Moved(r) = [control EXCEPT !.category = "EVIDENCE"] /\ r.class # "EVIDENCE"
    BY <1>5 DEF Moved, Does, ResultHolds, EvidenceTools
  <2> QED  BY <2>1 DEF Control, Category
<1>6. CASE Does(r, "select_tool_category")
  <2>1. Moved(r) = [control EXCEPT !.category = r.call.arg] /\ r.class # "EVIDENCE"
    BY <1>6 DEF Moved, Does, ResultHolds, EvidenceTools
  <2>2. r.call.arg \in {"EVIDENCE", "RETRIEVAL", "REASONING"}
    BY <1>6 DEF ResultHolds, WellShaped, Does
  <2> QED  BY <2>1, <2>2 DEF Control, Category
<1>7. CASE Does(r, "finish_investigation")
  <2>1. Moved(r) = [control EXCEPT !.termination = r.call.arg] /\ r.class # "EVIDENCE"
    BY <1>7 DEF Moved, Does, ResultHolds, EvidenceTools
  <2>2. r.call.arg \in Termination /\ r.call.arg # None
    BY <1>7 DEF ResultHolds, WellShaped, Does, Termination, None
  <2> QED  BY <1>7, <2>1, <2>2 DEF Control
<1>8. CASE /\ ~Does(r, "submit_incident_understanding") /\ ~Does(r, "submit_investigation_plan")
           /\ ~Does(r, "revise_investigation_plan") /\ ~(Does(r, "validate_diagnosis") /\ r.seen.valid)
           /\ ~Does(r, "advance_brain_phase") /\ ~(Does(r, "request_skills") /\ r.call.arg = "explore-resources")
           /\ ~Does(r, "select_tool_category") /\ ~Does(r, "finish_investigation")
  <2>1. Moved(r) = control  BY <1>8 DEF Moved
  <2> QED  BY <2>1
<1> QED  BY <1>1, <1>2, <1>3, <1>4, <1>5, <1>6, <1>7, <1>8

\* The trigger a result leaves is one of ReflectionTrigger.
LEMMA TriggeredType ==
    ASSUME NEW r, NEW pending \in Trigger \union {None}
    PROVE  Triggered(r, pending) \in Trigger \union {None}
BY DEF Triggered, Trigger

\* A result only terminates: what is owed is claimed, and only a request to
\* finish claims a confident diagnosis.
LEMMA ControlMoves ==
    ASSUME control \in Control, ControlInv, NEW r \in Result, ResultHolds(r)
    PROVE  /\ ControlStands(ControlAfter(r))
           /\ control.owed = "RECOVERY_FAILED" =>
                ControlAfter(r).owed = "RECOVERY_FAILED" \/ ControlAfter(r).termination # None
           /\ control.termination # None => ControlAfter(r).termination # None
           /\ ControlAfter(r).termination = "DIAGNOSIS_CONFIDENT" =>
                \/ control.termination = "DIAGNOSIS_CONFIDENT"
                \/ (Does(r, "finish_investigation") /\ r.call.arg = "DIAGNOSIS_CONFIDENT")
           /\ (\/ ControlAfter(r).phase = "RECOVERY"
               \/ (ControlAfter(r).phase = "REFLECTION" /\ ControlAfter(r).resume = "RECOVERY")) =>
                InRecovery \/ (Does(r, "validate_diagnosis") /\ ~r.seen.diagnosis.provisional)
           /\ r.class = "EVIDENCE" => ControlAfter(r).phase = control.phase
<1> DEFINE m == Moved(r)
           c == [m EXCEPT !.pending = Triggered(r, @)]
<1>1. /\ m \in Control
      /\ m.resume = control.resume /\ m.owed = control.owed
      /\ m.phase = control.phase \/ m.phase \in {"PLANNING", "INVESTIGATION", "DIAGNOSIS", "ESCALATION"}
         \/ (m.phase = "RECOVERY" /\ Does(r, "validate_diagnosis") /\ r.seen.valid
                                         /\ ~r.seen.diagnosis.provisional)
      /\ m.termination = control.termination
         \/ (Does(r, "finish_investigation") /\ m.termination = r.call.arg /\ r.call.arg # None)
      /\ m.phase # control.phase => m.phase # "REFLECTION"
      /\ r.class = "EVIDENCE" => m = control
  BY MovedKeeps
<1> HIDE DEF m
<1>2. /\ c \in Control
      /\ c.phase = m.phase /\ c.resume = m.resume /\ c.owed = m.owed /\ c.termination = m.termination
  <2>1. m.pending \in Trigger \union {None}  BY <1>1 DEF Control
  <2>2. Triggered(r, m.pending) \in Trigger \union {None}  BY <2>1, TriggeredType
  <2> QED  BY <1>1, <2>2 DEF Control
<1>3. ControlAfter(r) = IF c.phase = "REFLECTION" /\ Corrective(r) THEN Resumed(c) ELSE c
  BY DEF ControlAfter, m
<1>4. r.class = "EVIDENCE" => ~Corrective(r)
  BY DEF Corrective, CreatesHypotheses, RequestsSkills, Does, ResultHolds, EvidenceTools
<1> HIDE DEF c
<1>5. CASE ~(c.phase = "REFLECTION" /\ Corrective(r))
  <2>1. ControlAfter(r) = c  BY <1>3, <1>5
  <2> QED  BY <1>1, <1>2, <2>1 DEF ControlInv, ControlStands, InRecovery
<1>6. CASE c.phase = "REFLECTION" /\ Corrective(r)
  <2> DEFINE d == Resumed(c)
  <2>1. ControlAfter(r) = d /\ r.class # "EVIDENCE"  BY <1>3, <1>4, <1>6
  <2>2. control.phase = "REFLECTION" /\ c.resume = control.resume  BY <1>1, <1>2, <1>6
  <2>3. c.resume \in Phase /\ c.resume # "REFLECTION" /\ c.resume # None
    BY <1>2, <2>2 DEF ControlInv, Control
  <2>4. /\ d \in Control /\ d.phase = c.resume /\ d.resume = None
        /\ c.owed = "RECOVERY_FAILED" => d.termination = "RECOVERY_FAILED"
        /\ d.termination = c.termination \/ d.termination = "RECOVERY_FAILED"
    BY <1>2, <2>3 DEF Resumed, Control, Trigger, Termination, None
  <2> HIDE DEF d
  <2> QED  BY <1>1, <1>2, <2>1, <2>2, <2>3, <2>4 DEF ControlStands, InRecovery, None
<1> QED  BY <1>5, <1>6

\* A diagnosis of the ledger is about one of its hypotheses, and one that is not
\* provisional was validated on the snapshot.
DiagnosisStands(d) ==
    /\ d \in Diagnosis
    /\ d.hypothesis = 0 => d = NoDiagnosis
    /\ d.snapshot <= snapshot
    /\ ~d.provisional => d.checked /\ d.snapshot = snapshot

\* A submitted diagnosis is provisional; only a validation on the snapshot is not.
LEMMA DiagnosisMoves ==
    ASSUME TypeOK, LedgerInv, NEW r \in Result, ResultHolds(r)
    PROVE  /\ DiagnosisStands(DiagnosisAfter(r))
           /\ DiagnosisAfter(r).hypothesis \in Revisions \union {0}
           /\ diagnosis # NoDiagnosis => DiagnosisAfter(r) # NoDiagnosis
           /\ DiagnosisAfter(r).provisional = diagnosis.provisional
              \/ Does(r, "submit_diagnosis")
              \/ (Does(r, "validate_diagnosis") /\ DiagnosisAfter(r) = r.seen.diagnosis)
<1>0. diagnosis \in Diagnosis /\ snapshot \in Nat  BY DEF TypeOK
<1>a. DiagnosisStands(diagnosis) /\ diagnosis.hypothesis \in Revisions \union {0}
  BY <1>0 DEF LedgerInv, DiagnosisStands
<1>b. Revisions \subseteq Nat \ {0}  BY DEF TypeOK, Revisions
<1>1. CASE Does(r, "submit_diagnosis")
  <2> DEFINE d == [hypothesis |-> r.call.hypothesis, confidence |-> r.seen.confidence,
                   snapshot |-> r.seen.snapshot, cited |-> TRUE, checked |-> FALSE, provisional |-> TRUE]
  <2>1. DiagnosisAfter(r) = d  BY <1>1 DEF DiagnosisAfter, Does
  <2>2. r.call.hypothesis \in Revisions /\ r.seen.snapshot = snapshot
    BY <1>1 DEF ResultHolds, WellShaped, Does, AboutOne
  <2>3. r.seen.confidence \in 0..1  BY DEF Result
  <2>4. d \in Diagnosis /\ d.hypothesis \in Revisions /\ d.hypothesis # 0
        /\ d.snapshot = snapshot /\ d.provisional
    BY <2>2, <2>3, <1>0, <1>b DEF Diagnosis
  <2> HIDE DEF d
  <2>5. DiagnosisStands(d)  BY <2>4, <1>0 DEF DiagnosisStands
  <2>6. d # NoDiagnosis  BY <2>4 DEF NoDiagnosis
  <2> QED  BY <1>1, <2>1, <2>4, <2>5, <2>6
<1>2. CASE Does(r, "validate_diagnosis")
  <2>1. DiagnosisAfter(r) = IF r.seen.diagnosis = NoDiagnosis THEN diagnosis ELSE r.seen.diagnosis
    BY <1>2 DEF DiagnosisAfter, Does
  <2>2. r.seen.diagnosis \in Diagnosis  BY DEF Result
  <2>3. DiagnosisStands(r.seen.diagnosis) /\ r.seen.diagnosis.hypothesis \in Revisions \union {0}
    BY <2>2 DEF ResultHolds, DiagnosisStands
  <2> QED  BY <1>2, <2>1, <2>3, <1>a
<1>3. CASE Does(r, "validate_hypothesis")
  <2> DEFINE d == [diagnosis EXCEPT !.cited = FALSE]
  <2>1. DiagnosisAfter(r) = IF diagnosis.hypothesis = r.call.hypothesis THEN d ELSE diagnosis
    BY <1>3 DEF DiagnosisAfter, Does
  <2>2. r.call.hypothesis \in Revisions  BY <1>3 DEF ResultHolds, WellShaped, Does, AboutOne
  <2>3. /\ d \in Diagnosis /\ d.hypothesis = diagnosis.hypothesis /\ d.snapshot = diagnosis.snapshot
        /\ d.provisional = diagnosis.provisional /\ d.checked = diagnosis.checked
    BY <1>0 DEF Diagnosis
  <2> HIDE DEF d
  <2>4. CASE diagnosis.hypothesis = r.call.hypothesis
    <3>1. DiagnosisAfter(r) = d /\ d.hypothesis # 0  BY <2>1, <2>2, <2>3, <2>4, <1>b
    <3> QED  BY <3>1, <2>2, <2>3, <2>4, <1>a DEF DiagnosisStands, NoDiagnosis
  <2>5. CASE diagnosis.hypothesis # r.call.hypothesis  BY <2>1, <2>5, <1>a
  <2> QED  BY <2>4, <2>5
<1>4. CASE ~Does(r, "submit_diagnosis") /\ ~Does(r, "validate_diagnosis") /\ ~Does(r, "validate_hypothesis")
  <2>1. DiagnosisAfter(r) = diagnosis  BY <1>4 DEF DiagnosisAfter
  <2> QED  BY <2>1, <1>a
<1> QED  BY <1>1, <1>2, <1>3, <1>4

-----------------------------------------------------------------------------
(* What the model may call, and what a tool answers *)

\* The category of a turn is a tool category.
LEMMA EffectiveCategoryType ==
    ASSUME control \in Control
    PROVE  effectiveToolCategory \in Category
BY DEF effectiveToolCategory, defaultCategoryForPhase, Control, Phase, Category

\* The environment draws well-typed calls.
LEMMA CallsTyped ==
    ASSUME NEW tools \in SUBSET Tool, NEW args \in SUBSET Answer, TypeOK
    PROVE  /\ Call(tools, args) \subseteq CallRecord /\ About(tools, args) \subseteq CallRecord
           /\ Revising(args) \subseteq CallRecord
<1>1. DOMAIN hypotheses \subseteq Nat  BY DEF TypeOK
<1>2. ASSUME NEW call \in Call(tools, args)  PROVE call \in CallRecord
  BY DEF Call, CallRecord
<1>3. ASSUME NEW call \in About(tools, args)  PROVE call \in CallRecord
  BY <1>1 DEF About, CallRecord
<1>4. ASSUME NEW call \in Revising(args)  PROVE call \in CallRecord
  BY <1>1 DEF Revising, CallRecord, Tool
<1> QED  BY <1>2, <1>3, <1>4

\* What is left of a batch is its beginning.
LEMMA CutFits ==
    ASSUME NEW calls \in Seq(CallRecord), NEW limit \in Nat
    PROVE  /\ Cut(calls, limit) \in Seq(CallRecord)
           /\ Len(Cut(calls, limit)) <= Len(calls) /\ Len(Cut(calls, limit)) <= limit
           /\ \A i \in DOMAIN Cut(calls, limit) : i \in DOMAIN calls /\ Cut(calls, limit)[i] = calls[i]
<1> DEFINE n == IF Len(calls) > limit THEN limit ELSE Len(calls)
<1>1. n \in Nat /\ n <= Len(calls) /\ n <= limit  OBVIOUS
<1>2. Cut(calls, limit) = SubSeq(calls, 1, n)  BY DEF Cut
<1> HIDE DEF n
<1>3. /\ SubSeq(calls, 1, n) \in Seq(CallRecord) /\ Len(SubSeq(calls, 1, n)) = n
      /\ \A i \in DOMAIN SubSeq(calls, 1, n) : i \in DOMAIN calls /\ SubSeq(calls, 1, n)[i] = calls[i]
  BY <1>1
<1> QED  BY <1>1, <1>2, <1>3

\* The gateway cuts a batch to the calls left.
LEMMA TruncatedFits ==
    ASSUME TypeOK, NEW calls \in Seq(CallRecord)
    PROVE  /\ Truncated(calls) \in Seq(CallRecord)
           /\ Len(Truncated(calls)) \in Nat /\ Len(Truncated(calls)) <= Len(calls)
           /\ Remaining > 0 => Len(Truncated(calls)) <= Remaining
           /\ \A i \in DOMAIN Truncated(calls) : i \in DOMAIN calls /\ Truncated(calls)[i] = calls[i]
<1> DEFINE reads == IF effectiveToolCategory = "EVIDENCE" THEN Cut(calls, scenario.maxReads) ELSE calls
           limit == IF Remaining > 0 THEN Remaining ELSE 1
<1>1. limit \in Nat /\ (Remaining > 0 => limit = Remaining)
  <2>1. usage.toolCalls \in Nat  BY DEF TypeOK, Usage
  <2>2. Remaining \in Int  BY <2>1, ScenariosAssumption DEF TypeOK, Remaining
  <2> QED  BY <2>2
<1>2. scenario.maxReads \in Nat  BY ScenariosAssumption DEF TypeOK
<1>3. /\ reads \in Seq(CallRecord) /\ Len(reads) <= Len(calls)
      /\ \A i \in DOMAIN reads : i \in DOMAIN calls /\ reads[i] = calls[i]
  BY <1>2, CutFits
<1>4. Truncated(calls) = Cut(reads, limit)  BY DEF Truncated
<1> HIDE DEF reads, limit
<1>5. /\ Cut(reads, limit) \in Seq(CallRecord)
      /\ Len(Cut(reads, limit)) <= Len(reads) /\ Len(Cut(reads, limit)) <= limit
      /\ \A i \in DOMAIN Cut(reads, limit) : i \in DOMAIN reads /\ Cut(reads, limit)[i] = reads[i]
  BY <1>1, <1>3, CutFits
<1>6. Len(reads) \in Nat /\ Len(calls) \in Nat /\ Len(Cut(reads, limit)) \in Nat  BY <1>3, <1>5
<1> QED  BY <1>1, <1>3, <1>4, <1>5, <1>6

\* Every call a node exposes has the arguments its schema asks for.
LEMMA ExposedShape ==
    ASSUME TypeOK, NEW call \in Exposed
    PROVE  call \in CallRecord /\ WellShaped(call)
<1> DEFINE category == effectiveToolCategory
<1>1. category \in Category  BY EffectiveCategoryType DEF TypeOK
<1> HIDE DEF category
<1>2. call \in CategoryCalls(category) \union ControlCalls  BY DEF Exposed, category
<1>3. CASE call \in ControlCalls
  <2>1. call \in CallRecord
    <3>1. \A tools \in SUBSET Tool, args \in SUBSET Answer : Call(tools, args) \subseteq CallRecord
      BY CallsTyped
    <3>2. category \in Answer  BY <1>1 DEF Answer
    <3>3. /\ Call({"submit_incident_understanding", "read_skill_reference", "advance_brain_phase"}, {None})
             \subseteq CallRecord
          /\ Call({"request_skills"}, Skill) \subseteq CallRecord
          /\ Call({"select_tool_category"}, {"EVIDENCE", "RETRIEVAL", "REASONING"}) \subseteq CallRecord
          /\ Call({"finish_investigation"},
                  {"HUMAN_ESCALATION", "DIAGNOSIS_CONFIDENT", "DIAGNOSIS_PROVISIONAL",
                   "EVIDENCE_SATURATED"}) \subseteq CallRecord
          /\ Call({"denied"}, {"CONTROL", category}) \subseteq CallRecord
      BY <3>1, <3>2 DEF Skill, None, Tool, Answer, Category
    <3> QED  BY <1>3, <3>3 DEF ControlCalls, category
  <2>2. call.hypothesis = 0 /\ call.tool \notin AboutOne /\ call.merged = {}
    BY <1>3 DEF ControlCalls, Call, AboutOne
  <2>3. /\ call.tool # "revise_hypothesis" /\ call.tool # "validate_hypothesis"
        /\ call.tool = "request_skills" => call.arg \in Skill
        /\ call.tool = "select_tool_category" => call.arg \in {"EVIDENCE", "RETRIEVAL", "REASONING"}
        /\ call.tool = "finish_investigation" =>
              call.arg \in {"HUMAN_ESCALATION", "DIAGNOSIS_CONFIDENT", "DIAGNOSIS_PROVISIONAL",
                            "EVIDENCE_SATURATED"}
        /\ call.tool = "denied" => call.arg \in {"CONTROL", category}
    BY <1>3 DEF ControlCalls, Call, category
  <2>4. {"CONTROL", category} \subseteq Category  BY <1>1 DEF Category
  <2> QED  BY <2>1, <2>2, <2>3, <2>4 DEF WellShaped
<1>4. CASE call \in CategoryCalls(category)
  <2> DEFINE reasoning ==
        Call({"submit_investigation_plan", "revise_investigation_plan", "validate_diagnosis"}, {None})
        \union Call({"submit_hypotheses"}, {"one", "two", "rejected"})
        \union Revising({"one", "rejected"})
        \union About({"validate_hypothesis"}, Level \union Contested)
        \union About({"compare_hypotheses", "commit_belief_delta", "submit_diagnosis"}, {None})
  <2>1. \/ call \in Call(EvidenceTools, {"new", "known", "resources", "empty", "error"})
        \/ call \in Call({"retrieve"}, {"found", "empty", "error"})
        \/ call \in reasoning
        \/ call \in Call({"submit_recovery_plan"}, {None})
    BY <1>1, <1>4 DEF CategoryCalls, Category
  <2>2. call \in CallRecord
    <3>1. \A tools \in SUBSET Tool, args \in SUBSET Answer :
            /\ Call(tools, args) \subseteq CallRecord /\ About(tools, args) \subseteq CallRecord
            /\ Revising(args) \subseteq CallRecord
      BY CallsTyped
    <3> QED  BY <2>1, <3>1 DEF EvidenceTools, Level, Contested, Tool, Answer
  <2>3. CASE call \in reasoning
    <3>1. \/ call.hypothesis = 0 /\ call.tool \in {"submit_investigation_plan", "revise_investigation_plan",
                                                   "validate_diagnosis", "submit_hypotheses"}
          \/ call.hypothesis \in Revisions /\ call.tool = "revise_hypothesis"
          \/ call.hypothesis \in Revisions /\ call.tool = "validate_hypothesis" /\ call.arg \in Level \union Contested
          \/ call.hypothesis \in Revisions
             /\ call.tool \in {"compare_hypotheses", "commit_belief_delta", "submit_diagnosis"}
      BY <2>3 DEF Call, About, Revising, Revisions
    <3>2. call.merged \subseteq Revisions  BY <2>3 DEF Call, About, Revising, Revisions
    <3> QED  BY <2>2, <3>1, <3>2 DEF WellShaped, AboutOne
  <2>4. CASE call \notin reasoning
    <3>1. call.hypothesis = 0 /\ call.merged = {} /\ call.tool \in EvidenceTools \union {"retrieve", "submit_recovery_plan"}
      BY <2>1, <2>4 DEF Call
    <3> QED  BY <2>2, <3>1 DEF WellShaped, AboutOne, EvidenceTools
  <2> QED  BY <2>3, <2>4
<1> QED  BY <1>2, <1>3, <1>4

\* runBrainValidateDiagnosis lifts the provisional mark only on the snapshot.
LEMMA ValidatedWellFormed ==
    ASSUME TypeOK, LedgerInv, diagnosis # NoDiagnosis
    PROVE  /\ ValidatedDiagnosis \in Diagnosis /\ ValidatedDiagnosis.checked
           /\ ValidatedDiagnosis.hypothesis = diagnosis.hypothesis
           /\ ValidatedDiagnosis.hypothesis # 0
           /\ ValidatedDiagnosis.snapshot = diagnosis.snapshot
           /\ ~ValidatedDiagnosis.provisional => diagnosis.snapshot = snapshot
<1> DEFINE provisional == ~(DiagnosisValid /\ hypotheses[diagnosis.hypothesis].level = "SUPPORTED")
<1>1. ValidatedDiagnosis = [diagnosis EXCEPT !.checked = TRUE, !.provisional = provisional]
  BY DEF ValidatedDiagnosis
<1>2. provisional \in BOOLEAN  OBVIOUS
<1>3. ~provisional => diagnosis.snapshot = snapshot  BY DEF DiagnosisValid
<1>4. diagnosis \in Diagnosis /\ diagnosis.hypothesis # 0  BY DEF TypeOK, LedgerInv
<1> HIDE DEF provisional
<1> QED  BY <1>1, <1>2, <1>3, <1>4 DEF Diagnosis

\* What a tool reads is well typed.
LEMMA SeenType ==
    ASSUME TypeOK, LedgerInv, NEW call \in CallRecord, WellShaped(call)
    PROVE  Seen(call) \in [snapshot : Nat, confidence : 0..1, version : Nat,
                           diagnosis : Diagnosis, valid : BOOLEAN]
<1>1. snapshot \in Nat  BY DEF TypeOK
<1>2. call.hypothesis # 0 => call.hypothesis \in Revisions  BY DEF WellShaped
<1>3. call.hypothesis # 0 => hypotheses[call.hypothesis].confidence \in 0..1
  <2>1. \A h \in Revisions : hypotheses[h] \in Hypothesis  BY DEF TypeOK, Revisions
  <2> QED  BY <1>2, <2>1 DEF Hypothesis
<1>4. call.tool = "revise_hypothesis" => NextVersion(hypotheses[call.hypothesis].lineage) \in Nat
  <2>1. call.tool = "revise_hypothesis" => call.hypothesis \in Revisions  BY DEF WellShaped, AboutOne
  <2> QED  BY <2>1, NextVersionBounded
<1>5. NoDiagnosis \in Diagnosis  BY DEF NoDiagnosis, Diagnosis
<1>6. diagnosis # NoDiagnosis => ValidatedDiagnosis \in Diagnosis  BY ValidatedWellFormed
<1>7. (call.tool = "validate_diagnosis" /\ DiagnosisValid) \in BOOLEAN  OBVIOUS
<1> HIDE DEF NoDiagnosis
<1> QED  BY <1>1, <1>3, <1>4, <1>5, <1>6, <1>7 DEF Seen

\* A tool answers with what the ledger says.
LEMMA ToolAnswers ==
    ASSUME TypeOK, LedgerInv, NEW call \in CallRecord, WellShaped(call), NEW again \in BOOLEAN
    PROVE  LET r == [call |-> call, class |-> Class(call), fresh |-> Fresh(call, again), seen |-> Seen(call)]
           IN r \in Result /\ ResultHolds(r)
<1> DEFINE r == [call |-> call, class |-> Class(call), fresh |-> Fresh(call, again), seen |-> Seen(call)]
<1>1. Class(call) \in {"CONSTRAINT", "ERROR", "EVIDENCE", "VALIDATION"}  BY DEF Class
<1>2. Fresh(call, again) \in BOOLEAN  BY DEF Fresh
<1>3. r \in Result  BY <1>1, <1>2, SeenType DEF Result
<1>4. Class(call) # "CONSTRAINT" => Accepted(call)  BY DEF Class
<1>5. r.seen = Seen(call) /\ r.call = call /\ r.class = Class(call)  OBVIOUS
<1>6. Seen(call).snapshot = snapshot  BY DEF Seen
<1>7. Does(r, "revise_hypothesis") => Seen(call).version <= MaxRevisions + 1
  <2>1. SUFFICES ASSUME call.tool = "revise_hypothesis", Accepted(call)
                 PROVE  Seen(call).version <= MaxRevisions + 1
    BY <1>4, <1>5 DEF Does, Effective
  <2>2. NextVersion(hypotheses[call.hypothesis].lineage) <= MaxRevisions + 1
    BY <2>1 DEF Accepted, Precondition
  <2> QED  BY <2>1, <2>2 DEF Seen
<1>8. /\ Seen(call).diagnosis.hypothesis \in Revisions \union {0}
      /\ Seen(call).diagnosis.hypothesis = 0 => Seen(call).diagnosis = NoDiagnosis
      /\ Seen(call).diagnosis.snapshot <= snapshot
      /\ ~Seen(call).diagnosis.provisional =>
            Seen(call).diagnosis.checked /\ Seen(call).diagnosis.snapshot = snapshot
  <2>1. CASE call.tool = "validate_diagnosis" /\ diagnosis # NoDiagnosis
    <3>1. Seen(call).diagnosis = ValidatedDiagnosis  BY <2>1 DEF Seen
    <3>2. diagnosis.hypothesis \in Revisions \union {0} /\ diagnosis.snapshot <= snapshot  BY DEF LedgerInv
    <3> QED  BY <2>1, <3>1, <3>2, ValidatedWellFormed
  <2>2. CASE ~(call.tool = "validate_diagnosis" /\ diagnosis # NoDiagnosis)
    <3>1. Seen(call).diagnosis = NoDiagnosis  BY <2>2 DEF Seen
    <3>2. snapshot \in Nat  BY DEF TypeOK
    <3>3. NoDiagnosis.hypothesis = 0 /\ NoDiagnosis.snapshot <= snapshot /\ NoDiagnosis.provisional
      BY <3>2 DEF NoDiagnosis
    <3> QED  BY <3>1, <3>3
  <2> QED  BY <2>1, <2>2
<1>9. Seen(call).valid => Seen(call).diagnosis # NoDiagnosis
  <2>1. SUFFICES ASSUME call.tool = "validate_diagnosis", DiagnosisValid
                 PROVE  Seen(call).diagnosis # NoDiagnosis
    BY DEF Seen
  <2>2. diagnosis # NoDiagnosis  BY <2>1 DEF DiagnosisValid
  <2>3. Seen(call).diagnosis = ValidatedDiagnosis  BY <2>1, <2>2 DEF Seen
  <2> QED  BY <2>2, <2>3, ValidatedWellFormed DEF NoDiagnosis
<1>10. Class(call) = "EVIDENCE" => call.tool \in EvidenceTools  BY DEF Class
<1>11. Does(r, "submit_recovery_plan") => diagnosis # NoDiagnosis
  <2>1. SUFFICES ASSUME call.tool = "submit_recovery_plan", Accepted(call)
                 PROVE  diagnosis # NoDiagnosis
    BY <1>4, <1>5 DEF Does, Effective
  <2> QED  BY <2>1 DEF Accepted, Precondition
<1> HIDE DEF r
<1>12. ResultHolds(r)
  BY <1>5, <1>6, <1>7, <1>8, <1>9, <1>10, <1>11 DEF ResultHolds
<1> QED  BY <1>3, <1>12 DEF r

-----------------------------------------------------------------------------
(* Types *)

\* The entries of Supervisor are well formed.
LEMMA TypeInit == Init => TypeOK
<1> SUFFICES ASSUME Init PROVE TypeOK  OBVIOUS
<1> USE ScenariosAssumption DEF Init
<1>0. scenario.entry \in {"fresh", "dry_run_failed", "recovery_failed"}  OBVIOUS
<1>1. scenario \in Scenarios /\ node \in Node /\ results = <<>> /\ deltas = <<>>
      /\ grounding = None /\ hops \in Nat /\ evidence \in Nat /\ snapshot \in Nat
  BY DEF Node
<1>2. control \in Control
  BY <1>0 DEF EntryControl, Control, Phase, Category, Trigger, Termination, None
<1>3. skills \in [requested : Skill \union {None}, granted : SUBSET Category]  OBVIOUS
<1>4. usage \in Usage  BY DEF Usage
<1>5. reply \in [calls : Seq(CallRecord), wellFormed : BOOLEAN]  BY DEF NoReply
<1>6. history \in History  BY DEF History, MaxQuiet, MaxRepeat
<1>7. hypotheses \in Seq(Hypothesis)
  <2>1. GroundedLedger \in Seq(Hypothesis)
    BY DEF GroundedLedger, Hypothesis, Status, Level
  <2>2. <<>> \in Seq(Hypothesis)  OBVIOUS
  <2> QED  BY <2>1, <2>2
<1>8. diagnosis \in Diagnosis  BY DEF Diagnosed, NoDiagnosis, Diagnosis
<1>9. plan \in Nat \union {NoPlan}  OBVIOUS
<1> QED  BY <1>1, <1>2, <1>3, <1>4, <1>5, <1>6, <1>7, <1>8, <1>9 DEF TypeOK

\* What the steps do to the usage, each as a fact about one record.
LEMMA UsageUpdates ==
    ASSUME NEW u \in Usage, NEW n \in Nat, NEW m \in Nat, NEW b \in BOOLEAN
    PROVE  /\ u.turns \in Nat /\ u.toolCalls \in Nat /\ u.corrections \in Nat /\ u.units \in Nat
           /\ u.active \in Nat /\ u.exhausted \in BOOLEAN
           /\ [u EXCEPT !.turns = @ + 1, !.exhausted = b] \in Usage
           /\ [u EXCEPT !.toolCalls = @ + n, !.active = m] \in Usage
           /\ [u EXCEPT !.toolCalls = @ + n] \in Usage
           /\ [u EXCEPT !.units = @ + n] \in Usage
           /\ [u EXCEPT !.corrections = @ + 1] \in Usage
           /\ [u EXCEPT !.exhausted = b] \in Usage
<1>1. /\ u.turns \in Nat /\ u.toolCalls \in Nat /\ u.corrections \in Nat /\ u.units \in Nat
      /\ u.active \in Nat /\ u.exhausted \in BOOLEAN
  BY DEF Usage
<1>2. /\ u.turns + 1 \in Nat /\ u.toolCalls + n \in Nat /\ u.units + n \in Nat
      /\ u.corrections + 1 \in Nat
  BY <1>1
<1>3. [u EXCEPT !.turns = @ + 1, !.exhausted = b] \in Usage  BY <1>1, <1>2 DEF Usage
<1>4. [u EXCEPT !.toolCalls = @ + n, !.active = m] \in Usage  BY <1>1, <1>2 DEF Usage
<1>5. [u EXCEPT !.toolCalls = @ + n] \in Usage  BY <1>1, <1>2 DEF Usage
<1>6. [u EXCEPT !.units = @ + n] \in Usage  BY <1>1, <1>2 DEF Usage
<1>7. [u EXCEPT !.corrections = @ + 1] \in Usage  BY <1>1, <1>2 DEF Usage
<1>8. [u EXCEPT !.exhausted = b] \in Usage  BY <1>1 DEF Usage
<1> QED  BY <1>1, <1>3, <1>4, <1>5, <1>6, <1>7, <1>8

\* The first termination wins.
LEMMA TerminateType ==
    ASSUME control \in Control, NEW reason \in Termination
    PROVE  /\ Terminate(reason) \in Control
           /\ Terminate(reason).phase = control.phase /\ Terminate(reason).resume = control.resume
           /\ Terminate(reason).owed = control.owed /\ Terminate(reason).pending = control.pending
           /\ Terminate(reason).termination \in Termination
           /\ Terminate(reason).termination = control.termination
              \/ (control.termination = None /\ Terminate(reason).termination = reason)
BY DEF Terminate, Control

\* Dropping a trigger leaves the rest of the control state.
LEMMA DroppedType ==
    ASSUME NEW c \in Control
    PROVE  /\ Dropped(c) \in Control /\ Dropped(c).pending = None
           /\ Dropped(c).phase = c.phase /\ Dropped(c).resume = c.resume
           /\ Dropped(c).owed = c.owed /\ Dropped(c).termination = c.termination
BY DEF Dropped, Control

\* Spent tool calls close the investigation: DIAGNOSIS or ESCALATION.
LEMMA FinalizationType ==
    ASSUME NEW c \in Control
    PROVE  /\ Finalization(c) \in Control /\ Finalization(c).pending = None
           /\ Finalization(c).phase \in {"DIAGNOSIS", "ESCALATION"}
           /\ Finalization(c).resume = c.resume
           /\ Finalization(c).owed = c.owed /\ Finalization(c).termination = c.termination
BY DEF Finalization, Control, Phase, Category

\* A reflection remembers the phase it interrupted.
LEMMA ReflectingType ==
    ASSUME NEW c \in Control, ControlStands(c)
    PROVE  /\ ControlStands(Reflecting(c)) /\ Reflecting(c).phase = "REFLECTION"
           /\ Reflecting(c).resume = (IF c.phase # "REFLECTION" THEN c.phase ELSE c.resume)
           /\ Reflecting(c).pending = c.pending
           /\ Reflecting(c).owed = c.owed /\ Reflecting(c).termination = c.termination
BY DEF Reflecting, ControlStands, Control, Phase, None

\* Narrowing the category leaves phase, resume, trigger and termination.
LEMMA NarrowedType ==
    ASSUME NEW c \in Control, NEW granted
    PROVE  /\ Narrowed(c, granted) \in Control
           /\ Narrowed(c, granted).phase = c.phase /\ Narrowed(c, granted).resume = c.resume
           /\ Narrowed(c, granted).pending = c.pending
           /\ Narrowed(c, granted).owed = c.owed /\ Narrowed(c, granted).termination = c.termination
<1>1. defaultCategoryForPhase(c.phase) \in Category
  BY DEF defaultCategoryForPhase, Control, Phase, Category
<1> QED  BY <1>1 DEF Narrowed, Control

\* A phase grants tool categories.
LEMMA CategoriesType ==
    ASSUME NEW phase \in Phase, NEW requested \in Skill \union {None}
    PROVE  AllowedCategories(phase, requested) \subseteq Category
BY DEF AllowedCategories, MandatoryCategories, SkillCategories, Category, Phase

\* What a turn is opened with.
Entered(reflection) ==
    IF ToolCallsExhausted THEN Finalization(control)
    ELSE IF reflection THEN Reflecting(control) ELSE control

\* What contextBuilder leaves, whichever context it builds.
LEMMA TurnOpened ==
    ASSUME TypeOK, ControlInv, NEW reflection \in BOOLEAN, BuildContext(reflection)
    PROVE  /\ ControlStands(control')
           /\ control'.owed = control.owed
           /\ control'.termination = control.termination \/ control'.termination = "SAFETY_BLOCKED"
           /\ control'.phase = Entered(reflection).phase /\ control'.resume = Entered(reflection).resume
           /\ skills' \in [requested : Skill \union {None}, granted : SUBSET Category]
           /\ skills'.granted = AllowedCategories(control'.phase, skills'.requested)
           /\ usage' = [usage EXCEPT !.turns = @ + 1, !.exhausted = @ \/ ToolCallsExhausted]
           /\ snapshot' = evidence /\ hops' = 0
           /\ node' = "model" \/ (node' = "snapshot_failure")
           /\ node' = "model" => control'.termination = control.termination
           /\ UNCHANGED <<scenario, reply, results, history, hypotheses, grounding, deltas,
                          diagnosis, plan, evidence>>
<1> DEFINE entered == Entered(reflection)
           requested == IF ToolCallsExhausted THEN None ELSE skills.requested
           granted == AllowedCategories(entered.phase, requested)
<1>0. control \in Control /\ ControlStands(control) /\ skills.requested \in Skill \union {None}
  BY DEF TypeOK, ControlInv, ControlStands
<1>1. ControlStands(entered) /\ entered.owed = control.owed /\ entered.termination = control.termination
  BY <1>0, FinalizationType, ReflectingType DEF Entered, ControlStands, ControlInv
<1>2. entered \in Control /\ entered.phase \in Phase  BY <1>1 DEF ControlStands, Control
<1>3. requested \in Skill \union {None}  BY <1>0
<1>4. granted \subseteq Category  BY <1>2, <1>3, CategoriesType
<1>5. /\ skills' = [requested |-> requested, granted |-> granted]
      /\ usage' = [usage EXCEPT !.turns = @ + 1, !.exhausted = @ \/ ToolCallsExhausted]
      /\ snapshot' = evidence /\ hops' = 0
      /\ \/ node' = "model" /\ control' = Narrowed(entered, granted)
         \/ /\ node' = "snapshot_failure"
            /\ control' = [Narrowed(entered, granted) EXCEPT !.termination = "SAFETY_BLOCKED"]
      /\ UNCHANGED <<scenario, reply, results, history, hypotheses, grounding, deltas,
                     diagnosis, plan, evidence>>
  BY DEF BuildContext, Entered
<1> HIDE DEF requested, granted, entered
<1>6. /\ Narrowed(entered, granted) \in Control
      /\ Narrowed(entered, granted).phase = entered.phase /\ Narrowed(entered, granted).resume = entered.resume
      /\ Narrowed(entered, granted).owed = entered.owed
      /\ Narrowed(entered, granted).termination = entered.termination
  BY <1>2, NarrowedType
<1>7. /\ control' \in Control
      /\ control'.phase = entered.phase /\ control'.resume = entered.resume /\ control'.owed = entered.owed
      /\ \/ node' = "model" /\ control'.termination = entered.termination
         \/ node' = "snapshot_failure" /\ control'.termination = "SAFETY_BLOCKED"
  BY <1>5, <1>6 DEF Control, Termination
<1>8. ControlStands(control')  BY <1>7, <1>1 DEF ControlStands
<1>9. skills' \in [requested : Skill \union {None}, granted : SUBSET Category]  BY <1>3, <1>4, <1>5
<1>10. skills'.granted = AllowedCategories(control'.phase, skills'.requested)
  BY <1>5, <1>7 DEF granted
<1>11. control'.phase = Entered(reflection).phase /\ control'.resume = Entered(reflection).resume
  BY <1>7 DEF entered
<1> QED  BY <1>1, <1>5, <1>7, <1>8, <1>9, <1>10, <1>11

\* What the reflection router may change.
LEMMA Routed ==
    ASSUME TypeOK, ControlInv, ReflectionRouter
    PROVE  /\ ControlStands(control') /\ control'.owed = control.owed
           /\ control'.phase = control.phase \/ control'.phase \in {"DIAGNOSIS", "ESCALATION"}
           /\ control'.resume = control.resume
           /\ control'.termination = control.termination
              \/ (control.termination = None /\ control'.termination \in {"BUDGET_EXHAUSTED", "SAFETY_BLOCKED"})
           /\ skills' \in [requested : Skill \union {None}, granted : SUBSET Category]
           /\ \/ usage' = usage
              \/ usage' = [usage EXCEPT !.exhausted = TRUE]
              \/ /\ Affordable
                 /\ usage' = [usage EXCEPT !.units = @ + ReflectionCost(control.pending)]
           /\ hops' = hops + 1
           /\ \/ node' = "termination_router" /\ (control'.pending = None \/ control'.termination # None)
              \/ node' = "reflection_context" /\ control' = control /\ control.termination = None
                 /\ ~TurnsExhausted /\ usage'.turns = usage.turns
           /\ UNCHANGED <<scenario, reply, results, history, ledger>>
<1>0. control \in Control /\ usage \in Usage
      /\ skills \in [requested : Skill \union {None}, granted : SUBSET Category]
  BY DEF TypeOK
<1>a. ControlStands(control)  BY <1>0 DEF ControlStands, ControlInv
<1>1. UNCHANGED <<scenario, reply, results, history, ledger>>  BY DEF ReflectionRouter
<1>2. CASE RouteTerminated
  BY <1>0, <1>a, <1>1, <1>2 DEF RouteTerminated, Goto
<1>3. CASE RouteTurnsExhausted
  <2> DEFINE t == Terminate("BUDGET_EXHAUSTED")
  <2>1. /\ t \in Control /\ t.phase = control.phase /\ t.resume = control.resume
        /\ t.owed = control.owed /\ t.termination \in Termination
        /\ t.termination = control.termination \/ (control.termination = None /\ t.termination = "BUDGET_EXHAUSTED")
    <3>1. "BUDGET_EXHAUSTED" \in Termination  BY DEF Termination
    <3> QED  BY <1>0, <3>1, TerminateType
  <2> HIDE DEF t
  <2>2. control' = Dropped(t) /\ UNCHANGED <<skills, usage>> /\ node' = "termination_router" /\ hops' = hops + 1
    BY <1>3 DEF RouteTurnsExhausted, Goto, t
  <2>3. /\ Dropped(t) \in Control /\ Dropped(t).pending = None
        /\ Dropped(t).phase = t.phase /\ Dropped(t).resume = t.resume
        /\ Dropped(t).owed = t.owed /\ Dropped(t).termination = t.termination
    BY <2>1, DroppedType
  <2> QED  BY <1>0, <1>a, <1>1, <2>1, <2>2, <2>3 DEF ControlStands
<1>4. CASE RouteToolCallsExhausted
  <2>1. /\ control' = Finalization(control) /\ skills' = [skills EXCEPT !.requested = None]
        /\ usage' = [usage EXCEPT !.exhausted = TRUE] /\ node' = "termination_router" /\ hops' = hops + 1
    BY <1>4 DEF RouteToolCallsExhausted, Goto
  <2>2. skills' \in [requested : Skill \union {None}, granted : SUBSET Category]  BY <1>0, <2>1
  <2> QED  BY <1>0, <1>a, <1>1, <2>1, <2>2, FinalizationType DEF ControlStands
<1>5. CASE RouteReflects
  <2>1. /\ control' = control /\ skills' = skills /\ Affordable
        /\ usage' = [usage EXCEPT !.units = @ + ReflectionCost(control.pending)]
        /\ node' = "reflection_context" /\ hops' = hops + 1
        /\ control.termination = None /\ ~TurnsExhausted
    BY <1>5 DEF RouteReflects, Goto, WithinBudget
  <2>2. usage'.turns = usage.turns  BY <1>0, <2>1 DEF Usage
  <2> QED  BY <1>0, <1>a, <1>1, <2>1, <2>2
<1>6. CASE RouteDrops
  <2> DEFINE t == IF scenario.reflects /\ control.pending \in {"RECOVERY_FAILURE", "VERIFICATION_FAILURE"}
                  THEN Terminate("SAFETY_BLOCKED") ELSE control
  <2>1. /\ t \in Control /\ t.phase = control.phase /\ t.resume = control.resume
        /\ t.owed = control.owed
        /\ t.termination = control.termination \/ (control.termination = None /\ t.termination = "SAFETY_BLOCKED")
    <3>1. "SAFETY_BLOCKED" \in Termination  BY DEF Termination
    <3> QED  BY <1>0, <3>1, TerminateType
  <2>2. control' = Dropped(t) /\ UNCHANGED <<skills, usage>> /\ node' = "termination_router" /\ hops' = hops + 1
    BY <1>6 DEF RouteDrops, Goto
  <2> HIDE DEF t
  <2>3. /\ Dropped(t) \in Control /\ Dropped(t).pending = None
        /\ Dropped(t).phase = t.phase /\ Dropped(t).resume = t.resume
        /\ Dropped(t).owed = t.owed /\ Dropped(t).termination = t.termination
    BY <2>1, DroppedType
  <2> QED  BY <1>0, <1>a, <1>1, <2>1, <2>2, <2>3 DEF ControlStands
<1> QED  BY <1>2, <1>3, <1>4, <1>5, <1>6 DEF ReflectionRouter

\* Applying a result keeps the types.
LEMMA ClassifyType ==
    ASSUME TypeOK, CallsInv, ControlInv, LedgerInv, ClassifyResult
    PROVE  TypeOK'
<1> DEFINE r == Head(results)
<1>0. r \in Result /\ ResultHolds(r) /\ Tail(results) \in Seq(Result)
  <2>1. results \in Seq(Result) /\ results # <<>>  BY DEF TypeOK, ClassifyResult
  <2>2. 1 \in DOMAIN results /\ r = results[1]  BY <2>1
  <2> QED  BY <2>1, <2>2 DEF CallsInv
<1> HIDE DEF r
<1>1. Classify(r) /\ results' = Tail(results) /\ UNCHANGED <<scenario, node, reply, snapshot, hops>>
  BY DEF ClassifyResult, r
<1>2. hypotheses' \in Seq(Hypothesis) /\ hypotheses' = HypothesesAfter(r)
  BY <1>0, <1>1, HypothesesGrow DEF Classify, HypothesesStand
<1>3. usage' \in Usage
  <2>1. usage \in Usage /\ Charged \in Nat  BY DEF TypeOK, Charged
  <2>2. ActiveCount(HypothesesAfter(r)) \in Nat  BY <1>2, ActiveCountType
  <2>3. usage' = [usage EXCEPT !.toolCalls = @ + Charged,
                               !.active = IF CreatesHypotheses(r)
                                          THEN ActiveCount(HypothesesAfter(r)) ELSE @]
    BY <1>1 DEF Classify
  <2> DEFINE active == IF CreatesHypotheses(r) THEN ActiveCount(HypothesesAfter(r)) ELSE usage.active
  <2>4. usage.active \in Nat  BY <2>1, UsageUpdates
  <2>5. active \in Nat  BY <2>2, <2>4
  <2>6. usage' = [usage EXCEPT !.toolCalls = @ + Charged, !.active = active]  BY <2>3
  <2> HIDE DEF active
  <2> QED  BY <2>1, <2>5, <2>6, UsageUpdates
<1>4. history' \in History
  <2>1. history \in History /\ r.call.tool \in Tool /\ r.fresh \in BOOLEAN
    BY <1>0 DEF TypeOK, Result, CallRecord
  <2> QED  BY <1>1, <2>1, RecordedType DEF Classify
<1>5. diagnosis' \in Diagnosis  BY <1>0, <1>1, DiagnosisMoves DEF Classify, DiagnosisStands
<1>6. grounding' \in {None, "REVISE", "CONFLICT"}
  BY <1>1 DEF Classify, GroundingAfter, TypeOK
<1>7. deltas' \in Seq(Delta)
  <2>1. CASE Does(r, "commit_belief_delta")
    <3>1. r.call.hypothesis \in Nat /\ r.seen.confidence \in 0..1  BY <1>0 DEF Result, CallRecord
    <3>2. [hypothesis |-> r.call.hypothesis, previous |-> r.seen.confidence,
           new |-> 1 - r.seen.confidence] \in Delta
      BY <3>1 DEF Delta
    <3> QED  BY <1>1, <2>1, <3>2 DEF Classify, DeltasAfter, TypeOK
  <2>2. CASE ~Does(r, "commit_belief_delta")  BY <1>1, <2>2 DEF Classify, DeltasAfter, TypeOK
  <2> QED  BY <2>1, <2>2
<1>8. control' \in Control
  <2>1. control \in Control  BY DEF TypeOK
  <2> QED  BY <1>0, <1>1, <2>1, ControlMoves DEF Classify, ControlStands
<1>9. skills' \in [requested : Skill \union {None}, granted : SUBSET Category]
  <2>1. RequestsSkills(r) => RequestedSkill(r) \in Skill
    BY <1>0 DEF RequestsSkills, RequestedSkill, Does, ResultHolds, WellShaped, Skill
  <2>2. skills' = IF RequestsSkills(r) /\ Effective(r)
                  THEN [skills EXCEPT !.requested = RequestedSkill(r)] ELSE skills
    BY <1>1 DEF Classify
  <2> QED  BY <2>1, <2>2 DEF TypeOK
<1>10. plan' \in Nat \union {NoPlan} /\ evidence' \in Nat
  <2>1. r.seen.snapshot \in Nat  BY <1>0 DEF Result
  <2> QED  BY <1>1, <2>1 DEF Classify, TypeOK
<1> QED  BY <1>0, <1>1, <1>2, <1>3, <1>4, <1>5, <1>6, <1>7, <1>8, <1>9, <1>10 DEF TypeOK

\* Every step keeps the types.
LEMMA TypeStep ==
    ASSUME TypeOK, CallsInv, ControlInv, LedgerInv, [Next]_vars
    PROVE  TypeOK'
<1> USE DEF TypeOK, Goto, ledger
<1>0. CASE UNCHANGED vars  BY <1>0 DEF vars
<1>1. CASE TerminationRouter
  <2>1. control' \in Control
    <3>1. "BUDGET_EXHAUSTED" \in Termination  BY DEF Termination
    <3> QED  BY <1>1, <3>1, TerminateType DEF TerminationRouter
  <2> QED  BY <1>1, <2>1 DEF TerminationRouter, Node, Ended
<1>2. ASSUME NEW reflection \in BOOLEAN, BuildContext(reflection)  PROVE TypeOK'
  <2>1. control' \in Control /\ usage' = [usage EXCEPT !.turns = @ + 1, !.exhausted = @ \/ ToolCallsExhausted]
        /\ snapshot' = evidence /\ hops' = 0 /\ node' \in {"model", "snapshot_failure"}
        /\ skills' \in [requested : Skill \union {None}, granted : SUBSET Category]
        /\ UNCHANGED <<scenario, reply, results, history, hypotheses, grounding, deltas,
                       diagnosis, plan, evidence>>
    BY <1>2, TurnOpened DEF ControlStands
  <2>2. usage' \in Usage
    <3>1. (usage.exhausted \/ ToolCallsExhausted) \in BOOLEAN  OBVIOUS
    <3> QED  BY <2>1, <3>1, UsageUpdates
  <2> QED  BY <2>1, <2>2 DEF Node, Ended
<1>3. CASE Model
  <2>1. reply' \in [calls : Seq(CallRecord), wellFormed : BOOLEAN]
    <3>1. \A n \in 1..scenario.batch : [1..n -> Exposed] \subseteq Seq(CallRecord)
      <4>1. Exposed \subseteq CallRecord  BY ExposedShape
      <4> QED  BY <4>1
    <3>2. CASE \E calls \in Batches : reply' = [calls |-> calls, wellFormed |-> TRUE]
      <4>1. PICK calls \in Batches : reply' = [calls |-> calls, wellFormed |-> TRUE]  BY <3>2
      <4>2. calls \in Seq(CallRecord)  BY <3>1 DEF Batches
      <4> QED  BY <4>1, <4>2
    <3>3. CASE reply' = NoReply  BY <3>3 DEF NoReply
    <3>4. CASE \E n \in 1..scenario.batch :
                 reply' = [calls |-> [i \in 1..n |-> Malformed], wellFormed |-> FALSE]
      <4>1. Malformed \in CallRecord
        <5>1. effectiveToolCategory \in Category  BY EffectiveCategoryType
        <5> QED  BY <5>1 DEF Malformed, CallRecord, Tool, Answer
      <4>2. PICK n \in 1..scenario.batch :
                 reply' = [calls |-> [i \in 1..n |-> Malformed], wellFormed |-> FALSE]
        BY <3>4
      <4> DEFINE calls == [i \in 1..n |-> Malformed]
      <4>3. n \in Nat  BY ScenariosAssumption
      <4>4. calls \in Seq(CallRecord)  BY <4>1, <4>3
      <4> HIDE DEF calls
      <4> QED  BY <4>2, <4>4 DEF calls
    <3> QED  BY <1>3, <3>2, <3>3, <3>4 DEF Model
  <2> QED  BY <1>3, <2>1 DEF Model, Node
<1>4. CASE ModelFails
  <2>1. control' \in Control
    <3>1. "FATAL_INFRASTRUCTURE" \in Termination  BY DEF Termination
    <3> QED  BY <1>4, <3>1, TerminateType DEF ModelFails
  <2> QED  BY <1>4, <2>1 DEF ModelFails, Node, Ended
<1>5. CASE Gateway
  <2>1. reply' \in [calls : Seq(CallRecord), wellFormed : BOOLEAN]
    <3>1. Truncated(reply.calls) \in Seq(CallRecord)
      BY TruncatedFits DEF TypeOK
    <3> QED  BY <1>5, <3>1 DEF Gateway
  <2>2. usage' \in Usage  BY <1>5 DEF Gateway, Usage
  <2> QED  BY <1>5, <2>1, <2>2 DEF Gateway, Node
<1>6. CASE CategoryRouter  BY <1>6 DEF CategoryRouter, Node
<1>7. CASE Tools
  <2>1. PICK again \in BOOLEAN :
           results' = [i \in DOMAIN reply.calls |->
                         [call |-> reply.calls[i], class |-> Class(reply.calls[i]),
                          fresh |-> Fresh(reply.calls[i], again), seen |-> Seen(reply.calls[i])]]
    BY <1>7 DEF Tools
  <2>2. \A i \in DOMAIN reply.calls : reply.calls[i] \in CallRecord /\ WellShaped(reply.calls[i])
    BY DEF CallsInv
  <2>3. \A i \in DOMAIN reply.calls :
           [call |-> reply.calls[i], class |-> Class(reply.calls[i]),
            fresh |-> Fresh(reply.calls[i], again), seen |-> Seen(reply.calls[i])] \in Result
    BY <2>2, ToolAnswers
  <2>4. DOMAIN reply.calls = 1..Len(reply.calls) /\ Len(reply.calls) \in Nat  OBVIOUS
  <2>5. results' \in Seq(Result)  BY <2>1, <2>3, <2>4
  <2> QED  BY <1>7, <2>5 DEF Tools, Node, NoReply
<1>8. CASE ClassifyResult  BY <1>8, ClassifyType
<1>9. CASE Classified  BY <1>9 DEF Classified, Node
<1>10. CASE ObservationUpdate
  <2>1. hypotheses' \in Seq(Hypothesis)
    <3>1. \A h \in DOMAIN hypotheses : InvalidateStaleHypotheses[h] \in Hypothesis
      <4> TAKE h \in DOMAIN hypotheses
      <4>1. hypotheses[h] \in Hypothesis  OBVIOUS
      <4>2. InvalidateStaleHypotheses[h] = hypotheses[h]
            \/ InvalidateStaleHypotheses[h] = [hypotheses[h] EXCEPT !.status = "INVESTIGATING"]
        BY DEF InvalidateStaleHypotheses
      <4> QED  BY <4>1, <4>2 DEF Hypothesis, Status
    <3>2. DOMAIN InvalidateStaleHypotheses = 1..Len(hypotheses)  BY DEF InvalidateStaleHypotheses
    <3>3. InvalidateStaleHypotheses = [h \in 1..Len(hypotheses) |-> InvalidateStaleHypotheses[h]]
      BY <3>2 DEF InvalidateStaleHypotheses
    <3>4. InvalidateStaleHypotheses \in Seq(Hypothesis)
      <4> DEFINE stale == InvalidateStaleHypotheses
      <4>1. Len(hypotheses) \in Nat /\ DOMAIN hypotheses = 1..Len(hypotheses)  OBVIOUS
      <4>2. \A h \in 1..Len(hypotheses) : stale[h] \in Hypothesis  BY <3>1, <4>1
      <4>3. stale = [h \in 1..Len(hypotheses) |-> stale[h]]  BY <3>3
      <4> HIDE DEF stale
      <4>4. stale \in Seq(Hypothesis)  BY <4>1, <4>2, <4>3
      <4> QED  BY <4>4 DEF stale
    <3> QED  BY <1>10, <3>4 DEF ObservationUpdate
  <2>2. diagnosis' \in Diagnosis  BY <1>10 DEF ObservationUpdate, Diagnosis
  <2> QED  BY <1>10, <2>1, <2>2 DEF ObservationUpdate, Node
<1>11. CASE BeliefUpdate
  <2>1. control' \in Control  BY <1>11 DEF BeliefUpdate, Control, Trigger
  <2> QED  BY <1>11, <2>1 DEF BeliefUpdate, Node
<1>12. CASE BeliefCommit
  <2> DEFINE d == Head(deltas)
  <2>1. d \in Delta /\ d.hypothesis \in DOMAIN hypotheses
    <3>1. deltas # <<>>  BY <1>12 DEF BeliefCommit
    <3>2. 1 \in DOMAIN deltas /\ d = deltas[1]  BY <3>1
    <3> QED  BY <3>2 DEF LedgerInv, Revisions
  <2>2. [hypotheses[d.hypothesis] EXCEPT !.confidence = d.new] \in Hypothesis
    <3>1. hypotheses[d.hypothesis] \in Hypothesis /\ d.new \in 0..1  BY <2>1 DEF Delta
    <3> QED  BY <3>1 DEF Hypothesis
  <2>3. hypotheses' = [hypotheses EXCEPT ![d.hypothesis] = [hypotheses[d.hypothesis] EXCEPT !.confidence = d.new]]
    BY <1>12, <2>1 DEF BeliefCommit
  <2>4. hypotheses' \in Seq(Hypothesis)
    <3> HIDE DEF d
    <3> QED  BY <2>1, <2>2, <2>3, ExceptSeq
  <2>5. deltas' \in Seq(Delta)  BY <1>12 DEF BeliefCommit
  <2> QED  BY <1>12, <2>4, <2>5 DEF BeliefCommit
<1>13. CASE BeliefCommitFails
  <2>1. control' \in Control
    <3>1. "FATAL_INFRASTRUCTURE" \in Termination  BY DEF Termination
    <3> QED  BY <1>13, <3>1, TerminateType DEF BeliefCommitFails
  <2> QED  BY <1>13, <2>1 DEF BeliefCommitFails, Node, Ended
<1>14. CASE BeliefsCommitted  BY <1>14 DEF BeliefsCommitted, Node
<1>15. CASE ReflectionRouter
  <2>1. usage' \in Usage
    <3>1. ReflectionCost(control.pending) \in Nat  BY DEF ReflectionCost
    <3>2. \/ usage' = usage \/ usage' = [usage EXCEPT !.exhausted = TRUE]
          \/ usage' = [usage EXCEPT !.units = @ + ReflectionCost(control.pending)]
      BY <1>15, Routed
    <3>3. usage' = usage => usage' \in Usage  OBVIOUS
    <3>4. usage' = [usage EXCEPT !.exhausted = TRUE] => usage' \in Usage
      <4>1. 0 \in Nat /\ TRUE \in BOOLEAN  OBVIOUS
      <4> QED  BY <4>1, UsageUpdates, Zenon
    <3>5. usage' = [usage EXCEPT !.units = @ + ReflectionCost(control.pending)] => usage' \in Usage
      <4>1. TRUE \in BOOLEAN  OBVIOUS
      <4> QED  BY <3>1, <4>1, UsageUpdates
    <3> QED  BY <3>2, <3>3, <3>4, <3>5
  <2>2. control' \in Control /\ node' \in Node /\ hops' \in Nat
        /\ skills' \in [requested : Skill \union {None}, granted : SUBSET Category]
        /\ UNCHANGED <<scenario, reply, results, history, ledger>>
    BY <1>15, Routed DEF ControlStands, Node
  <2> QED  BY <2>1, <2>2
<1>16. CASE StructuredGuard
  <2>1. history' \in History
    <3>1. "structured_output_guard" \in Tool \union {"structured_output_guard"} /\ FALSE \in BOOLEAN  OBVIOUS
    <3> QED  BY <1>16, <3>1, RecordedType DEF StructuredGuard
  <2>2. control' \in Control  BY <1>16 DEF StructuredGuard, Control, Termination
  <2>3. usage' = usage \/ usage' = [usage EXCEPT !.corrections = @ + 1]  BY <1>16 DEF StructuredGuard
  <2>4. usage' \in Usage  BY <2>3, UsageUpdates
  <2>5. node' = "reflection_router" /\ hops' = hops + 1
        /\ UNCHANGED <<scenario, skills, reply, results, ledger>>
    BY <1>16 DEF StructuredGuard
  <2> QED  BY <2>1, <2>2, <2>4, <2>5 DEF Node
<1>17. CASE RejectArguments
  <2>1. Head(reply.calls) \in CallRecord /\ Tail(reply.calls) \in Seq(CallRecord)
    BY <1>17 DEF RejectArguments
  <2>2. history' \in History
    <3>1. Head(reply.calls).tool \in Tool \union {"structured_output_guard"} /\ FALSE \in BOOLEAN
      BY <2>1 DEF CallRecord
    <3> QED  BY <1>17, <3>1, RecordedType DEF RejectArguments
  <2>3. usage' \in Usage
    <3>1. usage' = [usage EXCEPT !.toolCalls = @ + Charged] /\ Charged \in Nat
      BY <1>17 DEF RejectArguments, Charged
    <3> QED  BY <3>1, UsageUpdates
  <2>4. reply' \in [calls : Seq(CallRecord), wellFormed : BOOLEAN]
    BY <1>17, <2>1 DEF RejectArguments
  <2> QED  BY <1>17, <2>2, <2>3, <2>4 DEF RejectArguments
<1>18. CASE ArgumentGuard
  <2>1. /\ Dropped(control) \in Control
    BY DroppedType
  <2>2. control' \in Control
    <3>1. control' = Dropped(control) \/ control' = [Dropped(control) EXCEPT !.termination = "BUDGET_EXHAUSTED"]
      BY <1>18 DEF ArgumentGuard
    <3> QED  BY <2>1, <3>1 DEF Control, Termination
  <2>3. usage' = usage \/ usage' = [usage EXCEPT !.corrections = @ + 1]  BY <1>18 DEF ArgumentGuard
  <2>4. usage' \in Usage  BY <2>3, UsageUpdates
  <2> QED  BY <1>18, <2>2, <2>4 DEF ArgumentGuard, Node, NoReply
<1> QED
  BY <1>0, <1>1, <1>2, <1>3, <1>4, <1>5, <1>6, <1>7, <1>8, <1>9, <1>10, <1>11, <1>12, <1>13,
     <1>14, <1>15, <1>16, <1>17, <1>18
  DEF Next, Work, Done, ContextBuilder, ReflectionContext

-----------------------------------------------------------------------------
(* Phases and terminations *)

\* No step leaves a reflection without its origin, loses what is owed without
\* claiming a termination, or takes a termination back.
LEMMA ControlStep ==
    ASSUME TypeOK, CallsInv, ControlInv, [Next]_vars
    PROVE  /\ ControlStands(control')
           /\ control.owed = "RECOVERY_FAILED" =>
                control'.owed = "RECOVERY_FAILED" \/ control'.termination # None
           /\ control.termination # None => control'.termination # None
<1>0. control \in Control /\ ControlStands(control)
  BY DEF TypeOK, ControlInv, ControlStands
<1>1. CASE UNCHANGED control  BY <1>0, <1>1
<1>2. CASE TerminationRouter
  <2>1. "BUDGET_EXHAUSTED" \in Termination /\ None \notin Termination  BY DEF Termination, None
  <2> QED  BY <1>0, <1>2, <2>1, TerminateType DEF TerminationRouter, ControlStands
<1>3. ASSUME NEW reflection \in BOOLEAN, BuildContext(reflection)
      PROVE  /\ ControlStands(control') /\ control'.owed = control.owed
             /\ control.termination # None => control'.termination # None
  BY <1>3, TurnOpened DEF None
<1>4. CASE ModelFails \/ BeliefCommitFails
  <2>1. "FATAL_INFRASTRUCTURE" \in Termination /\ None \notin Termination  BY DEF Termination, None
  <2>2. control' = Terminate("FATAL_INFRASTRUCTURE")  BY <1>4 DEF ModelFails, BeliefCommitFails
  <2> QED  BY <1>0, <2>1, <2>2, TerminateType DEF ControlStands
<1>5. CASE ClassifyResult
  <2> DEFINE r == Head(results)
  <2>1. r \in Result /\ ResultHolds(r)
    <3>1. results \in Seq(Result) /\ results # <<>>  BY <1>5 DEF TypeOK, ClassifyResult
    <3>2. 1 \in DOMAIN results /\ r = results[1]  BY <3>1
    <3> QED  BY <3>1, <3>2 DEF CallsInv
  <2>2. control' = ControlAfter(r)  BY <1>5 DEF ClassifyResult, Classify
  <2> HIDE DEF r
  <2> QED  BY <1>0, <2>1, <2>2, ControlMoves
<1>6. CASE BeliefUpdate
  <2>1. control' = control \/ control' = [control EXCEPT !.pending = "GROUNDING_FAILURE"]
        \/ control' = [control EXCEPT !.pending = "CANDIDATE_CONFLICT"]
    BY <1>6 DEF BeliefUpdate
  <2> QED  BY <1>0, <2>1 DEF ControlStands, Control, Trigger
<1>7. CASE ReflectionRouter  BY <1>7, Routed
<1>8. CASE StructuredGuard
  <2>1. control' = control \/ control' = [control EXCEPT !.termination = "BUDGET_EXHAUSTED"]
    BY <1>8 DEF StructuredGuard
  <2> QED  BY <1>0, <2>1 DEF ControlStands, Control, Termination, None
<1>9. CASE ArgumentGuard
  <2>1. /\ Dropped(control) \in Control
        /\ Dropped(control).phase = control.phase /\ Dropped(control).resume = control.resume
        /\ Dropped(control).owed = control.owed /\ Dropped(control).termination = control.termination
    BY <1>0, DroppedType
  <2>2. control' = Dropped(control) \/ control' = [Dropped(control) EXCEPT !.termination = "BUDGET_EXHAUSTED"]
    BY <1>9 DEF ArgumentGuard
  <2> QED  BY <1>0, <2>1, <2>2 DEF ControlStands, Control, Termination, None
<1>10. CASE Model \/ Gateway \/ CategoryRouter \/ Tools \/ Classified \/ ObservationUpdate
            \/ BeliefCommit \/ BeliefsCommitted \/ RejectArguments \/ Done \/ UNCHANGED vars
  BY <1>1, <1>10 DEF Model, Gateway, CategoryRouter, Tools, Classified, ObservationUpdate,
     BeliefCommit, BeliefsCommitted, RejectArguments, Done, vars
<1> QED
  BY <1>2, <1>3, <1>4, <1>5, <1>6, <1>7, <1>8, <1>9, <1>10
  DEF Next, Work, ContextBuilder, ReflectionContext

\* The nodes between the context and the tools change neither phase nor skills.
LEMMA GrantKept ==
    ASSUME TypeOK, ControlInv, [Next]_vars,
           node' \in {"model", "gateway", "category_router", "argument_guard", "tools"}
    PROVE  skills'.granted = AllowedCategories(control'.phase, skills'.requested)
<1>1. ASSUME NEW reflection \in BOOLEAN, BuildContext(reflection)
      PROVE  skills'.granted = AllowedCategories(control'.phase, skills'.requested)
  BY <1>1, TurnOpened
<1>2. CASE Model \/ Gateway \/ CategoryRouter \/ RejectArguments \/ Done \/ UNCHANGED vars
  <2>1. /\ control' = control /\ skills' = skills
        /\ node \in {"model", "gateway", "category_router", "argument_guard", "tools"}
    BY <1>2 DEF Model, Gateway, CategoryRouter, RejectArguments, Done, Ended, vars
  <2> QED  BY <2>1 DEF ControlInv
<1>3. CASE TerminationRouter \/ ModelFails \/ Tools \/ ClassifyResult \/ Classified \/ ObservationUpdate
           \/ BeliefUpdate \/ BeliefCommit \/ BeliefCommitFails \/ BeliefsCommitted
           \/ StructuredGuard \/ ArgumentGuard
  <2>1. node' \notin {"model", "gateway", "category_router", "argument_guard", "tools"}
    BY <1>3 DEF TerminationRouter, ModelFails, Tools, ClassifyResult, Classified, ObservationUpdate,
       BeliefUpdate, BeliefCommit, BeliefCommitFails, BeliefsCommitted, StructuredGuard, ArgumentGuard, Goto
  <2> QED  BY <2>1
<1>4. CASE ReflectionRouter
  <2>1. node' \in {"termination_router", "reflection_context"}  BY <1>4, Routed
  <2> QED  BY <2>1
<1> QED
  BY <1>1, <1>2, <1>3, <1>4 DEF Next, Work, ContextBuilder, ReflectionContext

\* Every step keeps ControlInv.
LEMMA ControlInvStep ==
    ASSUME TypeOK, CallsInv, ControlInv, [Next]_vars
    PROVE  ControlInv'
BY ControlStep, GrantKept DEF ControlInv, ControlStands

\* A termination is followed only by the rest of its turn.
LEMMA TerminationStep ==
    ASSUME TypeOK, ControlInv, TerminationInv, [Next]_vars
    PROVE  TerminationInv'
<1> DEFINE late == Ended \union {"classifier", "observation", "belief_update", "belief_commit",
                                 "reflection_router", "termination_router"}
<1>1. CASE TerminationRouter
  <2>1. control'.termination # None => node' = "end"  BY <1>1 DEF TerminationRouter, Goto
  <2> QED  BY <2>1 DEF TerminationInv, Ended
<1>2. ASSUME NEW reflection \in BOOLEAN, BuildContext(reflection),
             node \in {"context_builder", "reflection_context"}
      PROVE  TerminationInv'
  <2>1. control.termination = None  BY <1>2 DEF TerminationInv, Ended
  <2> QED  BY <1>2, <2>1, TurnOpened DEF TerminationInv, Ended
<1>3. CASE Model \/ Gateway \/ CategoryRouter \/ RejectArguments
  <2>1. control.termination = None /\ control' = control
    BY <1>3 DEF TerminationInv, Ended, Model, Gateway, CategoryRouter, RejectArguments
  <2> QED  BY <2>1 DEF TerminationInv
<1>4. CASE ModelFails \/ Tools \/ ClassifyResult \/ Classified \/ ObservationUpdate
           \/ BeliefUpdate \/ BeliefCommit \/ BeliefCommitFails \/ BeliefsCommitted
           \/ StructuredGuard \/ ArgumentGuard
  <2>1. node' \in late
    BY <1>4 DEF ModelFails, Tools, ClassifyResult, Classified, ObservationUpdate,
       BeliefUpdate, BeliefCommit, BeliefCommitFails, BeliefsCommitted, StructuredGuard, ArgumentGuard,
       Goto, Ended
  <2> QED  BY <2>1 DEF TerminationInv
<1>5. CASE ReflectionRouter
  <2>1. node' = "termination_router"
        \/ (node' = "reflection_context" /\ control' = control /\ control.termination = None)
    BY <1>5, Routed
  <2> QED  BY <2>1 DEF TerminationInv
<1>6. CASE Done \/ UNCHANGED vars
  BY <1>6 DEF TerminationInv, Done, vars
<1> QED
  BY <1>1, <1>2, <1>3, <1>4, <1>5, <1>6 DEF Next, Work, ContextBuilder, ReflectionContext

\* Every node is at most its depth away from the last model call.
LEMMA HopsStep ==
    ASSUME TypeOK, TerminationInv, ControlInv, HopsInv, [Next]_vars
    PROVE  HopsInv'
<1>0. hops \in Nat /\ node \in Node  BY DEF TypeOK
<1>d. /\ NodeDepth["model"] = 0 /\ NodeDepth["snapshot_failure"] = 0
      /\ NodeDepth["gateway"] = 1 /\ NodeDepth["model_failure"] = 1
      /\ NodeDepth["category_router"] = 2
      /\ NodeDepth["tools"] = 3 /\ NodeDepth["structured_guard"] = 3 /\ NodeDepth["argument_guard"] = 3
      /\ NodeDepth["classifier"] = 4 /\ NodeDepth["observation"] = 5
      /\ NodeDepth["belief_update"] = 6 /\ NodeDepth["belief_commit"] = 7
      /\ NodeDepth["reflection_router"] = 8 /\ NodeDepth["commit_failure"] = 8
      /\ NodeDepth["termination_router"] = 9 /\ NodeDepth["reflection_context"] = 9
      /\ NodeDepth["context_builder"] = 10 /\ NodeDepth["end"] = 10
  BY DEF NodeDepth, Node, Ended
<1>1. CASE TerminationRouter
  <2>1. /\ hops' = hops + 1 /\ hops <= 9
        /\ node' \in {"end", "reflection_router", "context_builder"}
    BY <1>1, <1>d DEF TerminationRouter, Goto, HopsInv
  <2>2. node' = "reflection_router" => hops = 0
    <3>1. SUFFICES ASSUME node' = "reflection_router"  PROVE hops = 0  OBVIOUS
    <3>2. control'.termination = None /\ control.pending # None
      BY <1>1, <3>1 DEF TerminationRouter, Goto
    <3>3. control.termination = None
      BY <1>1, <3>2 DEF TerminationRouter, Terminate
    <3> QED  BY <1>0, <1>1, <3>2, <3>3 DEF HopsInv, TerminationRouter
  <2> QED  BY <1>0, <1>d, <2>1, <2>2 DEF HopsInv
<1>2. ASSUME NEW reflection \in BOOLEAN, BuildContext(reflection)  PROVE HopsInv'
  <2>1. hops' = 0 /\ node' \in {"model", "snapshot_failure"}  BY <1>2, TurnOpened
  <2> QED  BY <1>d, <2>1 DEF HopsInv
<1>3. CASE Model \/ ModelFails
  BY <1>0, <1>d, <1>3 DEF Model, ModelFails, Goto, HopsInv
<1>4. CASE Gateway  BY <1>0, <1>d, <1>4 DEF Gateway, Goto, HopsInv
<1>5. CASE CategoryRouter  BY <1>0, <1>d, <1>5 DEF CategoryRouter, Goto, HopsInv
<1>6. CASE Tools  BY <1>0, <1>d, <1>6 DEF Tools, Goto, HopsInv
<1>7. CASE Classified  BY <1>0, <1>d, <1>7 DEF Classified, Goto, HopsInv
<1>8. CASE ObservationUpdate  BY <1>0, <1>d, <1>8 DEF ObservationUpdate, Goto, HopsInv
<1>9. CASE BeliefUpdate  BY <1>0, <1>d, <1>9 DEF BeliefUpdate, Goto, HopsInv
<1>10. CASE BeliefCommitFails  BY <1>0, <1>d, <1>10 DEF BeliefCommitFails, Goto, HopsInv
<1>11. CASE BeliefsCommitted  BY <1>0, <1>d, <1>11 DEF BeliefsCommitted, Goto, HopsInv
<1>12. CASE ReflectionRouter
  <2>1. /\ node = "reflection_router" /\ hops' = hops + 1
        /\ \/ node' = "termination_router" /\ (control'.pending = None \/ control'.termination # None)
           \/ node' = "reflection_context"
    BY <1>12, Routed DEF ReflectionRouter
  <2> QED  BY <1>0, <1>d, <2>1 DEF HopsInv
<1>13. CASE StructuredGuard  BY <1>0, <1>d, <1>13 DEF StructuredGuard, Goto, HopsInv
<1>14. CASE ArgumentGuard  BY <1>0, <1>d, <1>14 DEF ArgumentGuard, Goto, HopsInv
<1>15. CASE ClassifyResult \/ BeliefCommit \/ RejectArguments \/ Done \/ UNCHANGED vars
  <2>1. hops' = hops /\ node' = node
    BY <1>15 DEF ClassifyResult, BeliefCommit, RejectArguments, Done, vars
  <2>2. node = "termination_router" => control' = control
    BY <1>15 DEF ClassifyResult, BeliefCommit, RejectArguments, Done, vars
  <2> QED  BY <2>1, <2>2 DEF HopsInv
<1> QED
  BY <1>1, <1>2, <1>3, <1>4, <1>5, <1>6, <1>7, <1>8, <1>9, <1>10, <1>11, <1>12, <1>13, <1>14, <1>15
  DEF Next, Work, ContextBuilder, ReflectionContext

-----------------------------------------------------------------------------
(* Calls and results *)

\* The result that is applied next, and those behind it.
LEMMA FirstResult ==
    ASSUME TypeOK, CallsInv, ClassifyResult
    PROVE  /\ Head(results) \in Result /\ ResultHolds(Head(results))
           /\ Head(results) = results[1] /\ 1 \in DOMAIN results
           /\ results' = Tail(results) /\ Tail(results) \in Seq(Result)
           /\ Len(Tail(results)) = Len(results) - 1 /\ Len(results) \in Nat \ {0}
           /\ \A i \in DOMAIN Tail(results) : i + 1 \in DOMAIN results /\ Tail(results)[i] = results[i + 1]
<1>1. results \in Seq(Result) /\ results # <<>>  BY DEF TypeOK, ClassifyResult
<1>2. 1 \in DOMAIN results /\ Head(results) = results[1]  BY <1>1
<1>3. /\ Tail(results) \in Seq(Result)
      /\ Len(Tail(results)) = Len(results) - 1 /\ Len(results) \in Nat \ {0}
      /\ \A i \in DOMAIN Tail(results) : i + 1 \in DOMAIN results /\ Tail(results)[i] = results[i + 1]
  BY <1>1
<1> QED  BY <1>1, <1>2, <1>3 DEF CallsInv, ClassifyResult

\* Hypotheses are never removed, and a diagnosis is never taken back.
LEMMA LedgerGrows ==
    ASSUME TypeOK, CallsInv, LedgerInv, [Next]_vars
    PROVE  /\ Revisions \subseteq Revisions'
           /\ diagnosis # NoDiagnosis => diagnosis' # NoDiagnosis
<1>1. CASE UNCHANGED <<hypotheses, diagnosis>>  BY <1>1 DEF Revisions
<1>2. CASE ClassifyResult
  <2> DEFINE r == Head(results)
  <2>1. r \in Result /\ ResultHolds(r)  BY <1>2, FirstResult
  <2>2. hypotheses' = HypothesesAfter(r) /\ diagnosis' = DiagnosisAfter(r)
    BY <1>2 DEF ClassifyResult, Classify
  <2> HIDE DEF r
  <2> QED  BY <2>1, <2>2, HypothesesGrow, DiagnosisMoves DEF HypothesesStand, Revisions
<1>3. CASE ObservationUpdate
  <2>1. DOMAIN hypotheses' = DOMAIN hypotheses
    BY <1>3 DEF ObservationUpdate, InvalidateStaleHypotheses
  <2>2. diagnosis' = diagnosis \/ diagnosis' = [diagnosis EXCEPT !.provisional = TRUE]
    BY <1>3 DEF ObservationUpdate
  <2>3. diagnosis # NoDiagnosis => diagnosis.hypothesis # 0  BY DEF LedgerInv
  <2>4. diagnosis \in Diagnosis  BY DEF TypeOK
  <2>5. diagnosis'.hypothesis = diagnosis.hypothesis  BY <2>2, <2>4 DEF Diagnosis
  <2>6. NoDiagnosis.hypothesis = 0  BY DEF NoDiagnosis
  <2> QED  BY <2>1, <2>3, <2>5, <2>6 DEF Revisions
<1>4. CASE BeliefCommit
  <2>1. DOMAIN hypotheses' = DOMAIN hypotheses /\ diagnosis' = diagnosis  BY <1>4 DEF BeliefCommit
  <2> QED  BY <2>1 DEF Revisions
<1>5. CASE TerminationRouter \/ Model \/ ModelFails \/ Gateway \/ CategoryRouter \/ Tools \/ Classified
           \/ BeliefUpdate \/ BeliefCommitFails \/ BeliefsCommitted \/ ReflectionRouter
           \/ StructuredGuard \/ RejectArguments \/ ArgumentGuard \/ Done \/ UNCHANGED vars
  BY <1>1, <1>5 DEF TerminationRouter, Model, ModelFails, Gateway, CategoryRouter, Tools, Classified,
     BeliefUpdate, BeliefCommitFails, BeliefsCommitted, ReflectionRouter, StructuredGuard,
     RejectArguments, ArgumentGuard, Done, vars, ledger
<1>6. CASE ContextBuilder \/ ReflectionContext
  BY <1>1, <1>6 DEF ContextBuilder, ReflectionContext, BuildContext
<1> QED
  BY <1>2, <1>3, <1>4, <1>5, <1>6 DEF Next, Work

ShapesInv == \A i \in DOMAIN reply.calls : WellShaped(reply.calls[i])

ResultsInv == \A i \in DOMAIN results : ResultHolds(results[i])

\* Every step leaves only calls their schema lets through.
LEMMA ShapesStep ==
    ASSUME TypeOK, CallsInv, LedgerInv, [Next]_vars
    PROVE  ShapesInv'
<1>0. ShapesInv /\ Revisions \subseteq Revisions'  BY LedgerGrows DEF CallsInv, ShapesInv
<1>1. CASE UNCHANGED reply
  BY <1>0, <1>1 DEF ShapesInv, WellShaped
<1>2. CASE reply'.calls = <<>>  BY <1>2 DEF ShapesInv
<1>3. CASE Model
  <2>0. Revisions' = Revisions  BY <1>3 DEF Model, ledger, Revisions
  <2>1. CASE \E calls \in Batches : reply' = [calls |-> calls, wellFormed |-> TRUE]
    <3>1. PICK calls \in Batches : reply' = [calls |-> calls, wellFormed |-> TRUE]  BY <2>1
    <3>2. \A i \in DOMAIN calls : calls[i] \in Exposed  BY DEF Batches
    <3>3. \A i \in DOMAIN calls : WellShaped(calls[i])  BY <3>2, ExposedShape
    <3> QED  BY <2>0, <3>1, <3>3 DEF ShapesInv, WellShaped
  <2>2. CASE reply' = NoReply  BY <1>2, <2>2 DEF NoReply
  <2>3. CASE \E n \in 1..scenario.batch :
               reply' = [calls |-> [i \in 1..n |-> Malformed], wellFormed |-> FALSE]
    <3>1. PICK n \in 1..scenario.batch :
               reply' = [calls |-> [i \in 1..n |-> Malformed], wellFormed |-> FALSE]
      BY <2>3
    <3>2. /\ Malformed.tool = "denied" /\ Malformed.hypothesis = 0 /\ Malformed.merged = {}
          /\ Malformed.arg \in Category
      BY EffectiveCategoryType DEF TypeOK, Malformed
    <3>3. \A i \in DOMAIN reply'.calls : reply'.calls[i] = Malformed  BY <3>1
    <3> QED  BY <3>2, <3>3 DEF ShapesInv, WellShaped, AboutOne
  <2> QED  BY <1>3, <2>1, <2>2, <2>3 DEF Model
<1>4. CASE Gateway
  <2>1. reply'.calls = Truncated(reply.calls) /\ reply.calls \in Seq(CallRecord)
    BY <1>4 DEF Gateway, TypeOK
  <2>2. \A i \in DOMAIN Truncated(reply.calls) :
           i \in DOMAIN reply.calls /\ Truncated(reply.calls)[i] = reply.calls[i]
    BY <2>1, TruncatedFits
  <2>3. \A i \in DOMAIN reply'.calls : i \in DOMAIN reply.calls /\ reply'.calls[i] = reply.calls[i]
    BY <2>1, <2>2
  <2> QED  BY <1>0, <2>3 DEF ShapesInv, WellShaped
<1>5. CASE RejectArguments
  <2>1. reply'.calls = Tail(reply.calls) /\ reply.calls \in Seq(CallRecord) /\ reply.calls # <<>>
    BY <1>5 DEF RejectArguments, TypeOK
  <2>2. \A i \in DOMAIN reply'.calls : i + 1 \in DOMAIN reply.calls /\ reply'.calls[i] = reply.calls[i + 1]
    BY <2>1
  <2> QED  BY <1>0, <2>2 DEF ShapesInv, WellShaped
<1>6. CASE Tools \/ ArgumentGuard
  BY <1>2, <1>6 DEF Tools, ArgumentGuard, NoReply
<1>7. CASE TerminationRouter \/ ModelFails \/ CategoryRouter \/ ClassifyResult \/ Classified
           \/ ObservationUpdate \/ BeliefUpdate \/ BeliefCommit \/ BeliefCommitFails \/ BeliefsCommitted
           \/ ReflectionRouter \/ StructuredGuard \/ Done \/ UNCHANGED vars
           \/ ContextBuilder \/ ReflectionContext
  BY <1>1, <1>7 DEF TerminationRouter, ModelFails, CategoryRouter, ClassifyResult, Classified,
     ObservationUpdate, BeliefUpdate, BeliefCommit, BeliefCommitFails, BeliefsCommitted,
     ReflectionRouter, StructuredGuard, Done, vars, ContextBuilder, ReflectionContext, BuildContext
<1> QED
  BY <1>3, <1>4, <1>5, <1>6, <1>7 DEF Next, Work

\* Every step leaves the waiting results consistent with what their tools read.
LEMMA ResultsStep ==
    ASSUME TypeOK, CallsInv, LedgerInv, [Next]_vars
    PROVE  ResultsInv'
<1>0. ResultsInv /\ Revisions \subseteq Revisions' /\ (diagnosis # NoDiagnosis => diagnosis' # NoDiagnosis)
  BY LedgerGrows DEF CallsInv, ResultsInv
<1>1. CASE UNCHANGED <<results, snapshot>>
  BY <1>0, <1>1 DEF ResultsInv, ResultHolds, WellShaped
<1>2. CASE results' = <<>>  BY <1>2 DEF ResultsInv
<1>3. CASE Tools
  <2>1. PICK again \in BOOLEAN :
           results' = [i \in DOMAIN reply.calls |->
                         [call |-> reply.calls[i], class |-> Class(reply.calls[i]),
                          fresh |-> Fresh(reply.calls[i], again), seen |-> Seen(reply.calls[i])]]
    BY <1>3 DEF Tools
  <2>2. \A i \in DOMAIN reply.calls : reply.calls[i] \in CallRecord /\ WellShaped(reply.calls[i])
    BY DEF CallsInv, TypeOK
  <2>3. \A i \in DOMAIN reply.calls :
           ResultHolds([call |-> reply.calls[i], class |-> Class(reply.calls[i]),
                        fresh |-> Fresh(reply.calls[i], again), seen |-> Seen(reply.calls[i])])
    BY <2>2, ToolAnswers
  <2>4. \A i \in DOMAIN results' : ResultHolds(results'[i])
    BY <2>1, <2>3
  <2>5. UNCHANGED <<hypotheses, snapshot, diagnosis>>  BY <1>3 DEF Tools, ledger
  <2> QED  BY <2>4, <2>5 DEF ResultsInv, ResultHolds, WellShaped, Revisions
<1>4. CASE ClassifyResult
  <2>1. \A i \in DOMAIN results' : i + 1 \in DOMAIN results /\ results'[i] = results[i + 1]
    BY <1>4, FirstResult
  <2>2. snapshot' = snapshot  BY <1>4 DEF ClassifyResult
  <2> QED  BY <1>0, <2>1, <2>2 DEF ResultsInv, ResultHolds, WellShaped
<1>5. CASE ObservationUpdate \/ ContextBuilder \/ ReflectionContext
  <2>1. results' = results /\ results = <<>>
    BY <1>5 DEF ObservationUpdate, ContextBuilder, ReflectionContext, BuildContext, CallsInv
  <2> QED  BY <1>2, <2>1
<1>6. CASE TerminationRouter \/ Model \/ ModelFails \/ Gateway \/ CategoryRouter \/ Classified
           \/ BeliefUpdate \/ BeliefCommit \/ BeliefCommitFails \/ BeliefsCommitted \/ ReflectionRouter
           \/ StructuredGuard \/ RejectArguments \/ ArgumentGuard \/ Done \/ UNCHANGED vars
  BY <1>1, <1>6 DEF TerminationRouter, Model, ModelFails, Gateway, CategoryRouter, Classified,
     BeliefUpdate, BeliefCommit, BeliefCommitFails, BeliefsCommitted, ReflectionRouter, StructuredGuard,
     RejectArguments, ArgumentGuard, Done, vars, ledger
<1> QED
  BY <1>3, <1>4, <1>5, <1>6 DEF Next, Work

\* Every step keeps CallsInv.
LEMMA CallsStep ==
    ASSUME TypeOK, CallsInv, ControlInv, LedgerInv, [Next]_vars
    PROVE  CallsInv'
<1> DEFINE Calling == {"gateway", "category_router", "argument_guard", "tools"}
<1>0. /\ node \notin Calling => reply.calls = <<>>
      /\ node # "classifier" => results = <<>>
  BY DEF CallsInv
<1>1. /\ node' \notin Calling => reply'.calls = <<>>
      /\ node' # "classifier" => results' = <<>>
  <2>1. CASE TerminationRouter
    BY <1>0, <2>1 DEF TerminationRouter, Goto
  <2>2. CASE ContextBuilder \/ ReflectionContext
    BY <1>0, <2>2 DEF ContextBuilder, ReflectionContext, BuildContext
  <2>3. CASE Model \/ ModelFails  BY <1>0, <2>3 DEF Model, ModelFails, Goto
  <2>4. CASE Gateway  BY <1>0, <2>4 DEF Gateway, Goto
  <2>5. CASE CategoryRouter  BY <1>0, <2>5 DEF CategoryRouter, Goto
  <2>6. CASE Tools  BY <1>0, <2>6 DEF Tools, Goto, NoReply
  <2>7. CASE ClassifyResult  BY <1>0, <2>7 DEF ClassifyResult
  <2>8. CASE Classified \/ ObservationUpdate \/ BeliefUpdate
    BY <1>0, <2>8 DEF Classified, ObservationUpdate, BeliefUpdate, Goto
  <2>9. CASE BeliefCommit \/ BeliefCommitFails \/ BeliefsCommitted
    BY <1>0, <2>9 DEF BeliefCommit, BeliefCommitFails, BeliefsCommitted, Goto
  <2>10. CASE ReflectionRouter
    <3>1. node = "reflection_router" /\ UNCHANGED <<reply, results>>  BY <2>10 DEF ReflectionRouter
    <3> QED  BY <1>0, <3>1
  <2>11. CASE StructuredGuard
    <3>1. node = "structured_guard" /\ UNCHANGED <<reply, results>>  BY <2>11 DEF StructuredGuard
    <3> QED  BY <1>0, <3>1
  <2>12. CASE RejectArguments  BY <1>0, <2>12 DEF RejectArguments
  <2>13. CASE ArgumentGuard  BY <1>0, <2>13 DEF ArgumentGuard, Goto, NoReply
  <2>14. CASE Done \/ UNCHANGED vars  BY <1>0, <2>14 DEF Done, vars
  <2> QED
    BY <2>1, <2>2, <2>3, <2>4, <2>5, <2>6, <2>7, <2>8, <2>9, <2>10, <2>11, <2>12, <2>13, <2>14
    DEF Next, Work
<1> QED  BY <1>1, ShapesStep, ResultsStep DEF CallsInv, ShapesInv, ResultsInv

-----------------------------------------------------------------------------
(* Budgets *)

\* The scenario of a behaviour never changes.
LEMMA ScenarioKept ==
    ASSUME [Next]_vars
    PROVE  scenario' = scenario
BY DEF Next, Work, TerminationRouter, ContextBuilder, ReflectionContext, BuildContext, Model, ModelFails,
   Gateway, CategoryRouter, Tools, ClassifyResult, Classify, Classified, ObservationUpdate, BeliefUpdate,
   BeliefCommit, BeliefCommitFails, BeliefsCommitted, ReflectionRouter, StructuredGuard,
   RejectArguments, ArgumentGuard, Done, vars

\* Every budget and its usage are numbers.
LEMMA BudgetTypes ==
    ASSUME TypeOK
    PROVE  /\ usage.turns \in Nat /\ usage.toolCalls \in Nat /\ usage.corrections \in Nat
           /\ usage.units \in Nat /\ usage.exhausted \in BOOLEAN
           /\ scenario.maxTurns \in Nat /\ scenario.maxToolCalls \in Nat
           /\ scenario.maxCorrections \in Nat /\ scenario.maxUnits \in Nat /\ scenario.batch \in Nat
           /\ Len(reply.calls) \in Nat /\ Len(results) \in Nat /\ Len(deltas) \in Nat
BY ScenariosAssumption DEF TypeOK, Usage

\* Every step keeps BudgetInv: what the gateway cut is all the tools can charge.
LEMMA BudgetStep ==
    ASSUME TypeOK, TypeOK', CallsInv, ControlInv, BudgetInv, [Next]_vars
    PROVE  BudgetInv'
<1>0. /\ usage.turns \in Nat /\ usage.toolCalls \in Nat /\ usage.corrections \in Nat
      /\ usage.units \in Nat /\ usage.exhausted \in BOOLEAN
      /\ scenario.maxTurns \in Nat /\ scenario.maxToolCalls \in Nat
      /\ scenario.maxCorrections \in Nat /\ scenario.maxUnits \in Nat
      /\ Len(reply.calls) \in Nat /\ Len(results) \in Nat /\ usage \in Usage
  BY BudgetTypes DEF TypeOK
<1>a. scenario' = scenario  BY ScenarioKept
<1>b. ASSUME UNCHANGED <<usage, reply, results>>, node # "gateway",
             node' \notin {"context_builder", "reflection_context"} \/ usage.turns < scenario.maxTurns
      PROVE  BudgetInv'
  BY <1>a, <1>b DEF BudgetInv
<1>1. CASE TerminationRouter
  <2>1. TurnsExhausted => node' = "end"
    <3>1. SUFFICES ASSUME TurnsExhausted PROVE node' = "end"  OBVIOUS
    <3>2. control' = Terminate("BUDGET_EXHAUSTED")  BY <1>1, <3>1 DEF TerminationRouter
    <3>3. control'.termination # None
      <4>1. "BUDGET_EXHAUSTED" \in Termination /\ control \in Control /\ None \notin Termination
        BY DEF Termination, TypeOK, None
      <4> QED  BY <3>2, <4>1, TerminateType
    <3> QED  BY <1>1, <3>3 DEF TerminationRouter, Goto
  <2>2. node' \notin {"context_builder", "reflection_context"} \/ usage.turns < scenario.maxTurns
    BY <1>0, <2>1 DEF TurnsExhausted
  <2>3. UNCHANGED <<usage, reply, results>> /\ node # "gateway"  BY <1>1 DEF TerminationRouter
  <2> QED  BY <1>b, <2>2, <2>3
<1>2. ASSUME NEW reflection \in BOOLEAN, BuildContext(reflection),
             node \in {"context_builder", "reflection_context"}
      PROVE  BudgetInv'
  <2>1. /\ usage' = [usage EXCEPT !.turns = @ + 1, !.exhausted = @ \/ ToolCallsExhausted]
        /\ node' \in {"model", "snapshot_failure"} /\ UNCHANGED <<reply, results>>
    BY <1>2, TurnOpened
  <2>2. /\ usage'.turns = usage.turns + 1 /\ usage'.toolCalls = usage.toolCalls
        /\ usage'.corrections = usage.corrections /\ usage'.units = usage.units
        /\ usage'.exhausted = (usage.exhausted \/ ToolCallsExhausted)
    BY <1>0, <2>1 DEF Usage
  <2>3. usage.turns < scenario.maxTurns  BY <1>2 DEF BudgetInv
  <2> QED  BY <1>0, <1>a, <1>2, <2>1, <2>2, <2>3 DEF BudgetInv
<1>3. CASE Model
  <2>1. node' = "gateway" /\ usage' = usage  BY <1>3 DEF Model, Goto
  <2> QED  BY <1>a, <2>1 DEF BudgetInv
<1>4. CASE Gateway
  <2>1. /\ usage' = [usage EXCEPT !.exhausted = @ \/ Remaining <= 0]
        /\ reply'.calls = Truncated(reply.calls) /\ results' = results /\ node' = "category_router"
        /\ node = "gateway"
    BY <1>4 DEF Gateway, Goto, TypeOK
  <2>2. /\ usage'.turns = usage.turns /\ usage'.toolCalls = usage.toolCalls
        /\ usage'.corrections = usage.corrections /\ usage'.units = usage.units
        /\ ~usage'.exhausted => Remaining > 0
    <3>1. Remaining \in Int  BY <1>0 DEF Remaining
    <3> DEFINE spent == usage.exhausted \/ Remaining <= 0
    <3>2. spent \in BOOLEAN /\ (~spent => Remaining > 0)  BY <1>0, <3>1
    <3>3. usage' = [usage EXCEPT !.exhausted = spent]  BY <2>1
    <3> HIDE DEF spent
    <3> QED  BY <1>0, <3>2, <3>3 DEF Usage
  <2>3. Len(Truncated(reply.calls)) \in Nat /\ (Remaining > 0 => Len(Truncated(reply.calls)) <= Remaining)
    <3>1. reply.calls \in Seq(CallRecord)  BY DEF TypeOK
    <3> QED  BY <3>1, TruncatedFits
  <2>4. Len(results') = 0  BY <2>1 DEF CallsInv
  <2>5. ~usage'.exhausted => usage'.toolCalls + Len(reply'.calls) + Len(results') <= scenario.maxToolCalls
    BY <1>0, <2>1, <2>2, <2>3, <2>4 DEF Remaining
  <2> QED  BY <1>a, <2>1, <2>2, <2>5 DEF BudgetInv
<1>5. CASE CategoryRouter
  <2>1. UNCHANGED <<usage, reply, results>> /\ node # "gateway"
        /\ node' \notin {"context_builder", "reflection_context"}
    BY <1>5 DEF CategoryRouter, Goto
  <2> QED  BY <1>b, <2>1
<1>6. CASE Tools
  <2>1. node' = "classifier" /\ usage' = usage /\ reply'.calls = <<>> /\ node = "tools"
    BY <1>6 DEF Tools, Goto, NoReply
  <2>2. Len(results') = Len(reply.calls) /\ results = <<>>
    <3>1. DOMAIN results' = DOMAIN reply.calls  BY <1>6 DEF Tools
    <3>2. results' \in Seq(Result) /\ reply.calls \in Seq(CallRecord)  BY DEF TypeOK
    <3> QED  BY <2>1, <3>1, <3>2 DEF CallsInv
  <2> QED  BY <1>0, <1>a, <2>1, <2>2 DEF BudgetInv
<1>7. CASE ClassifyResult
  <2> DEFINE r == Head(results)
             active == IF CreatesHypotheses(r) THEN ActiveCount(HypothesesAfter(r)) ELSE usage.active
  <2>1. /\ usage' = [usage EXCEPT !.toolCalls = @ + Charged, !.active = active]
        /\ reply' = reply /\ node' = node /\ node = "classifier"
    BY <1>7 DEF ClassifyResult, Classify
  <2>2. Len(results') = Len(results) - 1 /\ Len(results) \in Nat \ {0}  BY <1>7, FirstResult
  <2> HIDE DEF active
  <2>3. /\ usage'.turns = usage.turns /\ usage'.toolCalls = usage.toolCalls + Charged
        /\ usage'.corrections = usage.corrections /\ usage'.units = usage.units
        /\ usage'.exhausted = usage.exhausted
    BY <1>0, <2>1 DEF Usage
  <2>4. CASE usage.exhausted
    <3>1. Charged = 0  BY <2>4 DEF Charged
    <3> QED  BY <1>0, <1>a, <2>1, <2>3, <2>4, <3>1 DEF BudgetInv
  <2>5. CASE ~usage.exhausted
    <3>1. Charged = 1  BY <2>5 DEF Charged
    <3>2. usage.toolCalls + Len(reply.calls) + Len(results) <= scenario.maxToolCalls
      BY <2>1, <2>5 DEF BudgetInv
    <3>3. usage'.toolCalls + Len(reply'.calls) + Len(results') <= scenario.maxToolCalls
          /\ usage'.toolCalls <= scenario.maxToolCalls
      BY <1>0, <2>1, <2>2, <2>3, <3>1, <3>2
    <3> QED  BY <1>a, <2>1, <2>3, <3>3 DEF BudgetInv
  <2> QED  BY <2>4, <2>5
<1>8. CASE Classified \/ ObservationUpdate \/ BeliefUpdate \/ BeliefCommitFails \/ BeliefsCommitted
  <2>1. UNCHANGED <<usage, reply, results>> /\ node # "gateway"
        /\ node' \notin {"context_builder", "reflection_context"}
    BY <1>8 DEF Classified, ObservationUpdate, BeliefUpdate, BeliefCommitFails, BeliefsCommitted, Goto
  <2> QED  BY <1>b, <2>1
<1>9. CASE ModelFails
  <2>1. UNCHANGED <<usage, reply, results>> /\ node # "gateway"
        /\ node' \notin {"context_builder", "reflection_context"}
    BY <1>9 DEF ModelFails, Goto
  <2> QED  BY <1>b, <2>1
<1>10. CASE BeliefCommit
  <2>1. UNCHANGED <<usage, reply, results, node>> /\ node = "belief_commit"
    BY <1>10 DEF BeliefCommit
  <2> QED  BY <1>b, <2>1
<1>11. CASE ReflectionRouter
  <2>1. /\ \/ usage' = usage
           \/ usage' = [usage EXCEPT !.exhausted = TRUE]
           \/ /\ Affordable
              /\ usage' = [usage EXCEPT !.units = @ + ReflectionCost(control.pending)]
        /\ node' \in {"termination_router", "reflection_context"}
        /\ node' = "reflection_context" => ~TurnsExhausted /\ usage'.turns = usage.turns
        /\ UNCHANGED <<reply, results>> /\ node = "reflection_router"
    BY <1>11, Routed DEF ReflectionRouter
  <2>2. ReflectionCost(control.pending) \in Nat  BY DEF ReflectionCost
  <2>3. /\ usage'.turns = usage.turns /\ usage'.toolCalls = usage.toolCalls
        /\ usage'.corrections = usage.corrections /\ (usage.exhausted => usage'.exhausted)
    BY <1>0, <2>1, <2>2 DEF Usage
  <2>4. usage'.units <= scenario.maxUnits
    <3>1. CASE usage'.units = usage.units  BY <3>1 DEF BudgetInv
    <3>2. CASE Affordable /\ usage' = [usage EXCEPT !.units = @ + ReflectionCost(control.pending)]
      <4>1. usage'.units = usage.units + ReflectionCost(control.pending)  BY <1>0, <3>2 DEF Usage
      <4> QED  BY <3>2, <4>1 DEF Affordable
    <3> QED  BY <1>0, <2>1, <3>1, <3>2 DEF Usage
  <2>5. node' = "reflection_context" => usage.turns < scenario.maxTurns
    BY <1>0, <2>1 DEF TurnsExhausted
  <2> QED  BY <1>a, <2>1, <2>3, <2>4, <2>5 DEF BudgetInv
<1>12. CASE StructuredGuard
  <2>1. /\ \/ usage' = usage
           \/ usage.corrections < scenario.maxCorrections /\ usage' = [usage EXCEPT !.corrections = @ + 1]
        /\ UNCHANGED <<reply, results>> /\ node # "gateway" /\ node' = "reflection_router"
    BY <1>0, <1>12 DEF StructuredGuard, Goto
  <2>2. /\ usage'.turns = usage.turns /\ usage'.toolCalls = usage.toolCalls /\ usage'.units = usage.units
        /\ usage'.exhausted = usage.exhausted
        /\ usage'.corrections = usage.corrections
           \/ (usage.corrections < scenario.maxCorrections /\ usage'.corrections = usage.corrections + 1)
    BY <1>0, <2>1 DEF Usage
  <2>3. usage'.corrections <= scenario.maxCorrections  BY <1>0, <2>2 DEF BudgetInv
  <2> QED  BY <1>a, <2>1, <2>2, <2>3 DEF BudgetInv
<1>13. CASE RejectArguments
  <2>1. /\ usage' = [usage EXCEPT !.toolCalls = @ + Charged]
        /\ reply'.calls = Tail(reply.calls) /\ results' = results /\ node' = node /\ node = "argument_guard"
        /\ reply.calls # <<>> /\ reply.calls \in Seq(CallRecord)
    BY <1>13 DEF RejectArguments, TypeOK
  <2>2. Len(reply'.calls) = Len(reply.calls) - 1  BY <2>1
  <2>3. /\ usage'.turns = usage.turns /\ usage'.toolCalls = usage.toolCalls + Charged
        /\ usage'.corrections = usage.corrections /\ usage'.units = usage.units
        /\ usage'.exhausted = usage.exhausted
    BY <1>0, <2>1 DEF Usage
  <2>4. CASE usage.exhausted
    <3>1. Charged = 0  BY <2>4 DEF Charged
    <3> QED  BY <1>0, <1>a, <2>1, <2>3, <2>4, <3>1 DEF BudgetInv
  <2>5. CASE ~usage.exhausted
    <3>1. Charged = 1  BY <2>5 DEF Charged
    <3>2. usage.toolCalls + Len(reply.calls) + Len(results) <= scenario.maxToolCalls
      BY <2>1, <2>5 DEF BudgetInv
    <3>a. Len(reply.calls) \in Nat \ {0}  BY <2>1
    <3>3. usage'.toolCalls + Len(reply'.calls) + Len(results') <= scenario.maxToolCalls
          /\ usage'.toolCalls <= scenario.maxToolCalls
      BY <1>0, <2>1, <2>2, <2>3, <3>1, <3>2, <3>a
    <3> QED  BY <1>a, <2>1, <2>3, <3>3 DEF BudgetInv
  <2> QED  BY <2>4, <2>5
<1>14. CASE ArgumentGuard
  <2>1. /\ \/ usage' = usage
           \/ usage.corrections < scenario.maxCorrections /\ usage' = [usage EXCEPT !.corrections = @ + 1]
        /\ reply'.calls = <<>> /\ reply.calls = <<>> /\ results' = results /\ node = "argument_guard"
        /\ node' = "reflection_router"
    BY <1>0, <1>14 DEF ArgumentGuard, Goto, NoReply
  <2>2. /\ usage'.turns = usage.turns /\ usage'.toolCalls = usage.toolCalls /\ usage'.units = usage.units
        /\ usage'.exhausted = usage.exhausted
        /\ usage'.corrections = usage.corrections
           \/ (usage.corrections < scenario.maxCorrections /\ usage'.corrections = usage.corrections + 1)
    BY <1>0, <2>1 DEF Usage
  <2>3. usage'.corrections <= scenario.maxCorrections  BY <1>0, <2>2 DEF BudgetInv
  <2> QED  BY <1>a, <2>1, <2>2, <2>3 DEF BudgetInv
<1>15. CASE Done \/ UNCHANGED vars
  <2>1. UNCHANGED <<usage, reply, results, node, scenario>>  BY <1>15 DEF Done, vars
  <2> QED  BY <2>1 DEF BudgetInv
<1> QED
  BY <1>1, <1>2, <1>3, <1>4, <1>5, <1>6, <1>7, <1>8, <1>9, <1>10, <1>11, <1>12, <1>13, <1>14, <1>15
  DEF Next, Work, ContextBuilder, ReflectionContext

-----------------------------------------------------------------------------
(* The ledger *)

\* Applying a result keeps the ledger on one snapshot.
LEMMA LedgerClassified ==
    ASSUME TypeOK, CallsInv, LedgerInv, ClassifyResult
    PROVE  LedgerInv'
<1> DEFINE r == Head(results)
<1>0. r \in Result /\ ResultHolds(r)  BY FirstResult
<1>1. /\ hypotheses' = HypothesesAfter(r) /\ diagnosis' = DiagnosisAfter(r) /\ deltas' = DeltasAfter(r)
      /\ plan' = (IF Does(r, "submit_recovery_plan") THEN r.seen.snapshot ELSE plan)
      /\ evidence' = (IF r.class = "EVIDENCE" THEN evidence + 1 ELSE evidence)
      /\ snapshot' = snapshot /\ node' = node /\ node = "classifier"
  BY DEF ClassifyResult, Classify
<1> HIDE DEF r
<1>2. snapshot \in Nat /\ evidence \in Nat /\ deltas \in Seq(Delta)  BY DEF TypeOK
<1>3. snapshot' <= evidence' /\ ~BetweenTurns'  BY <1>1, <1>2 DEF LedgerInv, BetweenTurns
<1>4. HypothesesStand(hypotheses')  BY <1>0, <1>1, HypothesesGrow
<1>5. Revisions \subseteq Revisions'  BY <1>4 DEF HypothesesStand, Revisions
<1>6. /\ DiagnosisStands(diagnosis') /\ diagnosis'.hypothesis \in Revisions \union {0}
      /\ diagnosis # NoDiagnosis => diagnosis' # NoDiagnosis
  BY <1>0, <1>1, DiagnosisMoves
<1>7. plan' # NoPlan => diagnosis' # NoDiagnosis /\ plan' = snapshot'
  <2>1. CASE Does(r, "submit_recovery_plan")
    BY <1>0, <1>1, <1>6, <2>1 DEF ResultHolds
  <2>2. CASE ~Does(r, "submit_recovery_plan")
    BY <1>1, <1>6, <2>2 DEF LedgerInv
  <2> QED  BY <2>1, <2>2
<1>8. \A i \in DOMAIN deltas' : deltas'[i].hypothesis \in Revisions'
  <2>1. CASE Does(r, "commit_belief_delta")
    <3> DEFINE d == [hypothesis |-> r.call.hypothesis, previous |-> r.seen.confidence,
                     new |-> 1 - r.seen.confidence]
    <3>1. deltas' = Append(deltas, d)  BY <1>1, <2>1 DEF DeltasAfter
    <3>2. d.hypothesis \in Revisions
      BY <1>0, <2>1 DEF ResultHolds, WellShaped, Does, AboutOne
    <3> HIDE DEF d
    <3>3. \A i \in DOMAIN deltas' : deltas'[i] = d \/ (i \in DOMAIN deltas /\ deltas'[i] = deltas[i])
      BY <1>2, <3>1
    <3> QED  BY <1>5, <3>2, <3>3 DEF LedgerInv
  <2>2. CASE ~Does(r, "commit_belief_delta")
    <3>1. deltas' = deltas  BY <1>1, <2>2 DEF DeltasAfter
    <3> QED  BY <1>5, <3>1 DEF LedgerInv
  <2> QED  BY <2>1, <2>2
<1>9. \A h \in Revisions' :
         /\ hypotheses'[h].version <= MaxRevisions + 1
         /\ hypotheses'[h].status = "SUPPORTED" => hypotheses'[h].snapshot = snapshot'
  BY <1>1, <1>4 DEF HypothesesStand, Revisions
<1>10. /\ diagnosis'.hypothesis \in Revisions' \union {0}
       /\ diagnosis'.hypothesis = 0 => diagnosis' = NoDiagnosis
       /\ diagnosis'.snapshot <= snapshot'
       /\ ~diagnosis'.provisional => diagnosis'.checked /\ diagnosis'.snapshot = snapshot'
  BY <1>1, <1>5, <1>6 DEF DiagnosisStands
<1> QED  BY <1>3, <1>7, <1>8, <1>9, <1>10 DEF LedgerInv

\* observationUpdate adopts the new evidence and takes support, diagnosis and plan
\* of the old one back.
LEMMA LedgerObserved ==
    ASSUME TypeOK, LedgerInv, ObservationUpdate
    PROVE  LedgerInv'
<1>0. /\ snapshot \in Nat /\ evidence \in Nat /\ diagnosis \in Diagnosis
      /\ \A h \in Revisions : hypotheses[h] \in Hypothesis
  BY DEF TypeOK, Revisions
<1>1. snapshot' = evidence /\ evidence' = evidence /\ deltas' = deltas /\ node' = "belief_update"
  BY DEF ObservationUpdate, Goto
<1>2. CASE snapshot = evidence
  <2>1. UNCHANGED <<hypotheses, diagnosis, plan, snapshot>>  BY <1>1, <1>2 DEF ObservationUpdate
  <2> QED  BY <1>1, <1>2, <2>1 DEF LedgerInv, Revisions
<1>3. CASE snapshot # evidence
  <2>1. /\ hypotheses' = InvalidateStaleHypotheses
        /\ diagnosis' = (IF Stale THEN [diagnosis EXCEPT !.provisional = TRUE] ELSE diagnosis)
        /\ plan' = (IF Stale THEN NoPlan ELSE plan)
    BY <1>3 DEF ObservationUpdate
  <2>2. snapshot < evidence  BY <1>0, <1>3 DEF LedgerInv
  <2>3. diagnosis # NoDiagnosis => Stale
    <3>1. diagnosis.snapshot \in Nat  BY <1>0 DEF Diagnosis
    <3>2. diagnosis.snapshot <= snapshot  BY DEF LedgerInv
    <3>3. diagnosis.snapshot # evidence  BY <1>0, <2>2, <3>1, <3>2
    <3> QED  BY <3>3 DEF Stale
  <2>4. plan' = NoPlan  BY <2>1, <2>3 DEF LedgerInv
  <2>5. /\ diagnosis'.hypothesis = diagnosis.hypothesis /\ diagnosis'.snapshot = diagnosis.snapshot
        /\ diagnosis.hypothesis = 0 => diagnosis' = NoDiagnosis
        /\ diagnosis'.provisional
    <3>1. CASE Stale
      <4>1. diagnosis # NoDiagnosis /\ diagnosis' = [diagnosis EXCEPT !.provisional = TRUE]
        BY <2>1, <3>1 DEF Stale
      <4>2. diagnosis.hypothesis # 0  BY <4>1 DEF LedgerInv
      <4> QED  BY <1>0, <4>1, <4>2 DEF Diagnosis
    <3>2. CASE ~Stale
      <4>1. diagnosis = NoDiagnosis /\ diagnosis' = diagnosis  BY <2>1, <2>3, <3>2
      <4> QED  BY <4>1 DEF NoDiagnosis
    <3> QED  BY <3>1, <3>2
  <2>6. Revisions' = Revisions  BY <2>1 DEF InvalidateStaleHypotheses, Revisions
  <2>7. ASSUME NEW h \in Revisions'
        PROVE  /\ hypotheses'[h].version <= MaxRevisions + 1
               /\ hypotheses'[h].status = "SUPPORTED" => hypotheses'[h].snapshot = snapshot'
    <3>1. h \in Revisions /\ hypotheses[h] \in Hypothesis  BY <1>0, <2>6, <2>7
    <3>2. hypotheses'[h] = IF hypotheses[h].status = "SUPPORTED" /\ hypotheses[h].snapshot # evidence
                           THEN [hypotheses[h] EXCEPT !.status = "INVESTIGATING"] ELSE hypotheses[h]
      BY <2>1, <3>1 DEF InvalidateStaleHypotheses, Revisions
    <3> QED  BY <1>1, <3>1, <3>2 DEF LedgerInv, Hypothesis
  <2>8. diagnosis'.snapshot <= snapshot'
    <3>1. diagnosis.snapshot \in Nat /\ diagnosis.snapshot <= snapshot  BY <1>0 DEF LedgerInv, Diagnosis
    <3> QED  BY <1>0, <1>1, <2>2, <2>5, <3>1
  <2>9. snapshot' <= evidence' /\ snapshot' = evidence'  BY <1>0, <1>1
  <2> QED  BY <1>1, <2>4, <2>5, <2>6, <2>7, <2>8, <2>9 DEF LedgerInv
<1> QED  BY <1>2, <1>3

\* A commit changes a confidence and nothing else.
LEMMA Committed ==
    ASSUME TypeOK, LedgerInv, BeliefCommit
    PROVE  /\ Revisions' = Revisions /\ Len(deltas') = Len(deltas) - 1 /\ Len(deltas) \in Nat \ {0}
           /\ \A h \in Revisions :
                /\ hypotheses'[h].version = hypotheses[h].version
                /\ hypotheses'[h].status = hypotheses[h].status
                /\ hypotheses'[h].snapshot = hypotheses[h].snapshot
           /\ \A i \in DOMAIN deltas' : i + 1 \in DOMAIN deltas /\ deltas'[i] = deltas[i + 1]
<1> DEFINE d == Head(deltas)
<1>1. deltas \in Seq(Delta) /\ deltas # <<>> /\ deltas' = Tail(deltas)  BY DEF BeliefCommit, TypeOK
<1>2. d.hypothesis \in Revisions
  <2>1. 1 \in DOMAIN deltas /\ d = deltas[1]  BY <1>1
  <2> QED  BY <2>1 DEF LedgerInv
<1>3. hypotheses' = [hypotheses EXCEPT ![d.hypothesis].confidence = d.new]  BY DEF BeliefCommit
<1>4. \A h \in Revisions : hypotheses[h] \in Hypothesis  BY DEF TypeOK, Revisions
<1>5. /\ Len(deltas') = Len(deltas) - 1 /\ Len(deltas) \in Nat \ {0}
      /\ \A i \in DOMAIN deltas' : i + 1 \in DOMAIN deltas /\ deltas'[i] = deltas[i + 1]
  BY <1>1
<1> HIDE DEF d
<1>6. Revisions' = Revisions  BY <1>3 DEF Revisions
<1>7. \A h \in Revisions :
         hypotheses'[h] = IF h = d.hypothesis THEN [hypotheses[h] EXCEPT !.confidence = d.new] ELSE hypotheses[h]
  BY <1>2, <1>3 DEF Revisions
<1>8. \A h \in Revisions :
         /\ hypotheses'[h].version = hypotheses[h].version
         /\ hypotheses'[h].status = hypotheses[h].status
         /\ hypotheses'[h].snapshot = hypotheses[h].snapshot
  BY <1>4, <1>7 DEF Hypothesis
<1> QED  BY <1>5, <1>6, <1>8

\* Every step keeps LedgerInv.
LEMMA LedgerStep ==
    ASSUME TypeOK, CallsInv, ControlInv, LedgerInv, [Next]_vars
    PROVE  LedgerInv'
<1>a. ASSUME UNCHANGED <<hypotheses, deltas, diagnosis, plan, evidence, snapshot>>,
             BetweenTurns' => BetweenTurns
      PROVE  LedgerInv'
  BY <1>a DEF LedgerInv, Revisions
<1>1. CASE ClassifyResult  BY <1>1, LedgerClassified
<1>2. CASE ObservationUpdate  BY <1>2, LedgerObserved
<1>3. CASE BeliefCommit
  <2>1. UNCHANGED <<diagnosis, plan, evidence, snapshot, node>>  BY <1>3 DEF BeliefCommit
  <2> QED  BY <1>3, <2>1, Committed DEF LedgerInv, BetweenTurns
<1>4. ASSUME NEW reflection \in BOOLEAN, BuildContext(reflection),
             node \in {"context_builder", "reflection_context"}
      PROVE  LedgerInv'
  <2>1. snapshot = evidence /\ BetweenTurns  BY <1>4 DEF LedgerInv, BetweenTurns
  <2>2. UNCHANGED <<hypotheses, deltas, diagnosis, plan, evidence, snapshot>>
    BY <1>4, <2>1, TurnOpened
  <2> QED  BY <1>a, <2>1, <2>2
<1>5. CASE TerminationRouter \/ Model \/ ModelFails \/ Gateway \/ CategoryRouter \/ Tools \/ Classified
           \/ BeliefCommitFails \/ BeliefsCommitted \/ ReflectionRouter
           \/ StructuredGuard \/ RejectArguments \/ ArgumentGuard \/ Done \/ UNCHANGED vars
  <2>1. UNCHANGED <<hypotheses, deltas, diagnosis, plan, evidence, snapshot>>
    BY <1>5 DEF TerminationRouter, Model, ModelFails, Gateway, CategoryRouter, Tools, Classified,
       BeliefCommitFails, BeliefsCommitted, ReflectionRouter, StructuredGuard, RejectArguments,
       ArgumentGuard, Done, vars, ledger
  <2>2. BetweenTurns' => BetweenTurns
    BY <1>5 DEF TerminationRouter, Model, ModelFails, Gateway, CategoryRouter, Tools, Classified,
       BeliefCommitFails, BeliefsCommitted, ReflectionRouter, StructuredGuard, RejectArguments,
       ArgumentGuard, Done, vars, BetweenTurns, Goto
  <2> QED  BY <1>a, <2>1, <2>2
<1>6. CASE BeliefUpdate
  <2>1. UNCHANGED <<hypotheses, deltas, diagnosis, plan, evidence, snapshot>> /\ BetweenTurns
    BY <1>6 DEF BeliefUpdate, BetweenTurns
  <2> QED  BY <1>a, <2>1
<1> QED
  BY <1>1, <1>2, <1>3, <1>4, <1>5, <1>6 DEF Next, Work, ContextBuilder, ReflectionContext

-----------------------------------------------------------------------------
(* One call a turn *)

\* The parts of SingleInv about the pending deltas and results.
AppliesInv == \A i \in DOMAIN deltas : Applies(deltas[i])
ReadsInv == \A i \in DOMAIN results : ReadHolds(results[i])

\* Only phases with optional skills, never RECOVERY, grant EVIDENCE tools.
LEMMA EvidencePhases ==
    ASSUME NEW phase \in Phase, NEW requested \in Skill \union {None},
           "EVIDENCE" \in AllowedCategories(phase, requested)
    PROVE  phase \in SkillPhases
BY DEF AllowedCategories, MandatoryCategories, Phase, SkillPhases

\* A tool reads the state its result is applied to.
LEMMA ToolReads ==
    ASSUME TypeOK, ControlInv, node = "tools", control.termination = None, evidence = snapshot,
           NEW call \in CallRecord, NEW again \in BOOLEAN
    PROVE  ReadHolds([call |-> call, class |-> Class(call), fresh |-> Fresh(call, again), seen |-> Seen(call)])
<1> DEFINE r == [call |-> call, class |-> Class(call), fresh |-> Fresh(call, again), seen |-> Seen(call)]
<1>1. r.seen = Seen(call) /\ r.call = call /\ r.class = Class(call)  OBVIOUS
<1>2. Class(call) # "CONSTRAINT" => Accepted(call)  BY DEF Class
<1>3. call.hypothesis # 0 => Seen(call).confidence = hypotheses[call.hypothesis].confidence
  BY DEF Seen
<1>4. Effective(r) => control.phase \in PhasesOf(call.tool)
  BY <1>1, <1>2 DEF Effective, Accepted
<1>5. Class(call) = "EVIDENCE" => control.phase \in SkillPhases
  <2>1. SUFFICES ASSUME Class(call) = "EVIDENCE"  PROVE control.phase \in SkillPhases  OBVIOUS
  <2>2. Accepted(call) /\ call.tool \in EvidenceTools  BY <2>1 DEF Class
  <2>3. ToolCategory(call) = "EVIDENCE"  BY <2>2 DEF ToolCategory, EvidenceTools
  <2>4. "EVIDENCE" \in skills.granted  BY <2>2, <2>3 DEF Accepted, Authorized, AuthorizedCategories
  <2>5. "EVIDENCE" \in AllowedCategories(control.phase, skills.requested)  BY <2>4 DEF ControlInv
  <2>6. control.phase \in Phase /\ skills.requested \in Skill \union {None}  BY DEF TypeOK, Control
  <2> QED  BY <2>5, <2>6, EvidencePhases
<1>6. Does(r, "finish_investigation") /\ call.arg = "DIAGNOSIS_CONFIDENT" => ~diagnosis.provisional
  BY <1>1, <1>2 DEF Does, Effective, Accepted, Precondition, FinishAllowed
<1> HIDE DEF r
<1>7. ReadHolds(r)  BY <1>1, <1>3, <1>4, <1>5, <1>6 DEF ReadHolds
<1> QED  BY <1>7 DEF r

\* In recovery no diagnosis is submitted or validated.
LEMMA SingleClassified ==
    ASSUME TypeOK, CallsInv, ControlInv, LedgerInv, SingleInv, scenario.batch = 1, ClassifyResult
    PROVE  SingleInv'
<1> DEFINE r == Head(results)
<1>1. /\ r \in Result /\ ResultHolds(r) /\ r = results[1] /\ 1 \in DOMAIN results
      /\ Len(results') = Len(results) - 1 /\ Len(results) \in Nat \ {0}
      /\ results' \in Seq(Result)
  BY FirstResult
<1>2. /\ hypotheses' = HypothesesAfter(r) /\ diagnosis' = DiagnosisAfter(r) /\ deltas' = DeltasAfter(r)
      /\ control' = ControlAfter(r)
      /\ evidence' = (IF r.class = "EVIDENCE" THEN evidence + 1 ELSE evidence)
      /\ UNCHANGED <<scenario, node, reply, snapshot>> /\ node = "classifier"
  BY DEF ClassifyResult, Classify
<1> HIDE DEF r
<1>3. ReadHolds(r)  BY <1>1 DEF SingleInv
<1>4. deltas \in Seq(Delta) /\ control \in Control /\ evidence \in Nat /\ Len(deltas) \in Nat
  BY DEF TypeOK
<1>5. Len(results) = 1 /\ Len(deltas) = 0  BY <1>1, <1>4 DEF SingleInv
<1>6. deltas = <<>> /\ results' = <<>>  BY <1>1, <1>4, <1>5
<1>7. HypothesesStand(hypotheses')  BY <1>1, <1>2, HypothesesGrow
<1>8. Len(deltas') <= 1 /\ AppliesInv'
  <2>1. CASE Does(r, "commit_belief_delta")
    <3> DEFINE d == [hypothesis |-> r.call.hypothesis, previous |-> r.seen.confidence,
                     new |-> 1 - r.seen.confidence]
    <3>1. deltas' = <<d>>  BY <1>2, <1>6, <2>1 DEF DeltasAfter
    <3>2. d.hypothesis = r.call.hypothesis /\ d.previous = r.seen.confidence  OBVIOUS
    <3>3. r.call.hypothesis \in Revisions /\ r.call.hypothesis # 0
      BY <1>1, <2>1 DEF ResultHolds, WellShaped, Does, AboutOne, Revisions, TypeOK
    <3>4. d.previous = hypotheses[d.hypothesis].confidence  BY <1>3, <3>2, <3>3 DEF ReadHolds
    <3>5. d.previous = hypotheses'[d.hypothesis].confidence  BY <1>7, <3>2, <3>3, <3>4 DEF HypothesesStand
    <3> HIDE DEF d
    <3>6. Len(deltas') = 1 /\ DOMAIN deltas' = {1} /\ deltas'[1] = d  BY <3>1
    <3> QED  BY <3>5, <3>6 DEF Applies, AppliesInv
  <2>2. CASE ~Does(r, "commit_belief_delta")
    <3>1. deltas' = <<>>  BY <1>2, <1>6, <2>2 DEF DeltasAfter
    <3> QED  BY <3>1 DEF AppliesInv
  <2> QED  BY <2>1, <2>2
<1>9. evidence' # snapshot' => control'.phase \in SkillPhases
  <2>1. r.class = "EVIDENCE" => control'.phase = control.phase  BY <1>1, <1>2, <1>4, ControlMoves
  <2> QED  BY <1>2, <1>3, <2>1 DEF ReadHolds
<1>10. InRecovery' => ~diagnosis'.provisional
  <2>1. SUFFICES ASSUME InRecovery'  PROVE ~diagnosis'.provisional  OBVIOUS
  <2>2. InRecovery \/ (Does(r, "validate_diagnosis") /\ ~r.seen.diagnosis.provisional)
    BY <1>1, <1>2, <1>4, <2>1, ControlMoves DEF InRecovery
  <2>3. CASE InRecovery
    <3>1. control.phase # "DIAGNOSIS"  BY <2>3 DEF InRecovery
    <3>2. ~Does(r, "submit_diagnosis") /\ ~Does(r, "validate_diagnosis")
      BY <1>3, <3>1 DEF ReadHolds, Does, PhasesOf
    <3>3. diagnosis'.provisional = diagnosis.provisional  BY <1>1, <1>2, <3>2, DiagnosisMoves
    <3> QED  BY <2>3, <3>3 DEF SingleInv
  <2>4. CASE Does(r, "validate_diagnosis") /\ ~r.seen.diagnosis.provisional
    <3>1. r.seen.diagnosis # NoDiagnosis  BY <2>4 DEF NoDiagnosis
    <3>2. diagnosis' = r.seen.diagnosis  BY <1>2, <2>4, <3>1 DEF DiagnosisAfter, Does
    <3> QED  BY <2>4, <3>2
  <2> QED  BY <2>2, <2>3, <2>4
<1>11. control'.termination = "DIAGNOSIS_CONFIDENT" => ~diagnosis'.provisional /\ evidence' = snapshot'
  <2>1. SUFFICES ASSUME control'.termination = "DIAGNOSIS_CONFIDENT"
                 PROVE  ~diagnosis'.provisional /\ evidence' = snapshot'
    OBVIOUS
  <2>2. Does(r, "finish_investigation") /\ r.call.arg = "DIAGNOSIS_CONFIDENT"
    <3>1. control.termination # "DIAGNOSIS_CONFIDENT"  BY <1>3 DEF ReadHolds, None
    <3> QED  BY <1>1, <1>2, <1>4, <2>1, <3>1, ControlMoves
  <2>3. ~diagnosis.provisional /\ evidence = snapshot  BY <1>3, <2>2 DEF ReadHolds
  <2>4. diagnosis' = diagnosis  BY <1>2, <2>2 DEF DiagnosisAfter, Does
  <2>5. r.class # "EVIDENCE"  BY <1>1, <2>2 DEF ResultHolds, Does, EvidenceTools
  <2> QED  BY <1>2, <2>3, <2>4, <2>5
<1>12. Len(reply'.calls) <= 1  BY <1>2 DEF SingleInv
<1>13. Len(results') + Len(deltas') <= 1
  <2>1. Len(results') = 0  BY <1>6
  <2>2. Len(deltas') \in Nat
    <3>1. Does(r, "commit_belief_delta") => Len(deltas') = 1  BY <1>2, <1>6 DEF DeltasAfter
    <3>2. ~Does(r, "commit_belief_delta") => Len(deltas') = 0  BY <1>2, <1>6 DEF DeltasAfter
    <3> QED  BY <3>1, <3>2
  <2> QED  BY <1>8, <2>1, <2>2
<1>14. ReadsInv'  BY <1>6 DEF ReadsInv
<1> QED
  BY <1>2, <1>8, <1>9, <1>10, <1>11, <1>12, <1>13, <1>14 DEF SingleInv, AppliesInv, ReadsInv

\* New evidence arrives only outside recovery and before any confident end.
LEMMA SingleObserved ==
    ASSUME TypeOK, CallsInv, LedgerInv, SingleInv, scenario.batch = 1, ObservationUpdate
    PROVE  SingleInv'
<1>0. \A h \in Revisions : hypotheses[h] \in Hypothesis  BY DEF TypeOK, Revisions
<1>1. /\ snapshot' = evidence /\ evidence' = evidence /\ node' = "belief_update" /\ node = "observation"
      /\ UNCHANGED <<scenario, reply, results, deltas, control>>
  BY DEF ObservationUpdate, Goto
<1>2. results' = <<>>  BY <1>1 DEF CallsInv
<1>3. AppliesInv'
  <2>1. \A h \in Revisions : hypotheses'[h].confidence = hypotheses[h].confidence
    <3>1. \A h \in Revisions : hypotheses'[h] = hypotheses[h]
                               \/ hypotheses'[h] = [hypotheses[h] EXCEPT !.status = "INVESTIGATING"]
      BY DEF ObservationUpdate, InvalidateStaleHypotheses, Revisions
    <3> QED  BY <1>0, <3>1 DEF Hypothesis
  <2>2. \A i \in DOMAIN deltas : deltas[i].hypothesis \in Revisions /\ Applies(deltas[i])
    BY DEF LedgerInv, SingleInv
  <2> QED  BY <1>1, <2>1, <2>2 DEF Applies, AppliesInv
<1>4. CASE snapshot = evidence
  <2>1. diagnosis' = diagnosis  BY <1>4 DEF ObservationUpdate
  <2> QED  BY <1>1, <1>2, <1>3, <1>4, <2>1 DEF SingleInv, InRecovery, AppliesInv
<1>5. CASE snapshot # evidence
  <2>1. control.phase \in SkillPhases  BY <1>5 DEF SingleInv
  <2>2. ~InRecovery'  BY <1>1, <2>1 DEF InRecovery, SkillPhases
  <2>3. control'.termination # "DIAGNOSIS_CONFIDENT"  BY <1>1, <1>5 DEF SingleInv
  <2> QED  BY <1>1, <1>2, <1>3, <2>2, <2>3 DEF SingleInv, AppliesInv
<1> QED  BY <1>4, <1>5

\* A batch of one has one call.
LEMMA BatchOfOne ==
    ASSUME NEW S, NEW calls \in [1..1 -> S]
    PROVE  Len(calls) = 1
<1>1. calls \in Seq(S)  BY SeqDef
<1>2. Len(calls) \in Nat /\ DOMAIN calls = 1..Len(calls)  BY <1>1, LenProperties
<1>3. DOMAIN calls = 1..1  OBVIOUS
<1>4. 1 \in 1..Len(calls) /\ Len(calls) \in 1..1
  <2>1. 1 \in DOMAIN calls /\ 2 \notin DOMAIN calls  BY <1>3
  <2> QED  BY <1>2, <2>1
<1> QED  BY <1>4

\* Every step keeps SingleInv.
LEMMA SingleStep ==
    ASSUME TypeOK, CallsInv, ControlInv, LedgerInv, TerminationInv, SingleInv, [Next]_vars
    PROVE  SingleInv'
<1>a. scenario' = scenario  BY ScenarioKept
<1> SUFFICES ASSUME scenario.batch = 1  PROVE SingleInv'
  BY <1>a DEF SingleInv
<1> DEFINE Committing == {"classifier", "observation", "belief_update", "belief_commit"}
\* Steps outside the commit that leave the ledger alone and hold no result.
<1>b. ASSUME UNCHANGED <<hypotheses, deltas, diagnosis, evidence, snapshot>>,
             results' = <<>>, Len(reply'.calls) <= 1,
             node' \in Committing \/ deltas = <<>>, node' # "commit_failure",
             InRecovery' => InRecovery,
             control'.termination = "DIAGNOSIS_CONFIDENT" => control.termination = "DIAGNOSIS_CONFIDENT",
             evidence = snapshot \/ control'.phase = control.phase
      PROVE  SingleInv'
  <2>1. Len(results') + Len(deltas') <= 1
    <3>1. Len(results') = 0 /\ Len(deltas) \in Nat /\ Len(results) \in Nat  BY <1>b DEF TypeOK
    <3> QED  BY <1>b, <3>1 DEF SingleInv
  <2>2. AppliesInv'  BY <1>b DEF SingleInv, Applies, AppliesInv
  <2>3. evidence' # snapshot' => control'.phase \in SkillPhases  BY <1>b DEF SingleInv
  <2> QED  BY <1>b, <2>1, <2>2, <2>3 DEF SingleInv, AppliesInv
<1>c. /\ node \notin Committing => deltas = <<>>
      /\ node # "classifier" => results = <<>>
      /\ BetweenTurns => evidence = snapshot
      /\ Len(reply.calls) <= 1
  BY DEF SingleInv, CallsInv, LedgerInv
<1>d. control \in Control  BY DEF TypeOK
<1>1. CASE TerminationRouter
  <2>1. control' = control \/ control' = Terminate("BUDGET_EXHAUSTED")  BY <1>1 DEF TerminationRouter
  <2>2. /\ control'.phase = control.phase /\ control'.resume = control.resume
        /\ control'.termination = control.termination \/ control'.termination = "BUDGET_EXHAUSTED"
    <3>1. "BUDGET_EXHAUSTED" \in Termination  BY DEF Termination
    <3> QED  BY <1>d, <2>1, <3>1, TerminateType
  <2>3. /\ UNCHANGED <<hypotheses, deltas, diagnosis, evidence, snapshot, reply, results>>
        /\ node = "termination_router" /\ node' # "commit_failure"
    BY <1>1 DEF TerminationRouter, ledger, Goto
  <2> QED  BY <1>b, <1>c, <2>2, <2>3 DEF InRecovery
<1>2. ASSUME NEW reflection \in BOOLEAN, BuildContext(reflection),
             node \in {"context_builder", "reflection_context"}
      PROVE  SingleInv'
  <2>1. BetweenTurns /\ evidence = snapshot  BY <1>2, <1>c DEF BetweenTurns
  <2>2. /\ UNCHANGED <<hypotheses, deltas, diagnosis, evidence, snapshot, reply, results>>
        /\ node' \in {"model", "snapshot_failure"}
        /\ control'.termination = control.termination \/ control'.termination = "SAFETY_BLOCKED"
        /\ control'.phase = Entered(reflection).phase /\ control'.resume = Entered(reflection).resume
    BY <1>2, <2>1, TurnOpened
  <2>3. InRecovery' => InRecovery
    <3>1. Finalization(control).phase \in {"DIAGNOSIS", "ESCALATION"}  BY <1>d, FinalizationType
    <3>2. /\ Reflecting(control).phase = "REFLECTION"
          /\ Reflecting(control).resume = IF control.phase # "REFLECTION" THEN control.phase ELSE control.resume
      BY <1>d, ReflectingType DEF ControlInv, ControlStands
    <3> QED  BY <2>2, <3>1, <3>2 DEF Entered, InRecovery
  <2> QED  BY <1>2, <1>b, <1>c, <2>1, <2>2, <2>3
<1>3. CASE Model
  <2>1. Len(reply'.calls) <= 1
    <3>1. CASE \E calls \in Batches : reply' = [calls |-> calls, wellFormed |-> TRUE]
      <4>1. PICK calls \in Batches : reply' = [calls |-> calls, wellFormed |-> TRUE]  BY <3>1
      <4>2. PICK n \in 1..scenario.batch : calls \in [1..n -> Exposed]  BY DEF Batches
      <4>3. n = 1  OBVIOUS
      <4>4. calls \in [1..1 -> Exposed]  BY <4>2, <4>3
      <4>5. Len(calls) = 1  BY <4>4, BatchOfOne
      <4>6. reply'.calls = calls  BY <4>1
      <4>7. Len(reply'.calls) = 1  BY <4>5, <4>6, Zenon
      <4> QED  BY <4>7
    <3>2. CASE reply' = NoReply  BY <3>2 DEF NoReply
    <3>3. CASE \E n \in 1..scenario.batch :
                 reply' = [calls |-> [i \in 1..n |-> Malformed], wellFormed |-> FALSE]
      <4>1. reply'.calls = [i \in 1..1 |-> Malformed]  BY <3>3
      <4>2. reply'.calls \in Seq({Malformed}) /\ Len(reply'.calls) = 1  BY <4>1
      <4> QED  BY <4>2
    <3> QED  BY <1>3, <3>1, <3>2, <3>3 DEF Model
  <2>2. /\ UNCHANGED <<hypotheses, deltas, diagnosis, evidence, snapshot, results, control>>
        /\ node = "model" /\ node' = "gateway"
    BY <1>3 DEF Model, ledger, Goto
  <2> QED  BY <1>b, <1>c, <2>1, <2>2 DEF InRecovery
<1>4. CASE ModelFails \/ BeliefCommitFails
  <2>1. ~BeliefCommitFails
    <3>1. SUFFICES ASSUME BeliefCommitFails PROVE FALSE  OBVIOUS
    <3>2. deltas \in Seq(Delta) /\ deltas # <<>> /\ ~Applies(Head(deltas))
      BY <3>1 DEF BeliefCommitFails, TypeOK
    <3>3. 1 \in DOMAIN deltas /\ Head(deltas) = deltas[1]  BY <3>2
    <3> QED  BY <3>2, <3>3 DEF SingleInv
  <2>2. ModelFails  BY <1>4, <2>1
  <2>3. /\ control'.phase = control.phase /\ control'.resume = control.resume
        /\ control'.termination = control.termination \/ control'.termination = "FATAL_INFRASTRUCTURE"
    <3>1. "FATAL_INFRASTRUCTURE" \in Termination  BY DEF Termination
    <3> QED  BY <1>d, <2>2, <3>1, TerminateType DEF ModelFails
  <2>4. /\ UNCHANGED <<hypotheses, deltas, diagnosis, evidence, snapshot, reply, results>>
        /\ node = "model" /\ node' = "model_failure"
    BY <2>2 DEF ModelFails, ledger, Goto
  <2> QED  BY <1>b, <1>c, <2>3, <2>4 DEF InRecovery
<1>5. CASE Gateway
  <2>1. /\ UNCHANGED <<hypotheses, deltas, diagnosis, evidence, snapshot, results, control>>
        /\ node = "gateway" /\ node' = "category_router" /\ reply'.calls = Truncated(reply.calls)
    BY <1>5 DEF Gateway, ledger, Goto, TypeOK
  <2>2. Len(reply'.calls) <= 1
    <3>1. reply.calls \in Seq(CallRecord) /\ Len(reply.calls) \in Nat  BY DEF TypeOK
    <3>2. Len(Truncated(reply.calls)) \in Nat /\ Len(Truncated(reply.calls)) <= Len(reply.calls)
      BY <3>1, TruncatedFits
    <3> QED  BY <1>c, <2>1, <3>1, <3>2
  <2> QED  BY <1>b, <1>c, <2>1, <2>2 DEF InRecovery
<1>6. CASE CategoryRouter
  <2>1. /\ UNCHANGED <<hypotheses, deltas, diagnosis, evidence, snapshot, reply, results, control>>
        /\ node = "category_router" /\ node' # "commit_failure"
    BY <1>6 DEF CategoryRouter, ledger, Goto
  <2> QED  BY <1>b, <1>c, <2>1 DEF InRecovery
<1>7. CASE Tools
  <2>1. PICK again \in BOOLEAN :
           results' = [i \in DOMAIN reply.calls |->
                         [call |-> reply.calls[i], class |-> Class(reply.calls[i]),
                          fresh |-> Fresh(reply.calls[i], again), seen |-> Seen(reply.calls[i])]]
    BY <1>7 DEF Tools
  <2>2. /\ UNCHANGED <<hypotheses, deltas, diagnosis, evidence, snapshot, control>>
        /\ node = "tools" /\ node' = "classifier" /\ reply'.calls = <<>>
    BY <1>7 DEF Tools, ledger, Goto, NoReply
  <2>3. control.termination = None /\ evidence = snapshot /\ deltas = <<>>
    BY <1>c, <2>2 DEF TerminationInv, Ended, BetweenTurns
  <2>4. \A i \in DOMAIN reply.calls : reply.calls[i] \in CallRecord  BY DEF TypeOK
  <2>5. \A i \in DOMAIN reply.calls :
           ReadHolds([call |-> reply.calls[i], class |-> Class(reply.calls[i]),
                      fresh |-> Fresh(reply.calls[i], again), seen |-> Seen(reply.calls[i])])
    BY <2>2, <2>3, <2>4, ToolReads
  <2>6. \A i \in DOMAIN results' : ReadHolds(results'[i])  BY <2>1, <2>5
  <2>7. ReadsInv'  BY <2>2, <2>6 DEF ReadHolds, ReadsInv
  <2>8. Len(results') = Len(reply.calls) /\ Len(results') <= 1
    <3>1. reply.calls \in Seq(CallRecord) /\ Len(reply.calls) \in Nat  BY DEF TypeOK
    <3>2. results' \in Seq(Result)  BY TypeStep DEF TypeOK
    <3>3. DOMAIN results' = DOMAIN reply.calls  BY <2>1
    <3> QED  BY <1>c, <3>1, <3>2, <3>3
  <2>9. Len(deltas') = 0 /\ Len(results') \in Nat
    <3>1. Len(reply.calls) \in Nat  BY DEF TypeOK
    <3> QED  BY <2>2, <2>3, <2>8, <3>1
  <2>10. InRecovery' = InRecovery  BY <2>2 DEF InRecovery
  <2> QED  BY <2>2, <2>3, <2>7, <2>8, <2>9, <2>10 DEF SingleInv, ReadsInv
<1>8. CASE ClassifyResult  BY <1>8, SingleClassified
<1>9. CASE Classified
  <2>1. /\ UNCHANGED <<hypotheses, deltas, diagnosis, evidence, snapshot, reply, results, control>>
        /\ results = <<>> /\ node' = "observation"
    BY <1>9 DEF Classified, ledger, Goto
  <2> QED  BY <1>b, <1>c, <2>1 DEF InRecovery
<1>10. CASE ObservationUpdate  BY <1>10, SingleObserved
<1>11. CASE BeliefUpdate
  <2>1. /\ UNCHANGED <<hypotheses, deltas, diagnosis, evidence, snapshot, reply, results>>
        /\ node = "belief_update" /\ node' = "belief_commit"
        /\ \/ control' = control \/ control' = [control EXCEPT !.pending = "GROUNDING_FAILURE"]
           \/ control' = [control EXCEPT !.pending = "CANDIDATE_CONFLICT"]
    BY <1>11 DEF BeliefUpdate, Goto
  <2>2. control'.phase = control.phase /\ control'.resume = control.resume
        /\ control'.termination = control.termination
    BY <1>d, <2>1 DEF Control
  <2> QED  BY <1>b, <1>c, <2>1, <2>2 DEF InRecovery
<1>12. CASE BeliefCommit
  <2>1. /\ UNCHANGED <<diagnosis, evidence, snapshot, reply, results, control, node>>
        /\ node = "belief_commit"
    BY <1>12 DEF BeliefCommit
  <2>2. results' = <<>> /\ results = <<>>  BY <1>c, <2>1
  <2>3. deltas' = <<>>
    <3>1. deltas \in Seq(Delta) /\ deltas # <<>> /\ deltas' = Tail(deltas)  BY <1>12 DEF BeliefCommit, TypeOK
    <3>2. Len(deltas) <= 1  BY <2>2, <3>1 DEF SingleInv
    <3> QED  BY <3>1, <3>2
  <2>4. InRecovery' = InRecovery  BY <2>1 DEF InRecovery
  <2> QED  BY <2>1, <2>2, <2>3, <2>4 DEF SingleInv
<1>13. CASE BeliefsCommitted
  <2>1. /\ UNCHANGED <<hypotheses, deltas, diagnosis, evidence, snapshot, reply, results, control>>
        /\ node = "belief_commit" /\ deltas = <<>> /\ node' = "reflection_router"
    BY <1>13 DEF BeliefsCommitted, ledger, Goto
  <2> QED  BY <1>b, <1>c, <2>1 DEF InRecovery
<1>14. CASE ReflectionRouter
  <2>1. /\ node = "reflection_router" /\ node' \in {"termination_router", "reflection_context"}
        /\ UNCHANGED <<hypotheses, deltas, diagnosis, evidence, snapshot, reply, results>>
        /\ control'.phase = control.phase \/ control'.phase \in {"DIAGNOSIS", "ESCALATION"}
        /\ control'.resume = control.resume
        /\ control'.termination = control.termination
           \/ control'.termination \in {"BUDGET_EXHAUSTED", "SAFETY_BLOCKED"}
    BY <1>14, Routed DEF ReflectionRouter, ledger
  <2>2. evidence = snapshot  BY <1>c, <2>1 DEF BetweenTurns
  <2> QED  BY <1>b, <1>c, <2>1, <2>2 DEF InRecovery
<1>15. CASE StructuredGuard
  <2>1. /\ UNCHANGED <<hypotheses, deltas, diagnosis, evidence, snapshot, reply, results>>
        /\ node = "structured_guard" /\ node' = "reflection_router"
        /\ control' = control \/ control' = [control EXCEPT !.termination = "BUDGET_EXHAUSTED"]
    BY <1>15 DEF StructuredGuard, ledger, Goto
  <2>2. /\ control'.phase = control.phase
        /\ control'.resume = control.resume
        /\ control'.termination = control.termination \/ control'.termination = "BUDGET_EXHAUSTED"
    BY <1>d, <2>1 DEF Control
  <2> QED  BY <1>b, <1>c, <2>1, <2>2 DEF InRecovery
<1>16. CASE RejectArguments
  <2>1. /\ UNCHANGED <<hypotheses, deltas, diagnosis, evidence, snapshot, results, control, node>>
        /\ node = "argument_guard"
        /\ reply'.calls = Tail(reply.calls) /\ reply.calls # <<>> /\ reply.calls \in Seq(CallRecord)
    BY <1>16 DEF RejectArguments, ledger, TypeOK
  <2>2. Len(reply'.calls) <= 1  BY <1>c, <2>1
  <2> QED  BY <1>b, <1>c, <2>1, <2>2 DEF InRecovery
<1>17. CASE ArgumentGuard
  <2>1. /\ UNCHANGED <<hypotheses, deltas, diagnosis, evidence, snapshot, results>>
        /\ node = "argument_guard" /\ node' = "reflection_router" /\ Len(reply'.calls) <= 1
        /\ control' = Dropped(control) \/ control' = [Dropped(control) EXCEPT !.termination = "BUDGET_EXHAUSTED"]
    BY <1>17 DEF ArgumentGuard, ledger, Goto, NoReply
  <2>2. /\ control'.phase = control.phase
        /\ control'.resume = control.resume
        /\ control'.termination = control.termination \/ control'.termination = "BUDGET_EXHAUSTED"
    BY <1>d, <2>1, DroppedType DEF Control
  <2> QED  BY <1>b, <1>c, <2>1, <2>2 DEF InRecovery
<1>18. CASE Done \/ UNCHANGED vars
  <2>1. UNCHANGED vars  BY <1>18 DEF Done
  <2> QED  BY <2>1 DEF SingleInv, vars, ledger, ReadHolds, Applies, InRecovery
<1> QED
  BY <1>1, <1>2, <1>3, <1>4, <1>5, <1>6, <1>7, <1>8, <1>9, <1>10, <1>11, <1>12, <1>13, <1>14, <1>15,
     <1>16, <1>17, <1>18
  DEF Next, Work, ContextBuilder, ReflectionContext

-----------------------------------------------------------------------------
(* The initial states *)

\* The ledger each entry of Supervisor brings.
LEMMA EntryLedger ==
    ASSUME Init
    PROVE  /\ scenario.entry = "fresh" =>
                hypotheses = <<>> /\ diagnosis = NoDiagnosis /\ plan = NoPlan
                /\ evidence = 0 /\ snapshot = 0
           /\ scenario.entry # "fresh" =>
                hypotheses = GroundedLedger /\ diagnosis = Diagnosed /\ plan \in {1, NoPlan}
                /\ evidence = 1 /\ snapshot = 1
BY ScenariosAssumption DEF Init

\* Every entry satisfies LedgerInv.
LEMMA LedgerInit == Init => LedgerInv
<1> SUFFICES ASSUME Init  PROVE LedgerInv  OBVIOUS
<1>1. deltas = <<>> /\ MaxRevisions \in Nat /\ TypeOK  BY LimitsAssumption, TypeInit DEF Init
<1>2. CASE scenario.entry = "fresh"
  <2>1. /\ hypotheses = <<>> /\ diagnosis = NoDiagnosis /\ plan = NoPlan
        /\ evidence = 0 /\ snapshot = 0
    BY <1>2, EntryLedger
  <2>2. Revisions = {}  BY <2>1 DEF Revisions
  <2>3. NoDiagnosis.hypothesis = 0 /\ NoDiagnosis.snapshot = 0 /\ NoDiagnosis.provisional
    BY DEF NoDiagnosis
  <2> QED  BY <1>1, <2>1, <2>2, <2>3 DEF LedgerInv
<1>3. CASE scenario.entry # "fresh"
  <2>1. /\ hypotheses = GroundedLedger /\ diagnosis = Diagnosed /\ plan \in {1, NoPlan}
        /\ evidence = 1 /\ snapshot = 1
    BY <1>3, EntryLedger
  <2>2. Revisions = {1, 2}
        /\ \A h \in {1, 2} : hypotheses[h].version = 1 /\ hypotheses[h].snapshot = 1
    BY <2>1 DEF Revisions, GroundedLedger
  <2>3. Diagnosed.hypothesis = 1 /\ Diagnosed.snapshot = 1 /\ Diagnosed.checked
    BY DEF Diagnosed
  <2>4. Diagnosed # NoDiagnosis  BY <2>3 DEF NoDiagnosis
  <2>5. 1 <= MaxRevisions + 1  BY <1>1
  <2> QED  BY <1>1, <2>1, <2>2, <2>3, <2>4, <2>5 DEF LedgerInv
<1> QED  BY <1>2, <1>3

\* Every entry satisfies ControlInv, and a failed recovery enters owing its termination.
LEMMA ControlInit == Init => ControlInv /\ (scenario.entry = "recovery_failed" => control.owed = "RECOVERY_FAILED")
<1> SUFFICES ASSUME Init
             PROVE  ControlInv /\ (scenario.entry = "recovery_failed" => control.owed = "RECOVERY_FAILED")
  OBVIOUS
<1>1. control = EntryControl(scenario.entry) /\ node = "termination_router"
      /\ scenario.entry \in {"fresh", "dry_run_failed", "recovery_failed"}
  BY ScenariosAssumption DEF Init
<1> QED  BY <1>1 DEF ControlInv, EntryControl, None

\* Every entry starts without calls, charges, termination or hops.
LEMMA CountersInit == Init => CallsInv /\ BudgetInv /\ TerminationInv /\ HopsInv
<1> SUFFICES ASSUME Init  PROVE CallsInv /\ BudgetInv /\ TerminationInv /\ HopsInv  OBVIOUS
<1>1. /\ node = "termination_router" /\ reply.calls = <<>> /\ results = <<>> /\ hops = 0
      /\ usage.turns = 0 /\ usage.toolCalls = 0 /\ usage.corrections = 0 /\ usage.units = 0
  BY DEF Init, NoReply
<1>2. /\ scenario.maxTurns \in Nat /\ scenario.maxToolCalls \in Nat
      /\ scenario.maxCorrections \in Nat /\ scenario.maxUnits \in Nat
  BY ScenariosAssumption DEF Init
<1>3. NodeDepth["termination_router"] = 9  BY DEF NodeDepth, Node, Ended
<1>4. Len(reply.calls) = 0 /\ Len(results) = 0  BY <1>1
<1>5. BudgetInv  BY <1>1, <1>2, <1>4 DEF BudgetInv
<1>6. CallsInv  BY <1>1 DEF CallsInv
<1>7. TerminationInv  BY <1>1 DEF TerminationInv
<1>8. HopsInv  BY <1>1, <1>3 DEF HopsInv
<1> QED  BY <1>5, <1>6, <1>7, <1>8

\* An entry in recovery carries a validated diagnosis.
LEMMA SingleInit == Init => SingleInv
<1> SUFFICES ASSUME Init  PROVE SingleInv  OBVIOUS
<1>1. /\ node = "termination_router" /\ reply.calls = <<>> /\ results = <<>> /\ deltas = <<>>
      /\ control = EntryControl(scenario.entry)
      /\ scenario.entry \in {"fresh", "dry_run_failed", "recovery_failed"}
  BY ScenariosAssumption DEF Init, NoReply
<1>2. evidence = snapshot  BY EntryLedger
<1>3. control.termination # "DIAGNOSIS_CONFIDENT"  BY <1>1 DEF EntryControl, None
<1>4. InRecovery => ~diagnosis.provisional
  <2>1. scenario.entry = "fresh" => ~InRecovery  BY <1>1 DEF EntryControl, InRecovery
  <2>2. scenario.entry # "fresh" => diagnosis = Diagnosed  BY EntryLedger
  <2> QED  BY <2>1, <2>2 DEF Diagnosed
<1>5. Len(reply.calls) = 0 /\ Len(results) = 0 /\ Len(deltas) = 0  BY <1>1
<1>6. Len(results) + Len(deltas) <= 1 /\ Len(reply.calls) <= 1  BY <1>5
<1> QED  BY <1>1, <1>2, <1>3, <1>4, <1>6 DEF SingleInv

-----------------------------------------------------------------------------
(* Theorems *)

\* The inductive invariant of the graph brain_graph.go compiles, for every
\* scenario, every limit and any number of revisions: each node leaves the state
\* well formed, the results consistent with what their tools read, and the
\* ledger, the budgets, the phase and the termination as the next node expects.
THEOREM InvariantCorrect == Spec => [](TypeOK /\ IInv)
<1>1. Init => TypeOK /\ IInv
  BY TypeInit, CountersInit, ControlInit, LedgerInit, SingleInit DEF IInv
<1>2. TypeOK /\ IInv /\ [Next]_vars => (TypeOK /\ IInv)'
  <2> SUFFICES ASSUME TypeOK, IInv, [Next]_vars  PROVE (TypeOK /\ IInv)'  OBVIOUS
  <2>1. CallsInv /\ BudgetInv /\ ControlInv /\ LedgerInv /\ TerminationInv /\ HopsInv /\ SingleInv
    BY DEF IInv
  <2>2. TypeOK'  BY <2>1, TypeStep
  <2>3. CallsInv'  BY <2>1, CallsStep
  <2>4. BudgetInv'  BY <2>1, <2>2, BudgetStep
  <2>5. ControlInv'  BY <2>1, ControlInvStep
  <2>6. LedgerInv'  BY <2>1, LedgerStep
  <2>7. TerminationInv'  BY <2>1, TerminationStep
  <2>8. HopsInv'  BY <2>1, HopsStep
  <2>9. SingleInv'  BY <2>1, SingleStep
  <2> QED  BY <2>2, <2>3, <2>4, <2>5, <2>6, <2>7, <2>8, <2>9 DEF IInv
<1> QED  BY <1>1, <1>2, PTL DEF Spec

\* No path through contextBuilder, the gateway, the guards and the classifier
\* charges more turns, tool calls, corrections or evidence units than the
\* incident's budget holds.
THEOREM BudgetsKept == Spec => []BudgetsHold
<1>1. TypeOK /\ IInv => BudgetsHold  BY DEF IInv, BudgetInv, BudgetsHold
<1> QED  BY <1>1, InvariantCorrect, PTL

\* A turn stays below the twelve nodes BrainGraphMaxSteps counts on, and with one
\* call a turn beliefCommit never meets a delta it cannot apply.
THEOREM GraphCompletes == Spec => []CallsDoNotFailTheGraph
<1>1. TypeOK /\ IInv => CallsDoNotFailTheGraph
  <2> SUFFICES ASSUME TypeOK, IInv  PROVE CallsDoNotFailTheGraph  OBVIOUS
  <2>1. \A n \in Node : NodeDepth[n] \in 0..10  BY DEF NodeDepth, Node, Ended
  <2>2. hops \in Nat /\ node \in Node /\ hops <= NodeDepth[node]  BY DEF TypeOK, IInv, HopsInv
  <2>3. NodeDepth[node] \in 0..10  BY <2>1, <2>2
  <2>4. hops <= 12  BY <2>2, <2>3
  <2> QED  BY <2>4 DEF IInv, SingleInv, CallsDoNotFailTheGraph
<1> QED  BY <1>1, InvariantCorrect, PTL

\* Between turns a hypothesis counts as SUPPORTED only on the evidence of now:
\* observationUpdate takes every grounding back that older evidence gave.
THEOREM SupportStaysCurrent == Spec => []SupportedIsCurrent
<1>1. TypeOK /\ IInv => SupportedIsCurrent  BY DEF IInv, LedgerInv, SupportedIsCurrent
<1> QED  BY <1>1, InvariantCorrect, PTL

\* Recovery is entered, or returned to from a reflection, only for a diagnosis
\* runBrainValidateDiagnosis accepted on the evidence of now, and a surviving
\* plan was written for that evidence.
THEOREM RecoveryNeedsDiagnosis == Spec => []RecoveryIsEarned
<1>1. TypeOK /\ IInv => RecoveryIsEarned
  <2> SUFFICES ASSUME TypeOK, IInv, BetweenTurns
               PROVE  /\ scenario.batch = 1 /\ InRecovery =>
                           diagnosis # NoDiagnosis /\ ~diagnosis.provisional
                           /\ diagnosis.snapshot = evidence
                      /\ plan # NoPlan => diagnosis # NoDiagnosis /\ plan = evidence
    BY DEF RecoveryIsEarned
  <2>1. LedgerInv /\ SingleInv /\ snapshot = evidence  BY DEF IInv, LedgerInv
  <2>2. ~diagnosis.provisional => diagnosis # NoDiagnosis /\ diagnosis.snapshot = evidence
    BY <2>1 DEF LedgerInv, NoDiagnosis
  <2> QED  BY <2>1, <2>2 DEF LedgerInv, SingleInv
<1> QED  BY <1>1, InvariantCorrect, PTL

\* With one call a turn DIAGNOSIS_CONFIDENT ends the loop only on a diagnosis
\* validated on the evidence of now: validateBrainTerminationRequest judged the
\* state the call is applied to.
THEOREM ConfidenceNeedsDiagnosis == Spec => []ConfidentTerminationIsEarned
<1>1. TypeOK /\ IInv => ConfidentTerminationIsEarned
  BY DEF IInv, LedgerInv, SingleInv, BetweenTurns, ConfidentTerminationIsEarned
<1> QED  BY <1>1, InvariantCorrect, PTL

\* Until the loop ends, no phase change, reflection or call drops the
\* RECOVERY_FAILED that Supervisor left owed (applyCapabilityOutput).
THEOREM FailureStaysOwed == Spec => []FailedRecoveryIsOwed
<1>1. Init => FailedRecoveryIsOwed  BY ControlInit DEF FailedRecoveryIsOwed
<1>2. TypeOK /\ IInv /\ FailedRecoveryIsOwed /\ [Next]_vars => FailedRecoveryIsOwed'
  <2> SUFFICES ASSUME TypeOK, IInv, FailedRecoveryIsOwed, [Next]_vars
               PROVE  FailedRecoveryIsOwed'
    OBVIOUS
  <2>1. scenario' = scenario  BY ScenarioKept
  <2>2. /\ control.owed = "RECOVERY_FAILED" =>
              control'.owed = "RECOVERY_FAILED" \/ control'.termination # None
        /\ control.termination # None => control'.termination # None
    BY ControlStep DEF IInv
  <2> QED  BY <2>1, <2>2 DEF FailedRecoveryIsOwed
<1> QED  BY <1>1, <1>2, InvariantCorrect, PTL DEF Spec
=============================================================================
