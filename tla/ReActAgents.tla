----------------------------- MODULE ReActAgents -----------------------------
(***************************************************************************)
(* The bounded ReAct agents of the baseline runtime (agent/                *)
(* constrained_agents.go, middleware.go and constrained_tools.go over      *)
(* internal/safety/budget.go and hypothesis.go).                           *)
(*                                                                         *)
(* A supervisor agent calls a diagnosis and a recovery agent as tools.     *)
(* Each agent loops: one model turn, then the batch of tool calls the      *)
(* model answered with.  The calls of the supervisor and of the recovery   *)
(* agent run one after the other; those of the diagnosis agent run in      *)
(* parallel over one WorkflowState, whose lock a call takes for each of    *)
(* its critical sections.  Every turn, call and correction is charged to   *)
(* the budget of its agent, and terminal tools, refusals and exhausted     *)
(* corrections mark the agent done, after which it is offered no tools.    *)
(*                                                                         *)
(* The model answers anything, out of the tools it is offered: the filters *)
(* cut what is sent to the provider, and a provider that answers with a    *)
(* tool it was not sent is not modelled.  Scores are abstracted to the     *)
(* grade they give a hypothesis and its place among the others, evidence   *)
(* to the sources it is from.                                              *)
(***************************************************************************)
EXTENDS IncidentStatus, Integers, Sequences, FiniteSets, SequencesExt

CONSTANTS
    Hypotheses,     \* hypothesis identities
    Sources,        \* evidence sources; "kubernetes" is one of them
    Proposals,      \* recovery proposals the model may write
    MaxIterations,  \* of each agent
    MaxToolUses,    \* of each agent
    MaxCorrections, \* of each agent
    MaxDrafts,      \* hypotheses of one submission: 3 in the code
    MaxBatch,       \* bound: tool calls of one model turn
    None

Agents == {"supervisor", "diagnosis", "recovery"}

ASSUME AgentsAssumption ==
    /\ "kubernetes" \in Sources /\ IsFiniteSet(Sources) /\ IsFiniteSet(Hypotheses)
    /\ None \notin Proposals \union Hypotheses
    /\ MaxIterations \in [Agents -> Nat \ {0}] /\ MaxToolUses \in [Agents -> Nat]
    /\ MaxCorrections \in [Agents -> Nat] /\ MaxBatch \in Nat \ {0} /\ MaxDrafts \in Nat \ {0}

VARIABLES
    state,  \* the WorkflowState, with the runtime's lifecycle service and done marks
    run,    \* "idle", "running", "ended" or "failed"
    agent,  \* the agent whose turn it is
    todo,   \* calls left of the batches of the sequential agents; the first one runs
    flight  \* calls of the diagnosis agent that are in flight, a bag

agentVars == <<state, run, agent, todo, flight>>

Lifecycle == {"", "EVIDENCE_SEARCHING", "SUPPORTED", "REFUTED", "ACCEPTED"}

\* What verification makes of a hypothesis.  A supported one may miss causal
\* nodes ("incomplete"), fail an acceptance gate ("weak") or pass them all.
Grades == {"open", "refuted", "incomplete", "weak", "passes"}

StatusOf(grade) ==
    CASE grade = "open"    -> "EVIDENCE_SEARCHING"
      [] grade = "refuted" -> "REFUTED"
      [] OTHER             -> "SUPPORTED"

\* The place is that of its score among the others, the best first.
VerifiedHypothesis ==
    [id : Hypotheses, status : Lifecycle \ {""}, grade : Grades, place : Int]

Usage == [iterations : Nat, tools : Nat, corrections : Nat]

NewState(status, sources) ==
    [status   |-> status, sources |-> sources,
     drafts   |-> <<>>,                              \* HypothesisDrafts, as they were given
     verified |-> <<>>,                              \* VerifiedHypotheses, one for each draft
     service  |-> [h \in Hypotheses |-> ""],         \* statuses of the transition service
     selected |-> None,                              \* SelectedHypothesisID
     proposal |-> None, dryRun |-> None,             \* and the proposal that was dry run
     usage    |-> [a \in Agents |-> [iterations |-> 0, tools |-> 0, corrections |-> 0]],
     done     |-> {},
     error    |-> FALSE]                             \* a tool returned an error

WorkflowState ==
    [status : Status, sources : SUBSET Sources, drafts : Seq(Hypotheses),
     verified : Seq(VerifiedHypothesis), service : [Hypotheses -> Lifecycle],
     selected : Hypotheses \union {None}, proposal : Proposals \union {None},
     dryRun : Proposals \union {None}, usage : [Agents -> Usage], done : SUBSET Agents,
     error : BOOLEAN]

AgentsTypeOK ==
    /\ state \in WorkflowState
    /\ run \in {"idle", "running", "ended", "failed"} /\ agent \in Agents

-----------------------------------------------------------------------------
(* Budget, corrections and refusals *)

Done(s, a) == [s EXCEPT !.done = @ \union {a}]

\* _ = transitionIncident(NEEDS_ATTENTION): an illegal move is discarded.
NeedsAttention(s) == [s EXCEPT !.status = AfterMove(@, "NEEDS_ATTENTION")]

\* forbiddenToolIntent, fatalRecoveryLocked and the escalation tools.
Refused(s, a) == Done(NeedsAttention(s), a)

\* safetyObservationLocked: feedback, or a human once the corrections are used up.
Corrected(s, a) ==
    IF s.usage[a].corrections < MaxCorrections[a]
      THEN [s EXCEPT !.usage[a].corrections = @ + 1]
      ELSE Refused(s, a)

RemainingTools(s, a) == MaxToolUses[a] - s.usage[a].tools

-----------------------------------------------------------------------------
(* The hypothesis lifecycle *)

\* CREATED is passed through inside one call.
CanTransitionHypothesis(from, to) ==
    \/ from \in {"", "SUPPORTED"} /\ to = "EVIDENCE_SEARCHING"
    \/ from = "EVIDENCE_SEARCHING" /\ to \in {"SUPPORTED", "REFUTED"}
    \/ from = "SUPPORTED" /\ to = "ACCEPTED"

Records(verified, h) == {i \in DOMAIN verified : verified[i].id = h}

\* Drafts may share an identity.  A map over the ledger keeps the last of its records,
\* a search finds the first.
LastOf(verified, h) == {i \in Records(verified, h) : \A j \in Records(verified, h) : j <= i}

FirstOf(verified, h) == {i \in Records(verified, h) : \A j \in Records(verified, h) : i <= j}

StatusIn(verified, h, default) ==
    IF LastOf(verified, h) = {} THEN default
    ELSE verified[CHOOSE i \in LastOf(verified, h) : TRUE].status

\* NewHypothesisTransitionService: statuses come from the verified hypotheses.
Restarted(s) ==
    [s EXCEPT !.done = {},
              !.service = [h \in Hypotheses |-> StatusIn(s.verified, h, "")]]

-----------------------------------------------------------------------------
(* Tools of the diagnosis agent *)

\* The drafts become the ledger's, and those that may be are under investigation.
Recording(s, hs, reopened) ==
    [s EXCEPT !.drafts = hs,
              !.service = [h \in Hypotheses |->
                IF h \in Range(hs) /\ @[h] \in reopened THEN "EVIDENCE_SEARCHING" ELSE @[h]]]

\* Mutant: refuted drafts are taken.
Recorded_Refuted(s, hs) ==
    IF hs = <<>> THEN Corrected(s, "diagnosis")
    ELSE Recording(s, hs, {"", "SUPPORTED", "REFUTED"})

\* submit_hypotheses.  A draft that is not grounded, or refuted, is corrected; a
\* supported one is under investigation again.
Recorded(s, hs) ==
    IF Len(hs) \notin 1..MaxDrafts \/ \E h \in Range(hs) : s.service[h] = "REFUTED"
      THEN Corrected(s, "diagnosis")
      ELSE Recording(s, hs, {from \in Lifecycle : CanTransitionHypothesis(from, "EVIDENCE_SEARCHING")})

Submissions == BoundedSeq(Hypotheses, MaxDrafts)

\* The part of the state verify_incident_hypotheses copies before it computes.
Copied(s) == [drafts |-> s.drafts, verified |-> s.verified, sources |-> s.sources]

Corroborated(sources) == "kubernetes" \in sources /\ Cardinality(sources) >= 2

GradesFor(sources) == IF Corroborated(sources) THEN Grades ELSE Grades \ {"passes"}

\* VerifyHypotheses: for every draft any grade the evidence allows, in any order of
\* their scores.
Verdicts(drafts, sources) ==
    {[i \in DOMAIN drafts |-> [id |-> drafts[order[i]], grade |-> grade[i],
                               status |-> StatusOf(grade[i]), place |-> i]] :
       order \in Bijection(DOMAIN drafts, DOMAIN drafts), grade \in [DOMAIN drafts -> GradesFor(sources)]}

\* Where the copy has a hypothesis, and where verification moves it to.
From(copy, h) == StatusIn(copy.verified, h, "EVIDENCE_SEARCHING")

\* Moving on from the copy is legal for the service; a supported hypothesis is
\* refuted by way of EVIDENCE_SEARCHING.
Legal(s, copy, item) ==
    LET from == From(copy, item.id)
    IN \/ from = item.status
       \/ /\ s.service[item.id] = from
          /\ \/ CanTransitionHypothesis(from, item.status)
             \/ from = "SUPPORTED" /\ item.status = "REFUTED"

\* The first of the verdicts on h that moves it.
FirstMove(copy, verdict, h) ==
    {i \in Records(verdict, h) :
       /\ verdict[i].status # From(copy, h)
       /\ \A j \in Records(verdict, h) : verdict[j].status # From(copy, h) => i <= j}

\* The second critical section: the ledger is overwritten, then the service is
\* moved, and a move it does not allow, like any second one of a hypothesis,
\* fails the run.
Verified(s, copy, verdict) ==
    IF \E h \in Range(copy.drafts) : From(copy, h) = "REFUTED"
      THEN Corrected(s, "diagnosis")
      ELSE [s EXCEPT
              !.verified = verdict,
              !.error = \E i \in DOMAIN verdict :
                 /\ verdict[i].status # From(copy, verdict[i].id)
                 /\ i \notin FirstMove(copy, verdict, verdict[i].id) \/ ~Legal(s, copy, verdict[i]),
              !.service = [h \in Hypotheses |->
                 IF \E i \in FirstMove(copy, verdict, h) : Legal(s, copy, verdict[i])
                   THEN verdict[CHOOSE i \in FirstMove(copy, verdict, h) : TRUE].status
                   ELSE @[h]]]

Eligible(record) == record.status \in {"SUPPORTED", "ACCEPTED"} /\ record.grade # "weak"

\* rankRootCause: the first supported hypothesis by score that passes or, missing
\* causal nodes, asks for more evidence; weak ones are passed over.
Ranked(verified) ==
    {i \in DOMAIN verified :
       /\ Eligible(verified[i])
       /\ \A j \in DOMAIN verified : Eligible(verified[j]) => verified[i].place <= verified[j].place}

\* Mutant: any supported hypothesis is accepted.
Diagnosable_Supported(s, h) ==
    \E i \in FirstOf(s.verified, h) : s.verified[i].status = "SUPPORTED"

\* The gates of submit_diagnosis and the agreement of the ranker.
Diagnosable(s, h) ==
    /\ \E i \in FirstOf(s.verified, h) :
          s.verified[i].status = "SUPPORTED" /\ s.verified[i].grade # "weak"
    /\ \E i \in Ranked(s.verified) : s.verified[i].id = h /\ s.verified[i].grade = "passes"

\* submit_diagnosis: SUPPORTED -> ACCEPTED in both ledgers, then PROPOSING; a service
\* that disagrees with the ledger fails the run.  An unknown mechanism is refused
\* whatever its scores.
Diagnosed(s, h, known) ==
    IF ~(Diagnosable(s, h) /\ known) THEN Corrected(s, "diagnosis")
    ELSE IF s.service[h] # "SUPPORTED" THEN [s EXCEPT !.selected = h, !.error = TRUE]
    ELSE Done([s EXCEPT
                 !.selected = h,
                 !.service[h] = "ACCEPTED",
                 !.verified = [i \in DOMAIN s.verified |->
                                 IF i \notin FirstOf(s.verified, h) THEN s.verified[i]
                                 ELSE [s.verified[i] EXCEPT !.status = "ACCEPTED"]],
                 !.status = AfterMove(@, "PROPOSING")], "diagnosis")

\* collect_*: what a source gave before is reused.
Collected(s, sources) ==
    [s EXCEPT !.sources = @ \union sources,
              !.status = IF @ = "COLLECTING" THEN "DIAGNOSING" ELSE @]

\* The record at index k is graded again, and its score moves to another place.
Moved(verified, k, place, grade) ==
    [j \in DOMAIN verified |->
        LET from == verified[k].place   at == verified[j].place
        IN IF j = k THEN [verified[k] EXCEPT !.place = place, !.grade = grade]
           ELSE [verified[j] EXCEPT !.place =
                   IF from < at /\ at <= place THEN at - 1
                   ELSE IF place <= at /\ at < from THEN at + 1 ELSE at]]

\* The grades a new score may give: the status stays.
Regrades(s, grade) ==
    IF grade \in {"open", "refuted"} THEN {grade} ELSE GradesFor(s.sources) \ {"open", "refuted"}

\* score_hypothesis_causality: a new score and new missing nodes for the first
\* record of one hypothesis, and thereby another order.
Rescored(s, h) ==
    IF Records(s.verified, h) = {} THEN {Corrected(s, "diagnosis")}
    ELSE UNION {{[s EXCEPT !.verified = Moved(@, k, place, g)] :
                    place \in DOMAIN s.verified, g \in Regrades(s, s.verified[k].grade)} :
                k \in FirstOf(s.verified, h)}

-----------------------------------------------------------------------------
(* Tools of the recovery agent and of the supervisor *)

\* submit_recovery_proposal: recorded; an earlier dry run is kept.
Proposed(s, p) == [s EXCEPT !.proposal = p]

\* dry_run_recovery_proposal succeeds on the proposal of its copy.
DryRun(s) ==
    IF s.proposal = None THEN Corrected(s, "recovery") ELSE [s EXCEPT !.dryRun = s.proposal]

\* accept_recovery_proposal: the dry run is of this proposal and, as far as the
\* cluster and the clock allow, fresh.
AcceptedRecovery(s) ==
    IF s.proposal = None \/ s.dryRun # s.proposal
      THEN Corrected(s, "recovery") ELSE Done(s, "recovery")

\* submit_supervisor_outcome.
OutcomeIsValid(s) ==
    \/ s.status = "NEEDS_ATTENTION"
    \/ s.status = "PROPOSING" /\ s.proposal # None /\ s.dryRun # None

Submitted(s) ==
    IF OutcomeIsValid(s) THEN Done(s, "supervisor") ELSE Corrected(s, "supervisor")

\* States a call may leave behind, whatever its arguments and its services do.
Effects(s, tool) ==
    CASE tool \in Sources -> {s} \union
           IF tool \in s.sources THEN {}
           ELSE {Collected(s, {}), Collected(s, {tool}), Corrected(s, "diagnosis")}
      [] tool = "reason" -> {s, Corrected(s, "diagnosis")}
      [] tool = "submit_hypotheses" -> {Recorded(s, hs) : hs \in Submissions}
      [] tool = "score_hypothesis_causality" -> UNION {Rescored(s, h) : h \in Hypotheses}
      [] tool = "submit_diagnosis" -> {Diagnosed(s, h, known) : h \in Hypotheses, known \in BOOLEAN}
      [] tool = "escalate_diagnosis" -> {Refused(s, "diagnosis")}
      [] tool = "submit_recovery_proposal" ->
           {Proposed(s, p) : p \in Proposals} \union {Corrected(s, "recovery")}
      [] tool = "dry_run_recovery_proposal" -> {DryRun(s), Corrected(s, "recovery")}
      [] tool = "accept_recovery_proposal" -> {AcceptedRecovery(s), Corrected(s, "recovery")}
      [] tool = "escalate_recovery" -> {Refused(s, "recovery")}
      [] tool = "submit_supervisor_outcome" -> {Submitted(s)}
      [] tool = "escalate_incident" -> {Refused(s, "supervisor")}

-----------------------------------------------------------------------------
(* Model turns *)

DiagnosisTools ==
    Sources \union {"reason", "submit_hypotheses", "verify_incident_hypotheses",
                    "score_hypothesis_causality", "submit_diagnosis", "escalate_diagnosis"}

RecoveryTools == {"submit_recovery_proposal", "dry_run_recovery_proposal",
                  "accept_recovery_proposal", "escalate_recovery"}

TerminalTools == {"submit_diagnosis", "escalate_diagnosis", "accept_recovery_proposal",
                  "escalate_recovery", "submit_supervisor_outcome", "escalate_incident"}

\* A source stands for the tool that collects from it; no other tool has its name.
ASSUME ToolNames ==
    Sources \intersect ({"reason", "submit_hypotheses", "verify_incident_hypotheses",
                         "score_hypothesis_causality", "diagnosis", "recovery"}
                        \union TerminalTools \union RecoveryTools) = {}

\* supervisorFilter.
SupervisorTools(s) ==
    {"escalate_incident"} \union
    CASE s.status = "NEEDS_ATTENTION" -> {"submit_supervisor_outcome"}
      [] s.status = "PROPOSING" /\ s.dryRun # None -> {"submit_supervisor_outcome"}
      [] s.status = "PROPOSING" /\ s.dryRun = None -> {"recovery"}
      [] OTHER -> {"diagnosis"}

\* BeforeModelRewriteState: what the model is offered.
Offered(s, a) ==
    LET tools == CASE a = "supervisor" -> SupervisorTools(s)
                   [] a = "diagnosis"  -> DiagnosisTools
                   [] a = "recovery"   -> RecoveryTools
    IN IF a \in s.done THEN {}
       ELSE IF RemainingTools(s, a) <= 1 THEN tools \intersect TerminalTools ELSE tools

\* AddIteration and, for the whole batch at once, ReserveTools.
Charged(s, a, calls) ==
    [s EXCEPT !.usage[a].iterations = @ + 1, !.usage[a].tools = @ + Len(calls)]

\* Mutant: a batch is let through when its first call fits.
Affordable_First(s, a, calls) ==
    /\ s.usage[a].iterations < MaxIterations[a]
    /\ calls = <<>> \/ RemainingTools(s, a) > 0

Affordable(s, a, calls) ==
    /\ s.usage[a].iterations < MaxIterations[a] /\ Len(calls) <= RemainingTools(s, a)

\* The agent waits for the model: no call of its batch is left.
AtModel(a) ==
    /\ run = "running" /\ agent = a /\ todo[a] = <<>>
    /\ a = "diagnosis" => flight = EmptyBag

\* handleAgentBudgetExhaustion: the run ends, in front of a human.
Exhausted(s, a) ==
    /\ state' = Done(Refused(s, a), "supervisor")
    /\ run' = "ended"
    /\ UNCHANGED <<agent, todo, flight>>

Started(tool) == [tool |-> tool, copy |-> None]

\* A turn that ends in tool calls.
ModelCalls(a, calls) ==
    /\ AtModel(a) /\ calls # <<>> /\ ToSet(calls) \subseteq Offered(state, a)
    /\ IF ~Affordable(state, a, calls)
         THEN Exhausted(IF state.usage[a].iterations < MaxIterations[a]
                          THEN Charged(state, a, <<>>) ELSE state, a)
         ELSE /\ state' = Charged(state, a, calls)
              /\ IF a = "diagnosis"
                   THEN /\ flight' = ToBag([i \in DOMAIN calls |-> Started(calls[i])])
                        /\ UNCHANGED todo
                   ELSE todo' = [todo EXCEPT ![a] = calls] /\ UNCHANGED flight
              /\ UNCHANGED <<run, agent>>

\* A turn without calls ends the agent: a specialist returns to the supervisor,
\* whose own end must have been earned by a terminal tool.
ModelEnds(a) ==
    /\ AtModel(a)
    /\ IF ~Affordable(state, a, <<>>) THEN Exhausted(state, a)
       ELSE /\ state' = Charged(state, a, <<>>)
            /\ IF a = "supervisor"
                 THEN /\ run' = IF a \in state.done THEN "ended" ELSE "failed"
                      /\ UNCHANGED <<agent, todo>>
                 ELSE /\ agent' = "supervisor"
                      /\ todo' = [todo EXCEPT !["supervisor"] = Tail(@)]
                      /\ UNCHANGED run
            /\ UNCHANGED flight

-----------------------------------------------------------------------------
(* Calls *)

\* A tool error ends the run.
After(s) ==
    /\ state' = [s EXCEPT !.error = FALSE]
    /\ run' = IF s.error THEN "failed" ELSE "running"

\* A call consumes the reservation of its identity; a second one with that identity,
\* or with none, is charged again.
Admitted(s, a) ==
    {s} \union
    IF RemainingTools(s, a) > 0 THEN {[s EXCEPT !.usage[a].tools = @ + 1]} ELSE {}

\* ... and, when nothing remains, ends the run, after the other calls of its batch.
CallUnaffordable(a) ==
    /\ run = "running" /\ agent = a /\ RemainingTools(state, a) = 0
    /\ IF a = "diagnosis" THEN BagCardinality(flight) = 1 ELSE todo[a] # <<>>
    /\ Exhausted(state, a)

\* The supervisor hands over to a specialist.
Delegate ==
    /\ run = "running" /\ agent = "supervisor" /\ todo["supervisor"] # <<>>
    /\ Head(todo["supervisor"]) \in {"diagnosis", "recovery"}
    /\ state' \in Admitted(state, "supervisor")
    /\ agent' = Head(todo["supervisor"])
    /\ UNCHANGED <<run, todo, flight>>

\* The next call of a sequential batch; its arguments may cross a boundary.
SequentialCall(a) ==
    /\ run = "running" /\ agent = a /\ todo[a] # <<>>
    /\ Head(todo[a]) \notin {"diagnosis", "recovery"}
    /\ \E s \in Admitted(state, a) :
       \E t \in Effects(s, Head(todo[a])) \union {Refused(s, a)} : After(t)
    /\ todo' = [todo EXCEPT ![a] = Tail(@)]
    /\ UNCHANGED <<agent, flight>>

\* The arguments of a delegation may cross a boundary too.
DelegationRefused ==
    /\ run = "running" /\ agent = "supervisor" /\ todo["supervisor"] # <<>>
    /\ Head(todo["supervisor"]) \in {"diagnosis", "recovery"}
    /\ \E s \in Admitted(state, "supervisor") : state' = Refused(s, "supervisor")
    /\ todo' = [todo EXCEPT !["supervisor"] = Tail(@)]
    /\ UNCHANGED <<run, agent, flight>>

\* The calls of a turn run in parallel, in any order.
InFlight(call) == run = "running" /\ call \in DOMAIN flight

Landed(call) == flight' = flight (-) SetToBag({call})

\* A call of the diagnosis agent with one critical section; any call's arguments may
\* cross a boundary.
ParallelCall(call) ==
    /\ InFlight(call) /\ call.copy = None
    /\ \E s \in Admitted(state, "diagnosis") :
          \/ call.tool # "verify_incident_hypotheses" /\ \E t \in Effects(s, call.tool) : After(t)
          \/ After(Refused(s, "diagnosis"))
    /\ Landed(call) /\ UNCHANGED <<agent, todo>>

\* verify_incident_hypotheses copies the ledger and releases the lock...
VerifyReads(call) ==
    /\ InFlight(call) /\ call.tool = "verify_incident_hypotheses" /\ call.copy = None
    /\ state' \in Admitted(state, "diagnosis")
    /\ flight' = (flight (-) SetToBag({call})) (+) SetToBag({[call EXCEPT !.copy = Copied(state)]})
    /\ UNCHANGED <<run, agent, todo>>

\* ... computes, and takes the lock again; without drafts, or when their evidence
\* is not current, it is corrected.
VerifyWrites(call) ==
    /\ InFlight(call) /\ call.copy # None
    /\ \/ After(Corrected(state, "diagnosis"))
       \/ /\ call.copy.drafts # <<>>
          /\ \E verdict \in Verdicts(call.copy.drafts, call.copy.sources) :
               After(Verified(state, call.copy, verdict))
    /\ Landed(call) /\ UNCHANGED <<agent, todo>>

\* A timeout of a specialist, or a model that fails after its retries.
CallFails ==
    /\ run = "running" /\ run' = "failed"
    /\ UNCHANGED <<state, agent, todo, flight>>

Batches(tools) == UNION {[1..n -> tools] : n \in 1..MaxBatch}

Turn(a) == ModelEnds(a) \/ \E calls \in Batches(Offered(state, a)) : ModelCalls(a, calls)

Calls ==
    \/ Delegate \/ DelegationRefused \/ CallFails \/ \E a \in Agents : CallUnaffordable(a)
    \/ SequentialCall("supervisor") \/ SequentialCall("recovery")
    \/ \E call \in DOMAIN flight :
         ParallelCall(call) \/ VerifyReads(call) \/ VerifyWrites(call)

AgentSteps == Calls \/ \E a \in Agents : Turn(a)

\* runConstrainedAgents starts the supervisor over the state of the workflow.
RunAgents(s) ==
    /\ state' = Restarted(s) /\ run' = "running" /\ agent' = "supervisor"
    /\ todo' = [a \in Agents |-> <<>>] /\ flight' = EmptyBag
-----------------------------------------------------------------------------
(* What holds of the agents at every step *)

WithinBudget(s) ==
    \A a \in Agents :
        /\ s.usage[a].iterations <= MaxIterations[a]
        /\ s.usage[a].tools <= MaxToolUses[a]
        /\ s.usage[a].corrections <= MaxCorrections[a]

\* A verdict that passes rests on evidence there was, and still is.
IsLedger(verified, sources) ==
    /\ verified \in Seq(VerifiedHypothesis)
    /\ \A i \in DOMAIN verified : verified[i].grade = "passes" => Corroborated(sources)

StateOK(s) ==
    /\ s \in WorkflowState /\ WithinBudget(s) /\ IsLedger(s.verified, s.sources)
    /\ s.status \in {"COLLECTING", "DIAGNOSING", "PROPOSING", "NEEDS_ATTENTION"}

\* A service that restarts over a ledger with two records of the hypothesis may not
\* remember the acceptance; the ledger does.
Accepted(s, h) ==
    \/ s.service[h] = "ACCEPTED"
    \/ \E i \in DOMAIN s.verified : s.verified[i].id = h /\ s.verified[i].status = "ACCEPTED"

\* The diagnosis was accepted, on corroborated evidence.
SelectionEarned(s) ==
    s.selected # None /\ Accepted(s, s.selected) /\ Corroborated(s.sources)

\* What the end of an agent rests on.
ResultEarned(s) ==
    /\ s.status = "PROPOSING" => SelectionEarned(s)
    /\ "supervisor" \in s.done => OutcomeIsValid(s)

SequentialTools(a) ==
    IF a = "supervisor"
      THEN {"diagnosis", "recovery", "submit_supervisor_outcome", "escalate_incident"}
      ELSE IF a = "recovery" THEN RecoveryTools ELSE {}

\* A call in flight, and what verify_incident_hypotheses copied for it.
IsCall(call, sources) ==
    /\ call = [tool |-> call.tool, copy |-> call.copy]
    /\ call.tool \in DiagnosisTools
    /\ call.copy # None =>
          /\ call.copy.drafts \in Seq(Hypotheses)
          /\ IsLedger(call.copy.verified, call.copy.sources)
          /\ call.copy.sources \subseteq sources

\* The diagnosis agent does not run, and will not.
NoDiagnosis ==
    agent # "diagnosis" /\ "diagnosis" \notin Range(todo["supervisor"]) /\ DOMAIN flight = {}

AgentsInv ==
    /\ run \in {"idle", "running", "ended", "failed"} /\ agent \in Agents
    /\ StateOK(state)
    /\ run = "running" => ~state.error /\ ResultEarned(state)
    /\ run = "running" /\ state.status = "PROPOSING" =>
          NoDiagnosis \/ state.service[state.selected] = "ACCEPTED"
    /\ run = "ended" => ResultEarned(state) /\ OutcomeIsValid(state)
    /\ DOMAIN todo = Agents
    /\ \A a \in Agents : todo[a] \in Seq(SequentialTools(a))
    /\ agent # "supervisor" => todo["supervisor"] # <<>>
    /\ \A call \in DOMAIN flight : IsCall(call, state.sources)
=============================================================================
