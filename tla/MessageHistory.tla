--------------------------- MODULE MessageHistory ---------------------------
(***************************************************************************)
(* The Brain's conversation (state.BrainMessages) and the part of it that  *)
(* each model call is shown (agent/brain_graph.go).  A provider refuses a  *)
(* request in which a tool call has no result or a result no call, so the  *)
(* history is cut along units: a message, with the results of its calls.   *)
(*                                                                         *)
(* A message is [role, calls, size]: an assistant's calls are call IDs, a  *)
(* tool message has the one it answers, and size is what brainMessageSize  *)
(* makes of it, in KB.  Messages that are empty never get here: the model  *)
(* node does not store them (brain_graph.go:93).                           *)
(***************************************************************************)
EXTENDS Integers, Sequences, FiniteSets, SequencesExt, FiniteSetsExt

CONSTANTS
    MaxMessages,     \* messages of the history: 6 (brain_graph.go:389)
    MaxSize,         \* its size: 24 KB
    ResultSizes,     \* sizes a tool result may have
    MaxParallel,     \* Limits.MaxParallelReadTools
    MaxToolCalls,    \* Limits.MaxToolCalls
    MaxCorrections,  \* Limits.MaxStructuredCorrections
    MaxBatch,        \* bound: calls of one assistant message
    MaxTurns         \* bound: turns of the model

ASSUME HistoryAssumption ==
    /\ MaxMessages \in Nat /\ MaxSize \in Nat /\ ResultSizes \subseteq Nat
    /\ MaxParallel \in Nat /\ MaxToolCalls \in Nat /\ MaxCorrections \in Nat
    /\ MaxBatch \in Nat /\ MaxTurns \in Nat

VARIABLES
    transcript,      \* state.BrainMessages
    shown,           \* the history in the last request
    stage,           \* the node that runs next
    calls,           \* the calls of the message in flight
    turns,           \* model turns so far
    used,            \* Usage.ToolCalls
    corrections      \* Usage.StructuredCorrections

historyVars == <<transcript, shown, stage, calls, turns, used, corrections>>

Message(role, ids, size) == [role |-> role, calls |-> ids, size |-> size]

Answers(message, request) ==
    message.role = "tool" /\ message.calls[1] \in ToSet(request.calls)
-----------------------------------------------------------------------------
\* The messages from i on that answer message i form a unit with it.
UnitEnd(messages, i) ==
    Max({j \in i..Len(messages) : \A k \in (i + 1)..j : Answers(messages[k], messages[i])})

\* completeBrainMessageUnits: the intervals of the units; results without a
\* request are in none, and neither is a request that lacks a result.
Units(messages) ==
    {unit \in {<<i, UnitEnd(messages, i)>> : i \in {i \in DOMAIN messages : messages[i].role # "tool"}} :
        messages[unit[1]].role = "assistant" => unit[2] - unit[1] = Len(messages[unit[1]].calls)}

\* The messages of the units that begin at position from or later.
Since(messages, from) ==
    LET kept == UNION {unit[1]..unit[2] : unit \in {u \in Units(messages) : u[1] >= from}}
    IN  [k \in 1..Cardinality(kept) |->
            messages[CHOOSE i \in kept : Cardinality({j \in kept : j <= i}) = k]]

Size(messages) == MapThenSumSet(LAMBDA k : messages[k].size, DOMAIN messages)

\* boundedBrainMessageHistory: units are taken from the newest back to the first
\* that does not fit.
History(messages) ==
    LET fitting == {from \in 1..(Len(messages) + 1) :
                       /\ Len(Since(messages, from)) <= MaxMessages
                       /\ Size(Since(messages, from)) <= MaxSize}
    IN  Since(messages, Min(fitting))
-----------------------------------------------------------------------------
HistoryInit ==
    /\ transcript = <<>> /\ shown = <<>> /\ calls = <<>>
    /\ stage = "context" /\ turns = 0 /\ used = 0 /\ corrections = 0

\* contextBuilder.
BuildContext ==
    /\ stage = "context" /\ turns < MaxTurns
    /\ shown' = History(transcript)
    /\ stage' = "model"
    /\ UNCHANGED <<transcript, calls, turns, used, corrections>>

\* The model node stores its answer unless it has neither content nor calls, and
\* hands the same message on.
Generate(prose, batch) ==
    /\ stage = "model"
    /\ calls' = [k \in 1..batch |-> <<turns, k>>]
    /\ transcript' = IF prose \/ batch > 0
                     THEN Append(transcript, Message("assistant", calls', 1)) ELSE transcript
    /\ turns' = turns + 1
    /\ stage' = "gateway"
    /\ UNCHANGED <<shown, used, corrections>>

\* How many of the calls actionGateway lets through.
Allowed(batch, reading) ==
    LET parallel == IF reading THEN Min({batch, MaxParallel}) ELSE batch
    IN  Min({parallel, Max({1, MaxToolCalls - used})})

\* Mutant: the gateway cuts a copy, and the conversation keeps all calls.
ActionGateway_Copy(reading) ==
    /\ stage = "gateway"
    /\ calls' = SubSeq(calls, 1, Allowed(Len(calls), reading))
    /\ stage' = IF calls = <<>> THEN "prose" ELSE "tools"
    /\ UNCHANGED <<transcript, shown, turns, used, corrections>>

\* actionGateway cuts the batch in the message the conversation holds.
ActionGateway(reading) ==
    /\ stage = "gateway"
    /\ calls' = SubSeq(calls, 1, Allowed(Len(calls), reading))
    /\ transcript' = IF calls = <<>> THEN transcript
                     ELSE [transcript EXCEPT ![Len(transcript)].calls = calls']
    /\ stage' = IF calls = <<>> THEN "prose" ELSE "tools"
    /\ UNCHANGED <<shown, turns, used, corrections>>

Charged == Min({MaxToolCalls, used + Len(calls)})

Results(sizes) == [k \in DOMAIN calls |-> Message("tool", <<calls[k]>>, sizes[k])]

\* The tools run and classifyToolResults stores one message for each call.
Execute(sizes) ==
    /\ stage = "tools"
    /\ transcript' = transcript \o Results(sizes)
    /\ used' = Charged
    /\ stage' = "context"
    /\ UNCHANGED <<shown, calls, turns, corrections>>

\* A correction is a message of the user's, or the loop ends.
Corrected(messages) ==
    IF corrections < MaxCorrections
    THEN /\ transcript' = Append(messages, Message("user", <<>>, 1))
         /\ corrections' = corrections + 1
         /\ stage' = "context"
    ELSE transcript' = messages /\ stage' = "ended" /\ UNCHANGED corrections

\* handleInvalidToolArguments: one bad call rejects the batch, every call gets a
\* result.
Reject ==
    /\ stage = "tools"
    /\ Corrected(transcript \o Results([k \in DOMAIN calls |-> 1]))
    /\ used' = Charged
    /\ UNCHANGED <<shown, calls, turns>>

\* handleUnstructured: an answer without a call.
Unstructured ==
    /\ stage = "prose"
    /\ Corrected(transcript)
    /\ UNCHANGED <<shown, calls, turns, used>>

HistoryNext ==
    \/ BuildContext
    \/ \E prose \in BOOLEAN, batch \in 0..MaxBatch : Generate(prose, batch)
    \/ \E reading \in BOOLEAN : ActionGateway(reading)
    \/ \E sizes \in [DOMAIN calls -> ResultSizes] : Execute(sizes)
    \/ Reject
    \/ Unstructured

HistorySpec == HistoryInit /\ [][HistoryNext]_historyVars
-----------------------------------------------------------------------------
\* In what a model is shown every call has its results, right behind it and one
\* each, no result is without a call, and the limits are kept.
NothingUnanswered ==
    /\ Len(shown) <= MaxMessages /\ Size(shown) <= MaxSize
    /\ \A k \in DOMAIN shown :
          /\ shown[k].role = "assistant" =>
                \A c \in DOMAIN shown[k].calls :
                    /\ k + c \in DOMAIN shown /\ shown[k + c].role = "tool"
                    /\ shown[k + c].calls = <<shown[k].calls[c]>>
          /\ shown[k].role = "tool" => \E j \in 1..(k - 1) : Answers(shown[k], shown[j])

\* The exchange of the last turn: its message and all that came after it.
LastExchange ==
    LET requests == {i \in DOMAIN transcript : transcript[i].role = "assistant"}
    IN  IF requests = {} THEN <<>> ELSE SubSeq(transcript, Max(requests), Len(transcript))

\* A model is shown a well-formed history, and one that ends with the exchange
\* of the last turn when that fits: the gateway, the tools, the guards and the
\* history each count calls for themselves, and a call they disagree about would
\* hide the newest results from the Brain (brain_graph.go:402, 762).
HistoryIsFaithful ==
    /\ NothingUnanswered
    /\ stage = "model" /\ Len(LastExchange) <= MaxMessages /\ Size(LastExchange) <= MaxSize
       => IsSuffix(LastExchange, shown)
=============================================================================
