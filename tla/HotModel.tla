------------------------------ MODULE HotModel ------------------------------
(***************************************************************************)
(* The chat model that is reloaded while workflows run                     *)
(* (internal/model/hot_client.go) and the way the incident manager pins it *)
(* (internal/service/incidents.go, diagnose and resumeWorkflow).           *)
(*                                                                         *)
(* A poller and the readiness probe refresh one client under probeMu: they *)
(* load the configuration file, skip what was tried a moment ago, probe    *)
(* the candidate outside of the other mutex and then replace the active    *)
(* client.  A workflow takes the active client into its context and, in a  *)
(* second call, its hash into the incident; a resume finds the client of   *)
(* the recorded hash.  A client and the hash of its configuration are the  *)
(* configuration itself here.                                              *)
(***************************************************************************)
EXTENDS Integers

CONSTANTS
    Configs,        \* valid configurations
    Serving,        \* those whose endpoint answers the capability probe
    Workflows,
    MaxEdits,       \* bound: edits of the file
    MaxModelFaults, \* bound: probes that fail though the endpoint serves, and restarts
    NoClient, Invalid  \* no client, and a file that does not load

ASSUME ConfigsAssumption ==
    /\ Serving \subseteq Configs /\ NoClient \notin Configs /\ Invalid \notin Configs
    /\ MaxEdits \in Nat /\ MaxModelFaults \in Nat

VARIABLES
    file,       \* the configuration file: a configuration, or one that does not load
    active,     \* the client in use
    pinned,     \* pinnedByHash: configurations with a client in this process
    tried,      \* lastAttemptHash
    error,      \* lastError: none, of loading or of probing
    recent,     \* lastAttempt is less than retryEvery ago
    candidate,  \* what the holder of probeMu is probing
    phase,      \* of each workflow
    client,     \* the client in its context
    recorded,   \* ModelConfigHash of its incident, NoClient for the empty hash
    used,       \* history: configurations whose client the workflow was given to run on
    edits, modelFaults

hotVars == <<active, pinned, tried, error, recent, candidate>>

workflowVars == <<phase, client, recorded, used>>

modelVars == <<file, hotVars, workflowVars, edits, modelFaults>>

\* Nothing of the hot client survives a restart.
Fresh ==
    /\ active' = NoClient /\ pinned' = {} /\ tried' = NoClient /\ error' = "none" /\ recent' = FALSE
    /\ candidate' = NoClient

ModelInit ==
    /\ file \in Configs \union {Invalid}
    /\ active = NoClient /\ pinned = {} /\ tried = NoClient /\ error = "none" /\ recent = FALSE
    /\ candidate = NoClient
    /\ phase = [w \in Workflows |-> "new"] /\ client = [w \in Workflows |-> NoClient]
    /\ recorded = [w \in Workflows |-> NoClient] /\ used = [w \in Workflows |-> {}]
    /\ edits = 0 /\ modelFaults = 0

ModelFault == modelFaults < MaxModelFaults /\ modelFaults' = modelFaults + 1

-----------------------------------------------------------------------------
(* The file and the clock *)

Edit ==
    /\ edits < MaxEdits /\ edits' = edits + 1
    /\ \E f \in Configs \union {Invalid} : f # file /\ file' = f
    /\ UNCHANGED <<hotVars, workflowVars, modelFaults>>

Elapse ==
    /\ recent /\ recent' = FALSE
    /\ UNCHANGED <<file, active, pinned, tried, error, candidate, workflowVars, edits, modelFaults>>
-----------------------------------------------------------------------------
(* refresh: the first one of Run and those of Probe are forced *)

\* The file does not load: the active client stays.
LoadFails(forced) ==
    /\ candidate = NoClient /\ file = Invalid
    /\ forced \/ error # "load" \/ ~recent
    /\ recent' = TRUE /\ error' = "load"
    /\ UNCHANGED <<file, active, pinned, tried, candidate, workflowVars, edits, modelFaults>>

\* The file is the active configuration: nothing to do, and no error any more.
Unchanged ==
    /\ candidate = NoClient /\ file # Invalid /\ active = file
    /\ error' = "none"
    /\ UNCHANGED <<file, active, pinned, tried, recent, candidate, workflowVars, edits, modelFaults>>

\* Mutant: a configuration that failed is never tried again.
Throttled_ForEver == tried = file

\* The same configuration was tried a moment ago.
Throttled == tried = file /\ recent

\* Any other configuration is tried.
Attempt(forced) ==
    /\ candidate = NoClient /\ file # Invalid
    /\ forced \/ (active # file /\ ~Throttled)
    /\ tried' = file /\ recent' = TRUE /\ candidate' = file
    /\ UNCHANGED <<file, active, pinned, error, workflowVars, edits, modelFaults>>

ProbeFails ==
    /\ candidate # NoClient
    /\ IF candidate \in Serving THEN ModelFault ELSE UNCHANGED modelFaults
    /\ error' = "probe" /\ candidate' = NoClient
    /\ UNCHANGED <<file, active, pinned, tried, recent, workflowVars, edits>>

\* Mutant: what is in the file by now is activated.
Activate_File ==
    /\ candidate \in Serving /\ file # Invalid
    /\ active' = file /\ pinned' = pinned \union {file}
    /\ error' = "none" /\ candidate' = NoClient
    /\ UNCHANGED <<file, tried, recent, workflowVars, edits, modelFaults>>

\* The candidate that answered the probe replaces the active client.
Activate ==
    /\ candidate \in Serving
    /\ active' = candidate /\ pinned' = pinned \union {candidate}
    /\ error' = "none" /\ candidate' = NoClient
    /\ UNCHANGED <<file, tried, recent, workflowVars, edits, modelFaults>>

RefreshModel(forced) == LoadFails(forced) \/ (~forced /\ Unchanged) \/ Attempt(forced)

Probe == ProbeFails \/ Activate
-----------------------------------------------------------------------------
(* Workflows *)

\* diagnose: WithSnapshot puts the active client, or none, into the context.
WithSnapshot(w) ==
    /\ phase[w] = "new"
    /\ client' = [client EXCEPT ![w] = active]
    /\ phase' = [phase EXCEPT ![w] = "pinned"]
    /\ UNCHANGED <<file, hotVars, recorded, used, edits, modelFaults>>

\* diagnose: after reading the incident, SnapshotIdentity locks again.
SnapshotIdentity(w) ==
    /\ phase[w] = "pinned"
    /\ recorded' = [recorded EXCEPT ![w] = active]
    /\ used' = [used EXCEPT ![w] = @ \union {client[w]}]
    /\ phase' = [phase EXCEPT ![w] = "running"]
    /\ UNCHANGED <<file, hotVars, client, edits, modelFaults>>

\* The supervisor interrupts for the approval; its context ends here.
Await(w) ==
    /\ phase[w] = "running" /\ client[w] # NoClient
    /\ client' = [client EXCEPT ![w] = NoClient]
    /\ phase' = [phase EXCEPT ![w] = "awaiting"]
    /\ UNCHANGED <<file, hotVars, recorded, used, edits, modelFaults>>

\* resumeWorkflow: WithSnapshotHash, or NEEDS_ATTENTION when this process has no
\* client of the recorded hash.
ResumeWorkflow(w) ==
    /\ phase[w] = "awaiting"
    /\ IF recorded[w] \in pinned
         THEN /\ client' = [client EXCEPT ![w] = recorded[w]]
              /\ used' = [used EXCEPT ![w] = @ \union {recorded[w]}]
              /\ phase' = [phase EXCEPT ![w] = "resumed"]
         ELSE phase' = [phase EXCEPT ![w] = "refused"] /\ UNCHANGED <<client, used>>
    /\ UNCHANGED <<file, hotVars, recorded, edits, modelFaults>>

\* Running workflows die with the server; incidents that wait do not.
RestartServer ==
    /\ ModelFault /\ Fresh
    /\ phase' = [w \in Workflows |-> IF phase[w] \in {"pinned", "running"} THEN "lost" ELSE phase[w]]
    /\ client' = [w \in Workflows |-> NoClient]
    /\ UNCHANGED <<file, recorded, used, edits>>

Workflow(w) == WithSnapshot(w) \/ SnapshotIdentity(w) \/ Await(w) \/ ResumeWorkflow(w)

ModelNext ==
    \/ Edit \/ Elapse \/ Probe \/ RestartServer
    \/ \E forced \in BOOLEAN : RefreshModel(forced)
    \/ \E w \in Workflows : Workflow(w)

\* The ticker of Run refreshes, probes have a timeout and time passes.
ModelFairness ==
    WF_modelVars(RefreshModel(FALSE)) /\ WF_modelVars(Probe) /\ WF_modelVars(Elapse)

ModelSpec == ModelInit /\ [][ModelNext]_modelVars /\ ModelFairness
-----------------------------------------------------------------------------
(* Properties *)

\* Whatever is edited while a probe is out and however it fails, the client in
\* use and every client a resume can get answered the probe, and a workflow only
\* ever runs on those or, when none was active yet, on none at all.
ServedModelIsProbed ==
    /\ {active} \union pinned \subseteq Serving \union {NoClient}
    /\ active # NoClient => active \in pinned
    /\ \A w \in Workflows : used[w] \subseteq Serving \union {NoClient}

\* An edit of the file takes effect: once the file stays at a configuration that
\* serves, that one becomes and stays the client in use, also when its
\* first probe failed.
GoodFileIsServed ==
    \A c \in Serving : <>[](file = c) => <>[](active = c)
=============================================================================
