--------------------------- MODULE IncidentStatus ---------------------------
(***************************************************************************)
(* The incident status machine every other module moves incidents through: *)
(* internal/domain/incident.go (constants, the transitions table, and      *)
(* Transition).                                                            *)
(***************************************************************************)

Status == {"RECEIVED", "CORRELATING", "COLLECTING", "DIAGNOSING", "PROPOSING",
           "AWAITING_APPROVAL", "RECOVERING", "VERIFYING", "RESOLVED",
           "NEEDS_ATTENTION", "REJECTED", "RECOVERY_FAILED", "CANCELLED"}

\* Mutant: the table lets a failed recovery fall back to NEEDS_ATTENTION.
Successors_FailedToAttention(s) ==
    CASE s = "RECEIVED"    -> {"CORRELATING", "NEEDS_ATTENTION", "CANCELLED"}
      [] s = "CORRELATING" -> {"COLLECTING", "NEEDS_ATTENTION", "CANCELLED"}
      [] s = "COLLECTING"  -> {"DIAGNOSING", "NEEDS_ATTENTION", "CANCELLED"}
      [] s = "DIAGNOSING"  -> {"COLLECTING", "PROPOSING", "NEEDS_ATTENTION", "CANCELLED"}
      [] s = "PROPOSING"   -> {"DIAGNOSING", "AWAITING_APPROVAL", "NEEDS_ATTENTION", "CANCELLED"}
      [] s = "AWAITING_APPROVAL" -> {"RECOVERING", "NEEDS_ATTENTION", "REJECTED", "CANCELLED"}
      [] s = "RECOVERING"  -> {"VERIFYING", "NEEDS_ATTENTION", "RECOVERY_FAILED"}
      [] s = "VERIFYING"   -> {"RESOLVED", "NEEDS_ATTENTION", "RECOVERY_FAILED"}
      [] s = "NEEDS_ATTENTION" -> {"RECEIVED"}
      [] s = "RECOVERY_FAILED" -> {"RECEIVED", "NEEDS_ATTENTION"}
      [] OTHER -> {}

\* The successors the transitions table lists for one status.
Successors(s) ==
    CASE s = "RECEIVED"    -> {"CORRELATING", "NEEDS_ATTENTION", "CANCELLED"}
      [] s = "CORRELATING" -> {"COLLECTING", "NEEDS_ATTENTION", "CANCELLED"}
      [] s = "COLLECTING"  -> {"DIAGNOSING", "NEEDS_ATTENTION", "CANCELLED"}
      [] s = "DIAGNOSING"  -> {"COLLECTING", "PROPOSING", "NEEDS_ATTENTION", "CANCELLED"}
      [] s = "PROPOSING"   -> {"DIAGNOSING", "AWAITING_APPROVAL", "NEEDS_ATTENTION", "CANCELLED"}
      [] s = "AWAITING_APPROVAL" -> {"RECOVERING", "NEEDS_ATTENTION", "REJECTED", "CANCELLED"}
      [] s = "RECOVERING"  -> {"VERIFYING", "NEEDS_ATTENTION", "RECOVERY_FAILED"}
      [] s = "VERIFYING"   -> {"RESOLVED", "NEEDS_ATTENTION", "RECOVERY_FAILED"}
      [] s \in {"NEEDS_ATTENTION", "RECOVERY_FAILED"} -> {"RECEIVED"}
      [] OTHER -> {}

\* Transition succeeds: the move is a no-op or the table lists it.
CanMove(from, to) == from = to \/ to \in Successors(from)

\* The status after Transition when its error is discarded by the caller.
AfterMove(from, to) == IF CanMove(from, to) THEN to ELSE from
=============================================================================
