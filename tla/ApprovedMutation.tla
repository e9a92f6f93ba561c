-------------------------- MODULE ApprovedMutation --------------------------
(***************************************************************************)
(* What the recovery path promises the operators of a cluster: nothing is  *)
(* written before an operator approves it, and one approval, identified by *)
(* its idempotency key, is worth at most one write, whatever becomes of it.*)
(***************************************************************************)

CONSTANT Keys

VARIABLES
    approvals,  \* the keys an operator approved
    write       \* what became of the write of each key; {} before it is sent

vars == <<approvals, write>>

TypeOK ==
    /\ approvals \subseteq Keys
    /\ write \in [Keys -> {{}, {"sent"}, {"applied"}, {"dropped"}}]

Init ==
    /\ approvals = {}
    /\ write = [k \in Keys |-> {}]

Approve(k) ==
    /\ approvals' = approvals \union {k}
    /\ UNCHANGED write

Send(k) ==
    /\ k \in approvals
    /\ write[k] = {}
    /\ write' = [write EXCEPT ![k] = {"sent"}]
    /\ UNCHANGED approvals

Settle(k, fate) ==
    /\ write[k] = {"sent"}
    /\ write' = [write EXCEPT ![k] = {fate}]
    /\ UNCHANGED approvals

Next == \E k \in Keys : \/ Approve(k) \/ Send(k)
                        \/ \E fate \in {"applied", "dropped"} : Settle(k, fate)

Spec == Init /\ [][Next]_vars
=============================================================================
