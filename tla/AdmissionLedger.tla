-------------------------- MODULE AdmissionLedger --------------------------
(***************************************************************************)
(* What the control plane promises about operator requests, with no        *)
(* workers, evidence, failures or restarts: a request identity is admitted *)
(* at most once and for an idempotency key of its own, it is offered to a  *)
(* worker at most once and only if it was not refused, and once refused or *)
(* closed it stays so.                                                     *)
(***************************************************************************)
CONSTANTS Ids, Keys, NoKey

VARIABLES
    status,     \* request id -> where it stands
    key         \* request id -> the idempotency key it was admitted under

ledger == <<status, key>>

Statuses == {"new", "admitted", "refused", "offered", "closed"}

Init ==
    /\ status = [i \in Ids |-> "new"]
    /\ key = [i \in Ids |-> NoKey]

Move(i, from, to) ==
    /\ status[i] = from
    /\ status' = [status EXCEPT ![i] = to]

Admit(i, k) ==
    /\ Move(i, "new", "admitted")
    /\ \A j \in Ids : key[j] # k
    /\ key' = [key EXCEPT ![i] = k]

Refuse(i) == Move(i, "admitted", "refused") /\ UNCHANGED key
Offer(i) == Move(i, "admitted", "offered") /\ UNCHANGED key
Close(i) == Move(i, "offered", "closed") /\ UNCHANGED key

Next ==
    \E i \in Ids :
        \/ \E k \in Keys : Admit(i, k)
        \/ Refuse(i)
        \/ Offer(i)
        \/ Close(i)

Spec == Init /\ [][Next]_ledger
=============================================================================
