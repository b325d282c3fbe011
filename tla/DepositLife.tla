----------------------------- MODULE DepositLife -----------------------------
(***************************************************************************)
(* The life of a card deposit: the moves the status of its row makes until *)
(* the deposit is disturbed, by two requests that hold it at a time or by  *)
(* a fault in one at work on it; nothing is promised of it from then on.   *)
(* CardRelay implements this.                                              *)
(***************************************************************************)
CONSTANT Deposits

VARIABLE status     \* per deposit: the status of its row, "none" without one

Statuses == {"none", "pending", "funded", "contributed", "failed", "disturbed"}

\* A report of failure may follow the contribution, and a report of completion
\* the failure; nothing makes a contributed deposit funded again.
After == [ none        |-> {"pending"},
           pending     |-> {"funded", "failed"},
           funded      |-> {"contributed", "failed"},
           contributed |-> {"failed"},
           failed      |-> {"funded"},
           disturbed   |-> {} ]

Init == status = [d \in Deposits |-> "none"]

Move(d) == \E s \in After[status[d]] : status' = [status EXCEPT ![d] = s]

\* A sweep may disturb all the deposits it selects.
Disturb(ds) ==
    /\ \A d \in ds : status[d] # "none"
    /\ status' = [d \in Deposits |-> IF d \in ds THEN "disturbed" ELSE status[d]]

Next ==
    \/ \E d \in Deposits : Move(d)
    \/ \E ds \in SUBSET Deposits : Disturb(ds)

Spec == Init /\ [][Next]_status
============================================================================
