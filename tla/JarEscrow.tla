----------------------------- MODULE JarEscrow -----------------------------
(***************************************************************************)
(* What a jar promises, without fees, venues, balances or bookkeeping.     *)
(*                                                                         *)
(* Donors pledge to an open jar.  Its owner either takes the money, which  *)
(* ends every donor's claim, or calls it off, and then each donor gets the *)
(* whole pledge back, once.  A locked jar can be called off only before    *)
(* its unlock time and taken only from then on, so the two never race.     *)
(* A jar leaves only when no donor has a pledge recorded against it, and   *)
(* never comes back.                                                       *)
(***************************************************************************)
EXTENDS Naturals

CONSTANTS Jars, Donors,
          Amounts,      \* what a donor may pledge at once
          Times         \* unlock times, and the times that come

VARIABLES
    time,
    phase,      \* per jar: "None", "Active", "Withdrawn" or "Cancelled"
    lock,       \* per jar: its unlock time, 0 when it has none
    pledge,     \* per jar and donor: recorded and not yet returned
    retired     \* jars that have come and gone

escrowVars == <<time, phase, lock, pledge, retired>>

EscrowInit ==
    /\ time = 0
    /\ phase = [j \in Jars |-> "None"]
    /\ lock = [j \in Jars |-> 0]
    /\ pledge = [j \in Jars |-> [d \in Donors |-> 0]]
    /\ retired = {}

Open(j, t) ==
    /\ phase[j] = "None"
    /\ j \notin retired
    /\ t = 0 \/ t > time
    /\ phase' = [phase EXCEPT ![j] = "Active"]
    /\ lock' = [lock EXCEPT ![j] = t]
    /\ UNCHANGED <<time, pledge, retired>>

Pledge(j, d, amount) ==
    /\ phase[j] = "Active"
    /\ amount > 0
    /\ pledge' = [pledge EXCEPT ![j][d] = @ + amount]
    /\ UNCHANGED <<time, phase, lock, retired>>

Take(j) ==
    /\ phase[j] = "Active"
    /\ time >= lock[j]
    /\ phase' = [phase EXCEPT ![j] = "Withdrawn"]
    /\ UNCHANGED <<time, lock, pledge, retired>>

CallOff(j) ==
    /\ phase[j] = "Active"
    /\ time < lock[j]
    /\ phase' = [phase EXCEPT ![j] = "Cancelled"]
    /\ UNCHANGED <<time, lock, pledge, retired>>

\* A pledge leaves the books whole: paid back after a cancellation, or
\* cleared after the owner took the money.
Clear(j, d) ==
    /\ phase[j] \in {"Withdrawn", "Cancelled"}
    /\ pledge[j][d] > 0
    /\ pledge' = [pledge EXCEPT ![j][d] = 0]
    /\ UNCHANGED <<time, phase, lock, retired>>

Retire(j) ==
    /\ phase[j] \in {"Withdrawn", "Cancelled"}
    /\ \A d \in Donors : pledge[j][d] = 0
    /\ phase' = [phase EXCEPT ![j] = "None"]
    /\ lock' = [lock EXCEPT ![j] = 0]
    /\ retired' = retired \union {j}
    /\ UNCHANGED <<time, pledge>>

Elapse ==
    /\ time' \in Times
    /\ time' > time
    /\ UNCHANGED <<phase, lock, pledge, retired>>

EscrowNext ==
    \/ \E j \in Jars :
          \/ \E t \in Times : Open(j, t)
          \/ Take(j) \/ CallOff(j) \/ Retire(j)
          \/ \E d \in Donors :
                \/ \E amount \in Amounts : Pledge(j, d, amount)
                \/ Clear(j, d)
    \/ Elapse

EscrowSpec == EscrowInit /\ [][EscrowNext]_escrowVars
============================================================================
