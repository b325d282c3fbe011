------------------------------- MODULE MCPage -------------------------------
(***************************************************************************)
(* Small instances of two pages for TLC: in some behaviours the wizard,    *)
(* until it hands over what was filled in, in the others a jar's page.     *)
(***************************************************************************)
EXTENDS CreateWizard, JarPage, TLC

VARIABLE looking

MCInit ==
    /\ Init /\ PageInit
    /\ looking \in {"wizard", "jar"}
    /\ looking = "wizard" => kind = CHOOSE k \in Kinds : TRUE

MCNext ==
    \/ /\ looking = "wizard" /\ status # "done"   \* bound: it is left after that
       /\ Next
       /\ UNCHANGED <<looking, pageVars>>
    \/ /\ looking = "jar"
       /\ PageNext
       /\ UNCHANGED <<looking, vars>>

MCSpec == MCInit /\ [][MCNext]_<<looking, vars, pageVars>>

AwaySymmetry == Permutations(Away)

\* After the last press nothing reads what the jar's pages show.
WhileWatched ==
    IF Len(calls) < MaxCalls THEN <<looking, vars, pageVars>>
    ELSE <<looking, vars, kind, unlocked, history, flight, landed, refused, indexed,
           bucket, calls>>
=============================================================================
