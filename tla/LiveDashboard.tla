---------------------------- MODULE LiveDashboard ----------------------------
(***************************************************************************)
(* The dashboard beside the indexer: the owner's screen reads the rows the *)
(* indexer keeps and the jars the chain holds, twenty seconds apart, while *)
(* runs come and go.  The one jar is flexible or past its lock, so that    *)
(* "locked" does not occur.                                                *)
(***************************************************************************)
EXTENDS Indexer, Dashboard

JarAddress == "jar"

Account(status) == [status |-> status]

StatusOnChain ==
    CASE Has("cancel") -> "cancelled"
      [] ~Has("cancel") /\ (JarOpen \/ ~Has("create")) -> "active"
      [] OTHER -> "withdrawn"

GetJarsByOwner ==
    IF jarRow.status = "none" THEN {}
    ELSE {CachedRow(JarAddress, Account(jarRow.status))}

FetchJarsByOwner ==
    IF ~Has("create") THEN {}
    ELSE {ChainRow(JarAddress, Account(StatusOnChain), FALSE)}

\* Both reads may fail; they are answered together.
Revalidate ==
    /\ \E cached \in {GetJarsByOwner, {}}, onChain \in {FetchJarsByOwner, {}} :
         Load(cached, onChain)
    /\ UNCHANGED vars

LiveInit == Init /\ board = EmptyBoard

LiveNext ==
    \/ Next /\ UNCHANGED board
    \/ Revalidate

\* The indexer's fairness, and a dashboard that stays open.
LiveSpec ==
    /\ LiveInit /\ [][LiveNext]_<<vars, board>>
    /\ \A r \in Runs : WF_vars(Begin(r)) /\ WF_vars(Proceed(r))
    /\ WF_<<vars, board>>(Revalidate)

\* Whichever source a jar's row comes from, and although the cache's row wins
\* over the chain's, the dashboard ends up showing a jar's end, whatever tab and
\* view are chosen: a cancelled jar as "Cancelled" and under no tab but "All", an
\* emptied one as "Done", counted once and as completed; unless the transaction
\* that says so could not be read by the indexer.
BoardCatchesUp ==
    <>[](\A row \in board, view \in Views :
            /\ Read("create") /\ Read("cancel") =>
                  /\ Entry(view, row).label = "Cancelled"
                  /\ \A tab \in Tabs \ {"all"} : Screen(tab, FALSE) # "rows"
            /\ Read("create") /\ Read("withdraw") /\ ~JarOpen =>
                  /\ Entry(view, row).label = "Done"
                  /\ Counts["active"] + Counts["locked"] = 0
                  /\ Counts["completed"] = GoalsReached /\ Counts["all"] = 1)
==============================================================================
