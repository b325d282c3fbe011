----------------------------- MODULE Dashboard -----------------------------
(***************************************************************************)
(* The owner's dashboard (DashboardClient): rows of the cache, completed   *)
(* by the jars that only the chain knows, read again every twenty seconds, *)
(* and what the tabs, the search and the figures make of them.  Where the  *)
(* rows come from is the business of the module that extends this one.     *)
(***************************************************************************)
EXTENDS FiniteSets

VARIABLE board      \* the rows last read

EmptyBoard == {}

\* The cache knows no lock: a locked jar is an active one there.
CachedRow(jar, account) ==
    [jar |-> jar, status |-> account.status, titled |-> TRUE]

ChainStatus(account, locked) ==
    IF account.status = "active" /\ locked THEN "locked" ELSE account.status

ChainRow(jar, account, locked) ==
    [jar |-> jar, status |-> ChainStatus(account, locked), titled |-> FALSE]

\* Mutation: the rows on the screen win over the ones just read.
MergeOld(cached, onChain) ==
    board \union {r \in cached \union onChain : \A o \in board : o.jar # r.jar}

Merge(cached, onChain) ==
    cached \union {r \in onChain : \A c \in cached : c.jar # r.jar}

\* A read that failed counts as one without rows.
Load(cached, onChain) == board' = Merge(cached, onChain)

---------------------------------------------------------------------------
(* The screen.                                                             *)

Tabs == {"all", "active", "locked", "completed"}
Views == {"list", "grid"}

Completed(row) == row.status = "withdrawn"

InTab(row, tab) ==
    CASE tab = "all" -> TRUE
      [] tab = "completed" -> Completed(row)
      [] OTHER -> row.status = tab

\* A search finds titles, which rows from the chain lack.
Filtered(tab, searching) ==
    {row \in board : InTab(row, tab) /\ (searching => row.titled)}

Label == [ locked |-> "Locked", active |-> "Active", withdrawn |-> "Done",
           cancelled |-> "Cancelled" ]

Name(row) == IF row.titled THEN "its title" ELSE "Untitled jar"

\* A jar as a line of the list and as a card of the grid; figures left out.
JarRow(row) == [link |-> row.jar, name |-> Name(row), label |-> Label[row.status]]
JarCard(row) == [link |-> row.jar, name |-> Name(row), label |-> Label[row.status]]

Entry(view, row) == IF view = "list" THEN JarRow(row) ELSE JarCard(row)

\* The numbers on the tabs and above them.
Counts == [tab \in Tabs |-> Cardinality(Filtered(tab, FALSE))]
GoalsReached == Cardinality({row \in board : Completed(row)})

Screen(tab, searching) ==
    CASE board = EmptyBoard -> "No jars yet"
      [] board # EmptyBoard /\ Filtered(tab, searching) = {} ->
           "No jars match this filter."
      [] OTHER -> "rows"
============================================================================
