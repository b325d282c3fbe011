----------------------------- MODULE MCIndexer -----------------------------
(* Small instances of the indexer for TLC. *)
EXTENDS Indexer, TLC

\* For the safety runs only, where no donor is relayed.
RunAndDonorSymmetry == Permutations(Runs) \union Permutations(Donors)

\* A run's fields that some later step still reads; the others are left over.
LiveFields(r) ==
    LET at(places, field) == IF run[r].pc \in places THEN field ELSE {}
        donorSteps == {"readDonor", "writeDonor", "readTotal", "writeTotal"}
    IN  << run[r].pc, run[r].sigs, run[r].direct,
           at({"list", "listDirect"}, {run[r].since}),
           at({"phase1", "apply", "phase2"} \union donorSteps, {run[r].last}),
           at({"writeDonor", "readTotal", "writeTotal"}, {run[r].isNew}),
           at({"writeDonor"}, {run[r].seen}),
           at({"writeTotal"}, {run[r].seenRow}) >>

\* Of a direct gift, only what it is taken for is read.
ReadOf(i) ==
    << chain[i].kind, DonorOf(i), AmountOf(i), chain[i].totalAfter,
       chain[i].contributorsAfter >>

\* States that differ in what no step reads again behave alike.
WhatIsRead ==
    << [i \in DOMAIN chain |-> ReadOf(i)], events, cursor, jarRow, donorRow, named, unread,
       [r \in Runs |-> LiveFields(r)] >>
============================================================================
