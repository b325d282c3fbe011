------------------------------ MODULE MCRelay ------------------------------
(* Instances of CardRelay: deposits and workers are interchangeable.       *)
EXTENDS CardRelay, TLC

WorkerAndDepositSymmetry == Permutations(Workers) \union Permutations(Deposits)
============================================================================
