------------------------------ MODULE MCConfig ------------------------------
(***************************************************************************)
(* A small instance of the program's configuration for TLC: in some        *)
(* behaviours the administration of the configuration, in the others the   *)
(* migration of the account it is kept in.                                 *)
(***************************************************************************)
EXTENDS ConfigMigration, TLC

KeySymmetry == Permutations(Keys)

NoAccount == data = <<>> /\ layout = "none"

Init ==
    \/ ConfigInit /\ NoAccount
    \/ ConfigInit /\ MigrationInit

Next ==
    \/ NoAccount /\ ConfigNext /\ UNCHANGED <<data, layout>>
    \/ ~NoAccount /\ MigrationNext /\ UNCHANGED configVars

Spec == Init /\ [][Next]_<<configVars, data, layout>>
=============================================================================
