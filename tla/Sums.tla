-------------------------------- MODULE Sums --------------------------------
(***************************************************************************)
(* The sum of a function with natural values on a finite domain, counted   *)
(* as a set of units, so that what is known of cardinalities applies to it.*)
(***************************************************************************)
EXTENDS Naturals, FiniteSets

Units(f, k) == {k} \X (1 .. f[k])

SumOf(f) == Cardinality(UNION {Units(f, k) : k \in DOMAIN f})
============================================================================
