------------------------------- MODULE MCReset -------------------------------
(* A database of two instances, and one of a single instance.              *)
EXTENDS Reset, TLC
CONSTANTS a, b, c

MCInstances == {a, b, c}
MCDatabaseOf == [i \in MCInstances |-> IF i = c THEN "drill" ELSE "main"]
Symmetry == Permutations(IPs) \cup Permutations({a, b})
=============================================================================
