-------------------------- MODULE MCHostKeyRotation --------------------------
(* Two servers whose names are interchangeable.                            *)
EXTENDS HostKeyRotation, TLC

Symmetry == Permutations(Hosts)
=============================================================================
