---------------------------- MODULE MCNRDBConnect ----------------------------
(***************************************************************************)
(* NRDBConnect for TLC. Handles, databases and names are only compared for *)
(* equality, so any permutation of each is a symmetry.                     *)
(***************************************************************************)
EXTENDS NRDBConnect, TLC

Symmetry ==
    Permutations(Handles) \cup Permutations(Databases) \cup Permutations(Names)
=============================================================================
