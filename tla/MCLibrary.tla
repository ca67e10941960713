------------------------------ MODULE MCLibrary ------------------------------
(* Library on small instances; folders and requests are interchangeable.   *)
EXTENDS Library, TLC

Symmetry == Permutations(Folders) \cup Permutations(Requests)
=============================================================================
