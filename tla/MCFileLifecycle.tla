-------------------------- MODULE MCFileLifecycle --------------------------
(* FileLifecycle on small instances; requests are interchangeable, but not *)
(* where liveness is checked.                                              *)
EXTENDS FileLifecycle, TLC

Symmetry == Permutations(Ops)
=============================================================================
