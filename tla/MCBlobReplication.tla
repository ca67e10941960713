------------------------- MODULE MCBlobReplication -------------------------
(* Model-checking instances of BlobReplication: the values are in the .cfg *)
(* files; requests, sweep workers and reads are interchangeable.           *)
EXTENDS BlobReplication, TLC

Symmetry == Permutations(Requests) \cup Permutations(Sweepers) \cup Permutations(Readers)
=============================================================================
