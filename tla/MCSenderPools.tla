--------------------------- MODULE MCSenderPools ---------------------------
(* SenderPools on small instances; the values are in the .cfg file.        *)
EXTENDS SenderPools
=============================================================================
