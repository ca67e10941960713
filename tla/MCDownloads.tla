---------------------------- MODULE MCDownloads ----------------------------
(* Downloads on small instances; the values are in the .cfg file.          *)
EXTENDS Downloads
=============================================================================
