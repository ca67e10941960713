-------------------------- MODULE MCUploadSession --------------------------
(* UploadSession on small instances; the values are in the .cfg files.     *)
EXTENDS UploadSession
=============================================================================
