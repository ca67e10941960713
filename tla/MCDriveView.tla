---------------------------- MODULE MCDriveView ----------------------------
(* The instance of DriveView that is checked: the values are in Views.cfg.   *)
EXTENDS DriveView
=============================================================================
