------------------------------ MODULE MCDrive ------------------------------
(* Drive on small instances: a few chunks and two executors.               *)
EXTENDS DriveInvariant
=============================================================================
