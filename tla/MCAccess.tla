------------------------------ MODULE MCAccess ------------------------------
(* Two devices that know one phone number, for TLC.                         *)
EXTENDS Access
=============================================================================
