------------------------------- MODULE MCComm -------------------------------
(* Instances of Comm for TLC. *)
EXTENDS Comm
=============================================================================
