------------------------------- MODULE MCSrv --------------------------------
(* An instance of Srv for TLC. *)
EXTENDS Srv
=============================================================================
