------------------------------- MODULE MCClt --------------------------------
(* An instance of Clt for TLC. *)
EXTENDS Clt
=============================================================================
