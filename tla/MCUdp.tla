------------------------------- MODULE MCUdp --------------------------------
(* An instance of Udp for TLC. *)
EXTENDS Udp
=============================================================================
