----------------------------- MODULE MCShmAlloc -----------------------------
(* Instances of ShmAlloc for TLC. *)
EXTENDS ShmAlloc
=============================================================================
