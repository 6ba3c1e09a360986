------------------------------- MODULE MCFde --------------------------------
(* Instances of Fde for TLC. *)
EXTENDS Fde, TLC

CONSTANTS r1, w1, u1, r2

\* A reader that persists and a one-shot writer on descriptor 1, and a user
\* event.
MCIdent == r1 :> 1 @@ w1 :> 1 @@ u1 :> u1 @@ r2 :> 2
MCFilter == r1 :> "READ" @@ w1 :> "WRITE" @@ u1 :> "USER" @@ r2 :> "READ"
=============================================================================
