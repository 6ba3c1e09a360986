------------------------------ MODULE CommApi -------------------------------
(***************************************************************************)
(* What comm.h promises the owner of one fde_comm.  Every operation it     *)
(* starts is answered by its callback, once, or again and again for the    *)
(* operations that go on by themselves; FDE_COMM_CB_CLOSING is said only   *)
(* of a comm that is closing; and the close callback comes once, when no   *)
(* operation is outstanding, and is the last one.                          *)
(***************************************************************************)
CONSTANTS Op,        \* the operations, and the datagrams that can be queued
          GoesOn     \* operations that stay outstanding when answered

VARIABLES out,       \* operations started and not answered
          closing,   \* comm_close has been called
          closed,    \* the close callback has been made
          told       \* the callback being executed: operation and status

vars == <<out, closing, closed, told>>

Silence == <<"none", "none">>

Init == out = {} /\ closing = FALSE /\ closed = FALSE /\ told = Silence

Start(o) == /\ ~closed
            /\ o \notin out
            /\ out' = out \cup {o}
            /\ UNCHANGED <<closing, closed, told>>

Callback(o, s) == /\ ~closed
                  /\ o \in out
                  /\ s = "CLOSING" => closing
                  /\ out' = IF o \in GoesOn /\ s # "CLOSING" THEN out ELSE out \ {o}
                  /\ told' = <<o, s>>
                  /\ UNCHANGED <<closing, closed>>

Return == told' = Silence /\ UNCHANGED <<out, closing, closed>>

Close == closing' = TRUE /\ UNCHANGED <<out, closed, told>>

Closed == /\ closing /\ ~closed
          /\ out = {}
          /\ closed' = TRUE
          /\ told' = <<"close", "COMPLETED">>
          /\ UNCHANGED <<out, closing>>

Status == {"COMPLETED", "CLOSING", "ERROR", "EOF"}

Next == \/ \E o \in Op : Start(o) \/ \E s \in Status : Callback(o, s)
        \/ Return \/ Close \/ Closed

Spec == Init /\ [][Next]_vars
=============================================================================
