-------------------------------- MODULE Conn --------------------------------
(***************************************************************************)
(* Connections, struct conn (conn.c), each above a comm.  The comm is what *)
(* CommApi promises: one write may be outstanding and is answered once,    *)
(* with any status; after comm_close the answer is CLOSING; the close      *)
(* callback comes when nothing is outstanding, and then the comm is freed  *)
(* and its descriptor closed.  The handlers of a connection run in the     *)
(* thread that made it, so each is one step, to which its owner adds what  *)
(* its callback does.                                                      *)
(***************************************************************************)
EXTENDS Naturals, Sequences

CONSTANT Conn     \* connections; one is used again when all of it is freed

\* What no connection uses.
NoConn ==
    [state   |-> "NONE",   \* c->state
     comm    |-> FALSE,    \* c->comm is not NULL
     open    |-> FALSE,    \* the comm: not freed, its descriptor not closed
     closing |-> FALSE,    \* the comm: comm_close has been called
     write   |-> FALSE,    \* the comm: a write from the netbuf is outstanding
     cleanup |-> FALSE,    \* c->ev_cleanup is active
     told    |-> <<>>]     \* what the owner has been told

ConnRecord ==
    [state : {"NONE", "RUNNING", "ERROR", "CLOSING", "FREED"},
     comm : BOOLEAN, open : BOOLEAN, closing : BOOLEAN, write : BOOLEAN,
     cleanup : BOOLEAN, told : Seq({"ERROR", "CLOSING", "FREEING"})]

\* c->cb.cb(c, c->cb.cbdata, n), of which the owner's part comes after it.
Tell(k, n) == [k EXCEPT !.told = Append(@, n)]

\* conn_new when it succeeds.  The read in it is compiled out.
conn_new == [NoConn EXCEPT !.state = "RUNNING", !.comm = TRUE, !.open = TRUE, !.write = TRUE]

\* A slip of conn_close: it schedules the cleanup itself.
conn_close_eager(k) ==
    IF k.state = "CLOSING" THEN k
    ELSE [Tell(k, "CLOSING") EXCEPT !.state = "CLOSING", !.closing = TRUE, !.comm = FALSE,
                                    !.cleanup = TRUE]

\* The owner does nothing when it is told CLOSING.
conn_close(k) ==
    IF k.state = "CLOSING" THEN k
    ELSE [Tell(k, "CLOSING") EXCEPT !.state = "CLOSING", !.closing = TRUE, !.comm = FALSE]

\* An error.  Telling the owner is the last thing conn_write_cb does.
Failed(k) == Tell([k EXCEPT !.state = "ERROR"], "ERROR")

\* "Not running?  Skip."
Running(k) == k.state = "RUNNING"

\* conn_write_cb.  over says that total_written has passed write_close_thr,
\* all that the whole netbuf was written.
conn_write_cb(k, s, over, all) ==
    CASE ~Running(k) -> k
      [] Running(k) /\ s = "COMPLETED" /\ over -> conn_close(k)
      [] Running(k) /\ s = "COMPLETED" /\ ~over /\ all -> [k EXCEPT !.write = TRUE]
      [] OTHER -> Failed(k)

\* The outcomes of an answer to the write of k.
Answered(k) == [k EXCEPT !.write = FALSE]
Status(k) == IF k.closing THEN {"CLOSING"} ELSE {"COMPLETED", "ERROR", "EOF"}
WriteAnswers(k) ==
    {conn_write_cb(Answered(k), s, over, all) :
        s \in Status(k), over \in BOOLEAN, all \in BOOLEAN}

\* The comm makes its close callback, and is then freed.
CloseReady(k) == k.closing /\ k.open /\ ~k.write

\* A slip of client_ev_close_cb: the cleanup is not scheduled.
client_ev_close_cb_lost(k) == [k EXCEPT !.comm = FALSE, !.open = FALSE]

client_ev_close_cb(k) == [k EXCEPT !.comm = FALSE, !.cleanup = TRUE, !.open = FALSE]

client_ev_cleanup_cb(k) == [Tell(k, "FREEING") EXCEPT !.cleanup = FALSE, !.state = "FREED"]
=============================================================================
