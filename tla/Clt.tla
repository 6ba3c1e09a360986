-------------------------------- MODULE Clt ---------------------------------
(***************************************************************************)
(* One thread of the TCP client (clt.c).  A timer that runs every 100 ms   *)
(* opens connections until there are nconns; each connects, reads until    *)
(* the end or an error, is closed and freed, and is then replaced.  A      *)
(* connection is above a comm, as in Conn.  Handlers are one step each:    *)
(* nothing else runs in the thread, and threads share nothing.  Times are  *)
(* pairs, see Timeval, relative to the present second.  Statistics are     *)
(* left out but for the timer that prints them.                            *)
(***************************************************************************)
EXTENDS Timeval, FiniteSets

CONSTANTS Conn,       \* connections; one is used again when it is freed
          nconns,     \* the number of connections asked for
          connrate,   \* limits the connections opened at a time
          Delay,      \* 100000 microseconds, the period of ev_newconn
          MaxLate     \* seconds by which the thread may be late for a timer

ASSUME CltAssumption ==
    /\ IsFiniteSet(Conn)
    /\ nconns \in Nat /\ connrate \in Nat /\ MaxLate \in Nat
    /\ Delay \in 1 .. Million - 1

VARIABLES
    conn,          \* struct conn, with the state of its comm
    conn_list,     \* r->conn_list
    num_clients,   \* r->num_clients
    usec,          \* the microseconds of the present second
    timer,         \* where the timers are armed
    left,          \* microseconds until they should run, 0 if they are overdue
    crashed        \* freed memory has ended the program

connVars == <<conn, conn_list, num_clients>>
timeVars == <<usec, timer, left>>
vars == <<connVars, timeVars, crashed>>

Timer == {"ev_newconn", "ev_stats"}
Now == Timeval(0, usec)

NoConn ==
    [state   |-> "NONE",   \* c->state
     comm    |-> FALSE,    \* c->comm is not NULL
     open    |-> FALSE,    \* the comm is not freed
     closing |-> FALSE,    \* comm_close has been called
     out     |-> "none",   \* the operation that is outstanding
     cleanup |-> FALSE]    \* c->ev_cleanup is active

\* When thrclt_new enters its loop.
Init ==
    /\ conn = [c \in Conn |-> NoConn]
    /\ conn_list = {} /\ num_clients = 0
    /\ usec \in 0 .. Million - 1
    /\ timer = [e \in Timer |-> IF e = "ev_stats" THEN Timeval(1, usec) ELSE Now]
    /\ left = [e \in Timer |-> IF e = "ev_stats" THEN Million ELSE 0]
    /\ crashed = FALSE

-----------------------------------------------------------------------------
(* Time and timers. *)

\* A microsecond passes; times are relative to the second that begins.
Tick ==
    /\ \A e \in Timer : timer[e].sec >= -MaxLate
    /\ usec' = (usec + 1) % Million
    /\ timer' = IF usec + 1 < Million THEN timer
                ELSE [e \in Timer |-> [timer[e] EXCEPT !.sec = @ - 1]]
    /\ left' = [e \in Timer |-> IF left[e] > 0 THEN left[e] - 1 ELSE 0]
    /\ UNCHANGED connVars

\* fde_t_runloop finds the timer due.
Due(e) == timeval_cmp(Now, timer[e]) >= 0

\* Where ev_newconn is armed again.
NextTick == Ahead(Now, Delay)

Rearm(e, t, delay) ==
    /\ timer' = [timer EXCEPT ![e] = t]
    /\ left' = [left EXCEPT ![e] = delay]
    /\ UNCHANGED usec

thrclt_stat_print ==
    /\ Due("ev_stats")
    /\ Rearm("ev_stats", Timeval(1, usec), Million)
    /\ UNCHANGED connVars

-----------------------------------------------------------------------------
(* Connections. *)

\* The connections a run of the timer may open, and a slip: nconns is looked
\* at only before the first.
Room_once == IF num_clients < nconns THEN connrate + 1 ELSE 0
Room == IF nconns - num_clients < connrate + 1 THEN nconns - num_clients ELSE connrate + 1

Unused == {c \in Conn : conn[c].state \in {"NONE", "FREED"}}

\* conn_new and thrclt_open_new_conn when nothing fails.
conn_new == [NoConn EXCEPT !.comm = TRUE, !.open = TRUE]
Connecting == [conn_new EXCEPT !.state = "CONNECTING", !.out = "connect"]

\* thrclt_ev_newconn_cb opens the connections of new.  A failure ends its loop
\* before there are as many as there is room for.
thrclt_ev_newconn_cb(new) ==
    /\ Due("ev_newconn")
    /\ new \subseteq Unused /\ Cardinality(new) <= Room
    /\ conn' = [c \in Conn |-> IF c \in new THEN Connecting ELSE conn[c]]
    /\ conn_list' = conn_list \cup new
    /\ num_clients' = num_clients + Cardinality(new)
    /\ Rearm("ev_newconn", NextTick, Delay)

\* When socket() fails conn_new reads c after it has freed it, which may do no
\* harm, and is then as any other failure, or may end the program.
SocketFails ==
    /\ Due("ev_newconn") /\ Room > 0
    /\ crashed' = TRUE
    /\ UNCHANGED <<connVars, timeVars>>

Opens == \E new \in SUBSET Unused : new # {} /\ thrclt_ev_newconn_cb(new)

\* conn_close.
conn_close(k) ==
    IF k.state = "CLOSING" THEN k
    ELSE [k EXCEPT !.state = "CLOSING", !.closing = TRUE, !.comm = FALSE]

\* thrclt_conn_update_cb for CONN_STATE_ERROR, and a slip: the connection is
\* not closed.
OnError_ignore(k) == k
OnError(k) == conn_close(k)

\* The end of conn_connect_cb, and a slip: the comm is closed as well, with
\* the read outstanding.
Connected_closed(k) == conn_close([k EXCEPT !.out = "read"])
Connected(k) == [k EXCEPT !.state = "RUNNING", !.out = "read"]

Answer(c, k) == conn' = [conn EXCEPT ![c] = k] /\ UNCHANGED <<conn_list, num_clients, timeVars>>

\* The connect is answered.
conn_connect_cb(c) ==
    /\ conn[c].out = "connect"
    /\ LET k == [conn[c] EXCEPT !.out = "none"]
       IN  \/ Answer(c, Connected(k))
           \/ Answer(c, OnError([k EXCEPT !.state = "ERROR"]))

\* A read is answered: with data, and there is another, or with anything else.
conn_read_cb(c) ==
    /\ conn[c].out = "read"
    /\ \/ conn[c].comm /\ Answer(c, conn[c])
       \/ Answer(c, conn_close([conn[c] EXCEPT !.out = "none"]))

\* The comm has nothing outstanding and makes its close callback.
conn_close_cb(c) ==
    /\ conn[c].closing /\ conn[c].open /\ conn[c].out = "none"
    /\ Answer(c, [conn[c] EXCEPT !.open = FALSE, !.cleanup = TRUE])

\* thrclt_conn_update_cb for CONN_STATE_FREEING, and a slip: it is not counted.
Uncounted_not == num_clients
Uncounted == IF num_clients = 0 THEN 0 ELSE num_clients - 1

conn_ev_cleanup_cb(c) ==
    /\ conn[c].cleanup
    /\ conn' = [conn EXCEPT ![c] = [@ EXCEPT !.cleanup = FALSE, !.state = "FREED"]]
    /\ conn_list' = conn_list \ {c}
    /\ num_clients' = Uncounted
    /\ UNCHANGED timeVars

-----------------------------------------------------------------------------
Step(A) == ~crashed /\ A /\ UNCHANGED crashed

Handler(c) == \/ conn_connect_cb(c) \/ conn_close_cb(c) \/ conn_ev_cleanup_cb(c)

Next == \/ Step(Tick) \/ Step(thrclt_stat_print)
        \/ \E new \in SUBSET Unused : Step(thrclt_ev_newconn_cb(new))
        \/ ~crashed /\ SocketFails
        \/ \E c \in Conn : Step(Handler(c)) \/ Step(conn_read_cb(c))

Spec == Init /\ [][Next]_vars

\* Time passes, due timers run (TimerRuns of Fde), and the comm makes the
\* callbacks it owes (ConnectAnswered and StreamCloseEnds of Comm).  Opening a
\* connection does not fail for ever.
FairSpec ==
    /\ Spec
    /\ WF_vars(Step(Tick)) /\ WF_vars(Step(thrclt_stat_print))
    /\ WF_vars(\E new \in SUBSET Unused : Step(thrclt_ev_newconn_cb(new)))
    /\ SF_vars(Step(Opens))
    /\ \A c \in Conn : WF_vars(Step(Handler(c)))

-----------------------------------------------------------------------------
(* Properties. *)

\* Every variable holds a value of the C type it models.
TypeOK ==
    /\ conn \in [Conn -> [state : {"NONE", "CONNECTING", "RUNNING", "ERROR", "CLOSING", "FREED"},
                          comm : BOOLEAN, open : BOOLEAN, closing : BOOLEAN,
                          out : {"none", "connect", "read"}, cleanup : BOOLEAN]]
    /\ conn_list \subseteq Conn /\ num_clients \in 0..nconns
    /\ usec \in 0 .. Million - 1
    /\ timer \in [Timer -> [sec : -MaxLate - 1 .. 1, usec : 0..Million]]
    /\ left \in [Timer -> 0..Million]
    /\ crashed \in BOOLEAN

\* num_clients is the number of connections that are not freed, through all
\* the callbacks that count it up and down, and never more than nconns.
ClientsCounted ==
    /\ num_clients = Cardinality(conn_list) /\ num_clients <= nconns
    /\ conn_list = Conn \ Unused

\* The client closes a comm only when no operation is outstanding, and never
\* while it connects: such a comm would not be freed (CloseEnds of Comm).
\* While it connects or reads, c->comm is set and the comm is there.  Until it
\* is freed a connection is heard of again, for one reason at a time: an
\* operation is outstanding, the close callback is due, or ev_cleanup is.
CommUsedRight ==
    \A c \in Conn : LET k == conn[c] IN
       /\ k.closing => k.out = "none"
       /\ k.state \in {"CONNECTING", "RUNNING"} => k.comm /\ k.out # "none"
       /\ k.comm \/ k.out # "none" => k.open
       /\ k.state = "FREED" => ~k.open
       /\ k.state \notin {"NONE", "FREED"} => k.out # "none" \/ (k.closing /\ k.open) \/ k.cleanup
       /\ k.cleanup => ~k.open

\* A timer is due exactly when its time has come, although tv_usec may be
\* 1000000 (clt.c:476, srv.c:170) and the comparison takes the pair apart; and
\* the sleep until then, computed at any time, is exact and is one kevent
\* accepts.  (That fde_runloop computes it with a time read before the
\* handlers ran is the subject of NoOversleep of Fde.)
TimerExact ==
    \A e \in Timer : LET s == Sleep(Now, timer[e]) IN
       /\ Due(e) <=> left[e] = 0
       /\ Instant(s) = left[e]
       /\ s.sec >= 0 /\ s.usec \in 0 .. Million - 1

\* The client never comes to rest with fewer connections than it was asked for.
KeepsOpening == <>[](Cardinality(conn_list) = nconns) \/ []<><<Opens>>_vars \/ <>crashed

\* A connection that has failed or ended is freed, to be replaced.
ConnEnds == \A c \in Conn : conn[c].state \in {"ERROR", "CLOSING"} ~> conn[c].state = "FREED" \/ crashed
=============================================================================
