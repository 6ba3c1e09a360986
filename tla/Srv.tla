-------------------------------- MODULE Srv ---------------------------------
(***************************************************************************)
(* The TCP server (srv.c): threads that share one listening descriptor     *)
(* accept connections and, with do_fd_affinity, hand each to the thread    *)
(* its flow belongs to, through a list with a lock that the other thread   *)
(* empties from a timer.  main starts the threads one after the other      *)
(* while the first ones already accept.  Statistics are left out.          *)
(***************************************************************************)
EXTENDS Conn, Integers, FiniteSets, Functions

CONSTANT NumThreads    \* cfg.num_threads

ASSUME SrvAssumption == NumThreads \in Nat \ {0}

Thr == 0 .. NumThreads - 1     \* app_id
Nobody == NumThreads           \* the owner of a lock nobody holds

VARIABLES
    affinity,     \* cfg.do_fd_affinity
    started,      \* threads main has started or tried to
    pc,           \* where a thread is
    hand,         \* the descriptor a thread has accepted and hands over
    dest,         \* the thread it is for
    newfd_list,   \* descriptors handed to a thread
    newfd_lock,   \* the thread that holds the lock of the list
    armed,        \* ev_deferred is active
    conn_list,    \* the connections of a thread
    num_clients,  \* their number
    conn,         \* the connections, see Conn
    backlog,      \* connections waiting to be accepted
    fds,          \* connections whose descriptor is open
    early,        \* threads inserting in a list they locked before its thread
                  \* had initialised the lock
    crashed       \* the process is dead, or a list is broken

thrVars  == <<affinity, started>>
handVars == <<hand, dest, newfd_list, newfd_lock>>
connVars == <<conn_list, num_clients, conn, backlog, fds>>
vars == <<thrVars, pc, handVars, armed, connVars, early, crashed>>

Init ==
    /\ affinity \in BOOLEAN
    /\ started = 0
    /\ pc = [t \in Thr |-> "unborn"]
    /\ hand = [t \in Thr |-> <<>>] /\ dest = [t \in Thr |-> t]
    /\ newfd_list = [t \in Thr |-> <<>>] /\ newfd_lock = [t \in Thr |-> Nobody]
    /\ armed = [t \in Thr |-> FALSE]
    /\ conn_list = [t \in Thr |-> {}] /\ num_clients = [t \in Thr |-> 0]
    /\ conn = [c \in Conn |-> NoConn]
    /\ backlog = {} /\ fds = {}
    /\ early = {} /\ crashed = FALSE

Goes(t, from, to) == ~crashed /\ pc[t] = from /\ pc' = [pc EXCEPT ![t] = to]

-----------------------------------------------------------------------------
(* Start. *)

\* One turn of main's loop: the lists of the thread are initialised and the
\* thread is created, which may fail.
main ==
    /\ ~crashed /\ started \in Thr
    /\ started' = started + 1
    /\ \E created \in {"starting", "failed"} : pc' = [pc EXCEPT ![started] = created]
    /\ UNCHANGED <<affinity, handVars, armed, connVars, early, crashed>>

\* A slip of thrsrv_new: the deferred handler is not added.
Armed_not == FALSE
Armed == TRUE

\* thrsrv_new up to its loop.  The mutex is new, whoever held it.
thrsrv_new(t) ==
    /\ Goes(t, "starting", "loop")
    /\ newfd_lock' = [newfd_lock EXCEPT ![t] = Nobody]
    /\ armed' = [armed EXCEPT ![t] = Armed]
    /\ UNCHANGED <<thrVars, hand, dest, newfd_list, connVars, early, crashed>>

\* TAILQ_INIT(&r->newfd_list) has been done.
ListReady(t) == t < started
\* pthread_mutex_init(&r->newfd_lock) has been done.
LockReady(t) == pc[t] \notin {"unborn", "failed", "starting"}

-----------------------------------------------------------------------------
(* Connections come and are accepted. *)

\* A client connects.
Arrive(c) ==
    /\ ~crashed
    /\ conn[c].state \in {"NONE", "FREED"} /\ c \notin fds \cup backlog
    /\ backlog' = backlog \cup {c}
    /\ UNCHANGED <<thrVars, pc, handVars, armed, conn_list, num_clients, conn, fds, early, crashed>>

\* The number of connections when t has adopted one or failed to.
Counted(t, made) == IF made THEN num_clients[t] + 1 ELSE num_clients[t]

\* conn_new may fail, and then the descriptor is closed.
thrsrv_finish_setup(t, c) ==
    \E made \in BOOLEAN :
       /\ conn' = IF made THEN [conn EXCEPT ![c] = conn_new] ELSE conn
       /\ conn_list' = IF made THEN [conn_list EXCEPT ![t] = @ \cup {c}] ELSE conn_list
       /\ num_clients' = [num_clients EXCEPT ![t] = Counted(t, made)]
       /\ fds' = IF made THEN fds \cup {c} ELSE fds \ {c}

\* The thread for a flow: none for flow 0, else one of eight.
thrsrv_flowid_to_thread(flowid) == IF flowid = 0 THEN -1 ELSE flowid % 8

\* Flows that differ in the thread; also what is on the stack when
\* getsockopt fails.
FlowId == 0..8

\* The descriptors that are open when a descriptor cannot be queued, and a
\* slip: it is not closed.
Refused_open(c) == fds \cup {c}
Refused(c) == fds \ {c}

\* "Limit the thread ID to the number of CPUs we have".
Target(id) == id % NumThreads

\* thrsrv_acceptfd.  To be handed over, the descriptor needs an entry for the
\* list, for which there may be no memory.
thrsrv_acceptfd(t) ==
    \E c \in backlog, flowid \in FlowId :
       LET id == thrsrv_flowid_to_thread(flowid)
       IN  /\ backlog' = backlog \ {c}
           /\ \/ /\ ~(affinity /\ id # -1 /\ id # t)
                 /\ Goes(t, "loop", "loop")
                 /\ thrsrv_finish_setup(t, c)
                 /\ UNCHANGED <<hand, dest>>
              \/ /\ affinity /\ id # -1 /\ id # t
                 /\ Goes(t, "loop", "enqueue")
                 /\ hand' = [hand EXCEPT ![t] = <<c>>]
                 /\ dest' = [dest EXCEPT ![t] = Target(id)]
                 /\ fds' = fds \cup {c}
                 /\ UNCHANGED <<conn, conn_list, num_clients>>
              \/ /\ affinity /\ id # -1 /\ id # t
                 /\ Goes(t, "loop", "loop")
                 /\ fds' = Refused(c)
                 /\ UNCHANGED <<hand, dest, conn, conn_list, num_clients>>
    /\ UNCHANGED <<thrVars, newfd_list, newfd_lock, armed, early, crashed>>

-----------------------------------------------------------------------------
(* The lists. *)

\* Whether the lock of the list of u can be taken, and a slip: it is not asked.
Available_always(u) == TRUE
Available(u) == newfd_lock[u] = Nobody

Lock(t, u) == Available(u) /\ newfd_lock' = [newfd_lock EXCEPT ![u] = t]

\* Only the holder can unlock it; the error of another thread is not looked at.
Unlock(t, u) ==
    newfd_lock' = IF newfd_lock[u] = t THEN [newfd_lock EXCEPT ![u] = Nobody] ELSE newfd_lock

\* thrsrv_newfd_enqueue.
EnqueueLock(t) ==
    /\ Goes(t, "enqueue", "insert")
    /\ Lock(t, dest[t])
    /\ early' = IF LockReady(dest[t]) THEN early ELSE early \cup {t}
    /\ UNCHANGED <<thrVars, hand, dest, newfd_list, armed, connVars, crashed>>

Insert(t) ==
    /\ Goes(t, "insert", "loop")
    /\ ListReady(dest[t])
    /\ newfd_list' = [newfd_list EXCEPT ![dest[t]] = @ \o hand[t]]
    /\ hand' = [hand EXCEPT ![t] = <<>>]
    /\ Unlock(t, dest[t])
    /\ early' = early \ {t}
    /\ UNCHANGED <<thrVars, dest, armed, connVars, crashed>>

\* Threads that use the list of u.
Users(u) == {t \in Thr : \/ pc[t] = "insert" /\ dest[t] = u
                         \/ pc[t] = "drain" /\ t = u}

\* The head of a list that is not initialised has no last element to link to,
\* and a list that another thread uses at the same time may be broken by it.
InsertCrashes(t) ==
    /\ ~crashed /\ pc[t] = "insert"
    /\ ~ListReady(dest[t]) \/ Cardinality(Users(dest[t])) > 1
    /\ crashed' = TRUE
    /\ UNCHANGED <<thrVars, pc, handVars, armed, connVars, early>>

\* thrsrv_run_deferred: the timer runs, ...
DeferredRuns(t) ==
    /\ Goes(t, "loop", "deferred")
    /\ armed[t]
    /\ armed' = [armed EXCEPT ![t] = FALSE]
    /\ UNCHANGED <<thrVars, handVars, connVars, early, crashed>>

DeferredLock(t) ==
    /\ Goes(t, "deferred", "drain")
    /\ Lock(t, t)
    /\ UNCHANGED <<thrVars, hand, dest, newfd_list, armed, connVars, early, crashed>>

\* ... adopts what is on the list, ...
Drain(t) ==
    /\ Goes(t, "drain", "drain")
    /\ newfd_list[t] # <<>>
    /\ newfd_list' = [newfd_list EXCEPT ![t] = Tail(@)]
    /\ thrsrv_finish_setup(t, Head(newfd_list[t]))
    /\ UNCHANGED <<thrVars, hand, dest, newfd_lock, armed, backlog, early, crashed>>

\* ... and is added again.
Drained(t) ==
    /\ Goes(t, "drain", "loop")
    /\ newfd_list[t] = <<>>
    /\ Unlock(t, t)
    /\ armed' = [armed EXCEPT ![t] = Armed]
    /\ UNCHANGED <<thrVars, hand, dest, newfd_list, connVars, early, crashed>>

-----------------------------------------------------------------------------
(* The handlers of the connections of a thread. *)

\* thrsrv_conn_update_cb for CONN_STATE_ERROR, and a slip: the connection is
\* not closed.
OnError_ignore(k) == k
OnError(k) == conn_close(k)

thrsrv_conn_update_cb(k) == IF k.state = "ERROR" THEN OnError(k) ELSE k

InLoop(t, c) == ~crashed /\ pc[t] = "loop" /\ c \in conn_list[t]

Written(t, c) ==
    /\ InLoop(t, c) /\ conn[c].write
    /\ \E k \in WriteAnswers(conn[c]) : conn' = [conn EXCEPT ![c] = thrsrv_conn_update_cb(k)]
    /\ UNCHANGED <<thrVars, pc, handVars, armed, conn_list, num_clients, backlog, fds, early, crashed>>

CommClosed(t, c) ==
    /\ InLoop(t, c) /\ CloseReady(conn[c])
    /\ conn' = [conn EXCEPT ![c] = client_ev_close_cb(@)]
    /\ fds' = fds \ {c}
    /\ UNCHANGED <<thrVars, pc, handVars, armed, conn_list, num_clients, backlog, early, crashed>>

\* client_ev_cleanup_cb, with thrsrv_conn_update_cb for CONN_STATE_FREEING.
Freeing(t, c) ==
    /\ InLoop(t, c) /\ conn[c].cleanup
    /\ conn' = [conn EXCEPT ![c] = client_ev_cleanup_cb(@)]
    /\ conn_list' = [conn_list EXCEPT ![t] = @ \ {c}]
    /\ num_clients' = [num_clients EXCEPT ![t] = @ - 1]
    /\ UNCHANGED <<thrVars, pc, handVars, armed, backlog, fds, early, crashed>>

-----------------------------------------------------------------------------
\* What a thread does when it is not in its event loop.
Inside(t) == \/ thrsrv_new(t) \/ EnqueueLock(t) \/ Insert(t) \/ InsertCrashes(t)
             \/ DeferredLock(t) \/ Drain(t) \/ Drained(t)

Next == \/ main
        \/ \E c \in Conn : Arrive(c)
        \/ \E t \in Thr : \/ thrsrv_acceptfd(t) \/ Inside(t) \/ DeferredRuns(t)
                          \/ \E c \in Conn : \/ Written(t, c) \/ CommClosed(t, c)
                                             \/ Freeing(t, c)

Spec == Init /\ [][Next]_vars

\* What is left of a connection that is closing.
Closing(c) == \E t \in Thr : \/ conn[c].closing /\ Written(t, c)
                             \/ CommClosed(t, c) \/ Freeing(t, c)

\* Threads run, and get a mutex that is free again and again: its other user
\* holds it for a moment every 100 ms.  The event loop runs every timer that
\* is due (TimerRuns of Fde) and the comm makes the callbacks it
\* owes (WriteAnswered and StreamCloseEnds of Comm), whatever else the thread
\* has to do in between, hence strong fairness.
FairSpec ==
    /\ Spec
    /\ WF_vars(main)
    /\ \A t \in Thr :
          WF_vars(Inside(t)) /\ SF_vars(EnqueueLock(t)) /\ SF_vars(DeferredRuns(t))
    /\ \A c \in Conn : SF_vars(Closing(c))

-----------------------------------------------------------------------------
(* Properties. *)

\* Every variable holds a value of the C type it models.
TypeOK ==
    /\ affinity \in BOOLEAN /\ early \subseteq Thr /\ crashed \in BOOLEAN
    /\ started \in 0..NumThreads
    /\ pc \in [Thr -> {"unborn", "failed", "starting", "loop", "enqueue", "insert",
                       "deferred", "drain"}]
    /\ hand \in [Thr -> Seq(Conn)] /\ dest \in [Thr -> Thr]
    /\ newfd_list \in [Thr -> Seq(Conn)] /\ newfd_lock \in [Thr -> 0..NumThreads]
    /\ armed \in [Thr -> BOOLEAN]
    /\ conn_list \in [Thr -> SUBSET Conn] /\ num_clients \in [Thr -> Nat]
    /\ conn \in [Conn -> ConnRecord]
    /\ backlog \subseteq Conn /\ fds \subseteq Conn

\* Where the descriptor of c is: in the hand of a thread, on a list, in a
\* connection of a thread.
Places(c) ==
    {<<"hand", t, 0>> : t \in {u \in Thr : c \in Range(hand[u])}} \cup
    {<<"conn", t, 0>> : t \in {u \in Thr : c \in conn_list[u] /\ conn[c].open}} \cup
    UNION {{<<"list", t, i>> : i \in {j \in DOMAIN newfd_list[t] : newfd_list[t][j] = c}} : t \in Thr}

\* An accepted descriptor is in exactly one place until it is closed, whatever
\* fails on its way from the accepting thread to the one that serves it
\* (thrsrv_acceptfd, thrsrv_newfd_enqueue, thrsrv_finish_setup): none is
\* leaked, served twice or closed while somebody has it.
FdInOnePlace == \A c \in Conn : Cardinality(Places(c)) = IF c \in fds THEN 1 ELSE 0

\* num_clients, which two callbacks in different handlers count up and down,
\* is the number of connections of the thread that are not freed.
ClientsCounted ==
    \A t \in Thr : /\ num_clients[t] = Cardinality(conn_list[t])
                   /\ \A c \in conn_list[t] : conn[c].state \notin {"NONE", "FREED"}

\* A connection uses its comm as comm.h asks: c->comm is set as long as
\* conn.c may call with it, and the netbuf is freed only when the comm is gone
\* (comm.h:227: "The buffer must stay valid for the lifetime of the write").
\* Until it is freed a connection is heard of again, for one reason at a time:
\* its write is outstanding, the close callback is due, or ev_cleanup is.
CommUsedRight ==
    \A c \in Conn : LET k == conn[c] IN
       /\ k.state = "RUNNING" => k.comm /\ k.open /\ k.write /\ ~k.closing
       /\ k.comm => k.open
       /\ k.state = "FREED" => ~k.open /\ ~k.write
       /\ k.state \notin {"NONE", "FREED"} => k.write \/ CloseReady(k) \/ k.cleanup
       /\ k.cleanup => ~k.open /\ ~k.write

\* The owner is told of a connection: ERROR at most once and first, CLOSING
\* once, and FREEING once, as the last thing, in whatever order the answers
\* of the comm come.
ToldInOrder ==
    \A c \in Conn : conn[c].told \in {<<>>, <<"ERROR", "CLOSING">>, <<"CLOSING">>,
                        <<"ERROR", "CLOSING", "FREEING">>, <<"CLOSING", "FREEING">>}

\* Of the threads that locked a list after its thread had initialised the
\* lock, one at a time uses the list, also when thrsrv_new made the lock anew
\* under the hands of another.  A list is broken, or used before it is
\* initialised, only while a thread inserts in a list whose lock it took
\* before (srv.c:277, srv.c:461).
HandoverSafe ==
    /\ \A u \in Thr : Cardinality(Users(u) \ early) <= 1
    /\ crashed => early # {}

\* A descriptor handed to a thread that runs is adopted or closed.
Adopted ==
    \A t \in Thr, c \in Conn :
       c \in Range(newfd_list[t]) /\ pc[t] # "failed" ~> c \notin Range(newfd_list[t]) \/ crashed

\* A connection that is being closed is freed.
ConnEnds == \A c \in Conn : conn[c].state = "CLOSING" ~> conn[c].state = "FREED" \/ crashed
=============================================================================
