-------------------------------- MODULE Udp ---------------------------------
(***************************************************************************)
(* The UDP programs as owners of a comm: a thread of the client            *)
(* (udp_clt.c), which fills the queue of datagrams from a timer that the   *)
(* write callbacks arm, and a thread of the server (udp_srv.c), which      *)
(* throws away what it receives.  The comm is Comm's, step by step; the    *)
(* callbacks, which make no call of comm.h, are part of the steps that     *)
(* make them.  Neither program closes its comm.  The threads of the server *)
(* share one descriptor: a datagram may be gone when comm_cb_udp_read asks *)
(* for it, which is an error to it.                                        *)
(***************************************************************************)
EXTENDS Comm

CONSTANT connrate    \* datagrams the client queues at a time

ASSUME UdpAssumption == connrate \in Nat

VARIABLES
    prog,    \* the program
    timer,   \* the client's ev_newconn is active
    cnt,     \* the counter of thrclt_send_frames
    heap,    \* frames allocated and not freed
    crashed  \* a frame could not be allocated

udpVars == <<prog, timer, cnt, heap, crashed>>
allVars == <<vars, udpVars>>

fde_comm_udp_alloc(fr) == fr \notin heap /\ heap' = heap \cup {fr}
fde_comm_udp_free(fr) == heap' = heap \ {fr}

\* After comm_create, in thrclt_new or thrsrv_new.
UdpInit ==
    /\ Init /\ use = "udp"
    /\ prog \in {"clt", "srv"}
    /\ timer = FALSE /\ cnt = connrate /\ heap = {} /\ crashed = FALSE

-----------------------------------------------------------------------------
(* The server. *)

thrsrv_new ==
    /\ prog = "srv" /\ comm_udp_read
    /\ UNCHANGED udpVars

\* comm_cb_udp_read takes a frame and conn_recvmsg frees it, or there is none.
conn_recvmsg ==
    /\ prog = "srv" /\ comm_cb_udp_read
    /\ UNCHANGED udpVars

-----------------------------------------------------------------------------
(* The client. *)

\* The timer, armed for now, and a slip: it is armed elsewhere.
Resumes_not == timer
Resumes == TRUE

\* The setup, and the first timer.
thrclt_new ==
    /\ prog = "clt" /\ comm_udp_write_setup
    /\ timer' = TRUE
    /\ UNCHANGED <<prog, cnt, heap, crashed>>

\* thrclt_send_frames begins, ...
thrclt_ev_newconn_cb ==
    /\ prog = "clt" /\ timer /\ OwnerEvent
    /\ timer' = FALSE /\ cnt' = 0
    /\ UNCHANGED <<prog, heap, crashed>>

\* ... queues a frame, ...
SendFrame(fr) ==
    /\ pc = "owner" /\ cnt < connrate
    /\ fde_comm_udp_alloc(fr)
    /\ comm_udp_write(fr)
    /\ cnt' = cnt + 1
    /\ UNCHANGED <<prog, timer, crashed>>

\* ... which the full queue refuses, and a slip: the frame is not freed.
Bailed_leak(fr) == heap \cup {fr}
Bailed(fr) == heap

FrameRefused(fr) ==
    /\ pc = "owner" /\ cnt < connrate /\ fr \notin heap
    /\ Len(udp_w.q) >= MaxQlen
    /\ heap' = Bailed(fr)
    /\ cnt' = connrate
    /\ UNCHANGED <<vars, prog, timer, crashed>>

\* ... or for which there is no memory: NULL is not checked for.
NoFrame ==
    /\ pc = "owner" /\ cnt < connrate
    /\ crashed' = TRUE
    /\ UNCHANGED <<vars, prog, timer, cnt, heap>>

\* The client or the server returns to its loop.
BackToLoop ==
    /\ Return
    /\ cnt = connrate /\ (udp_w.active \/ udp_r)
    /\ UNCHANGED udpVars

\* A step of comm_cb_udp_write; thrsrv_comm_udp_write_cb frees the frame it
\* is told of and arms the timer.
comm_udp_write_cb ==
    /\ prog = "clt" /\ (UdpSend \/ UdpSent)
    /\ fde_comm_udp_free(told'[1])
    /\ timer' = IF told'[1] \in Frame THEN Resumes ELSE timer
    /\ UNCHANGED <<prog, cnt, crashed>>

-----------------------------------------------------------------------------
Step(A) == ~crashed /\ A

Owner == \/ thrsrv_new \/ thrclt_new \/ BackToLoop
         \/ \E fr \in Frame : SendFrame(fr) \/ FrameRefused(fr)

Network == Drain /\ UNCHANGED udpVars

UdpNext == \/ Step(Owner) \/ Step(NoFrame) \/ Step(thrclt_ev_newconn_cb)
           \/ Step(conn_recvmsg) \/ Step(comm_udp_write_cb) \/ Step(Network)
           \/ Step(Receive /\ UNCHANGED udpVars)

UdpSpec == UdpInit /\ [][UdpNext]_allVars

\* The owner's code goes on, and the loop runs timers that are due and events
\* whose filter is true (TimerRuns of Fde); the network takes what is sent.
UdpFairSpec ==
    /\ UdpSpec
    /\ WF_allVars(Step(Owner)) /\ WF_allVars(Step(Network))
    /\ SF_allVars(Step(thrclt_ev_newconn_cb))
    /\ SF_allVars(Step(conn_recvmsg \/ comm_udp_write_cb))

-----------------------------------------------------------------------------
(* Properties. *)

\* A frame is allocated exactly while it is in the queue, and is there once:
\* none is leaked when the queue is full, none is freed twice or while it is
\* queued.
FramesOwned == heap = Queued /\ Cardinality(Queued) = Len(udp_w.q)

\* The client never falls silent, whatever sendto() answers: callbacks and
\* timers keep each other going, although a run of the timer that finds the
\* queue full arms nothing.
KeepsSending == prog = "clt" ~> told[1] \in Frame \/ crashed

\* When a datagram has arrived, the callback of the server is made, with the
\* datagram or with an error, also after errors; after an error it may still
\* be there, and the callback is made again.
DatagramAnswered == prog = "srv" /\ in > 0 ~> told[1] = "udp_read"
=============================================================================
