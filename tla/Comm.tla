-------------------------------- MODULE Comm --------------------------------
(***************************************************************************)
(* One struct fde_comm (comm.c) above the event layer: the calls of its    *)
(* owner, the handlers of its ten events, and the owner's callbacks, which *)
(* the handlers call half way and from which the owner calls back into     *)
(* comm.c.  The events behave as EventApi says: a one-shot event or a      *)
(* callback is inactive by the time its handler runs.  The socket is       *)
(* external and modelled from how comm.c uses it.                          *)
(***************************************************************************)
EXTENDS Integers, Sequences, FiniteSets

CONSTANTS Uses,     \* what owners use a comm for, see Init
          Frame,    \* datagrams, struct fde_comm_udp_frame
          MaxQlen,  \* the qlen of comm_udp_write_setup
          MaxLen,   \* the longest write
          SndBuf,   \* size of the socket's send buffer
          RcvBuf    \* size of its receive buffer, or of its accept backlog

ASSUME CommAssumption ==
    /\ Uses \subseteq {"stream", "client", "listener", "udp"}
    /\ Frame \cap {"read", "write", "accept", "connect", "udp_read", "close", "none"} = {}
    /\ MaxQlen \in Nat /\ MaxLen \in Nat /\ SndBuf \in Nat \ {0} /\ RcvBuf \in Nat

VARIABLES
    use,      \* what this comm is used for
    \* struct fde_comm
    closing,  \* is_closing
    cleanup,  \* is_cleanup
    r,        \* r.is_active, r.is_ready, r.is_read
    w,        \* w.is_active, w.is_ready, w.is_write, w.len, w.offset
    a,        \* a.is_active
    co,       \* co.is_active
    udp_r,    \* udp_r.is_active
    udp_w,    \* udp_w.is_active, udp_w.is_primed, udp_w.w_q (qlen its length)
    freed,    \* comm_cb_cleanup has freed it
    \* the event layer
    act,      \* events with is_active set
    \* the thread
    pc,       \* "loop", or what is left to do when the owner's code returns
    told,     \* the callback being executed: operation and status
    \* the socket
    edge,     \* EV_CLEAR notifications not yet collected
    in,       \* bytes, datagrams or connections that can be received
    snd,      \* bytes or datagrams in the send buffer
    peer,     \* "open", "eof" or "reset"
    link      \* "new", "progress", "up" or "failed"

opVars   == <<r, w, a, co, udp_r, udp_w>>
sockVars == <<in, snd, peer, link>>
vars == <<use, closing, cleanup, opVars, freed, act, pc, told, edge, sockVars>>

Silence == <<"none", "none">>

\* After comm_create, in its caller.  A "stream" is an accepted connection, a
\* "client" a socket still to be connected.
Init ==
    /\ use \in Uses
    /\ closing = FALSE /\ cleanup = FALSE /\ freed = FALSE
    /\ r = [active |-> FALSE, ready |-> FALSE, read |-> FALSE]
    /\ w = [active |-> FALSE, ready |-> FALSE, write |-> FALSE, len |-> 0, offset |-> 0]
    /\ a = FALSE /\ co = FALSE /\ udp_r = FALSE
    /\ udp_w = [active |-> FALSE, primed |-> FALSE, q |-> <<>>]
    /\ act = {} /\ edge = {}
    /\ pc = "owner" /\ told = Silence
    /\ in = 0 /\ snd = 0 /\ peer = "open"
    /\ link = IF use = "client" THEN "new" ELSE "up"

-----------------------------------------------------------------------------
(* The socket. *)

Readable == in > 0 \/ peer # "open"
Writable == snd < SndBuf \/ peer = "reset"

\* The events are now those of new.  A persistent event starts with a
\* notification when its filter is already true.
Schedule(new) ==
    /\ act' = new
    /\ edge' = (edge \cap new) \cup
               {e \in (new \ act) \cap {"ev_read", "ev_write"} :
                    IF e = "ev_read" THEN Readable ELSE Writable}

Notify(events) == edge' = edge \cup (events \cap act)

Receive ==
    /\ ~freed /\ peer = "open" /\ link = "up" /\ in < RcvBuf
    /\ in' = in + 1
    /\ Notify({"ev_read"})
    /\ UNCHANGED <<use, closing, cleanup, opVars, freed, act, pc, told, snd, peer, link>>

Drain ==
    /\ ~freed /\ snd > 0
    /\ snd' = snd - 1
    /\ Notify({"ev_write"})
    /\ UNCHANGED <<use, closing, cleanup, opVars, freed, act, pc, told, in, peer, link>>

PeerEnds(how) ==
    /\ ~freed /\ peer = "open" /\ link = "up" /\ use \in {"stream", "client"}
    /\ peer' = how
    /\ in' = IF how = "reset" THEN 0 ELSE in
    /\ snd' = IF how = "reset" THEN 0 ELSE snd
    /\ Notify(IF how = "reset" THEN {"ev_read", "ev_write"} ELSE {"ev_read"})
    /\ UNCHANGED <<use, closing, cleanup, opVars, freed, act, pc, told, link>>

Connected ==
    /\ ~freed /\ link = "progress"
    /\ link' \in {"up", "failed"}
    /\ UNCHANGED <<use, closing, cleanup, opVars, freed, act, pc, told, edge, in, snd, peer>>

-----------------------------------------------------------------------------
(* The owner's calls.  The owner starts nothing on a comm it has closed:    *)
(* conn.c:131 and clt.c:157 drop the pointer.                               *)

InOwner == pc # "loop" /\ pc # "cleanup" /\ ~freed
MayStart(uses) == InOwner /\ ~closing /\ use \in uses /\ link = "up" /\ ~co

\* An event of the owner's own runs.
OwnerEvent ==
    /\ pc = "loop" /\ ~freed
    /\ pc' = "owner"
    /\ UNCHANGED <<use, closing, cleanup, opVars, freed, act, told, edge, sockVars>>

\* A slip of comm_is_close_ready: it does not wait for a write.
close_ready_early == ~r.active /\ ~a /\ ~co /\ ~udp_r /\ ~udp_w.active

comm_is_close_ready == /\ ~r.active /\ ~w.active /\ ~a /\ ~co
                       /\ ~udp_r /\ ~udp_w.active

comm_read ==
    /\ MayStart({"stream", "client"}) /\ ~r.active
    /\ r' = [r EXCEPT !.active = TRUE, !.read = TRUE]
    /\ Schedule(act \cup (IF r.read THEN {} ELSE {"ev_read"})
                    \cup (IF r.ready THEN {"ev_read_cb"} ELSE {}))
    /\ UNCHANGED <<use, closing, cleanup, w, a, co, udp_r, udp_w, freed, pc, told, sockVars>>

\* The end of comm_write, for a socket known to be ready, and a slip: the
\* write waits for the next notification.
WriteNow_never == {}
WriteNow == IF w.ready THEN {"ev_write_cb"} ELSE {}

comm_write(len) ==
    /\ MayStart({"stream", "client"}) /\ ~w.active
    /\ w' = [w EXCEPT !.active = TRUE, !.write = TRUE, !.len = len, !.offset = 0]
    /\ Schedule(act \cup (IF w.write THEN {} ELSE {"ev_write"})
                    \cup WriteNow)
    /\ UNCHANGED <<use, closing, cleanup, r, a, co, udp_r, udp_w, freed, pc, told, sockVars>>

comm_listen ==
    /\ MayStart({"listener"}) /\ ~a
    /\ a' = TRUE
    /\ Schedule(act \cup {"ev_accept"})
    /\ UNCHANGED <<use, closing, cleanup, r, w, co, udp_r, udp_w, freed, pc, told, sockVars>>

comm_connect ==
    /\ InOwner /\ ~closing /\ use = "client" /\ link \in {"new", "failed"} /\ ~co
    /\ co' = TRUE
    /\ Schedule(act \cup {"ev_connect_start"})
    /\ UNCHANGED <<use, closing, cleanup, r, w, a, udp_r, udp_w, freed, pc, told, sockVars>>

comm_udp_read ==
    /\ MayStart({"udp"}) /\ ~udp_r
    /\ udp_r' = TRUE
    /\ Schedule(act \cup {"ev_udp_read"})
    /\ UNCHANGED <<use, closing, cleanup, r, w, a, co, udp_w, freed, pc, told, sockVars>>

comm_udp_write_setup ==
    /\ MayStart({"udp"}) /\ ~udp_w.active
    /\ udp_w' = [udp_w EXCEPT !.active = TRUE, !.primed = FALSE]
    /\ UNCHANGED <<use, closing, cleanup, r, w, a, co, udp_r, freed, act, pc, told, edge, sockVars>>

Queued == {udp_w.q[i] : i \in DOMAIN udp_w.q}

comm_udp_write(fr) ==
    /\ InOwner /\ udp_w.active /\ ~closing
    /\ fr \notin Queued
    /\ Len(udp_w.q) < MaxQlen
    /\ udp_w' = [udp_w EXCEPT !.q = Append(@, fr), !.primed = TRUE]
    /\ Schedule(act \cup (IF udp_w.primed THEN {} ELSE {"ev_udp_write"}))
    /\ UNCHANGED <<use, closing, cleanup, r, w, a, co, udp_r, freed, pc, told, sockVars>>

\* The callbacks comm_close schedules to cancel what is active, and a slip:
\* only the write.
Cancelled_write == IF w.active THEN {"ev_write_cb"} ELSE {}
Cancelled == (IF r.active THEN {"ev_read_cb"} ELSE {}) \cup
             (IF w.active THEN {"ev_write_cb"} ELSE {})

\* The events it deletes, and a slip: not ev_read.
Unused_write == IF ~w.active /\ w.write THEN {"ev_write"} ELSE {}
Unused == (IF ~r.active /\ r.read THEN {"ev_read"} ELSE {}) \cup
          (IF ~w.active /\ w.write THEN {"ev_write"} ELSE {})

\* A second comm_close returns at once.
comm_close ==
    /\ InOwner /\ ~closing
    /\ closing' = TRUE
    /\ cleanup' = comm_is_close_ready
    /\ r' = [r EXCEPT !.read = r.read /\ r.active]
    /\ w' = [w EXCEPT !.write = w.write /\ w.active]
    /\ Schedule((act \ Unused) \cup Cancelled
                \cup (IF comm_is_close_ready THEN {"ev_cleanup"} ELSE {}))
    /\ UNCHANGED <<use, a, co, udp_r, udp_w, freed, pc, told, sockVars>>

Call == \/ comm_read \/ comm_listen \/ comm_connect \/ comm_close
        \/ \E len \in 0..MaxLen : comm_write(len)
        \/ comm_udp_read \/ comm_udp_write_setup
        \/ \E fr \in Frame : comm_udp_write(fr)

-----------------------------------------------------------------------------
(* The handlers.  None is entered for an operation that is over (Expected). *)
(* Their branches for that case are reached only from the closing branch,   *)
(* while another operation is outstanding, and change nothing more.         *)

Fires(e) == pc = "loop" /\ e \in act

\* The handler calls the owner back; rest is what it does afterwards.
CallOwner(o, s, rest) == told' = <<o, s>> /\ pc' = rest

\* is_ready = 1, and a slip: not while no operation is active.
Notified_active(x) == [x EXCEPT !.ready = x.active]
Notified(x) == [x EXCEPT !.ready = TRUE]

comm_cb_read ==
    /\ Fires("ev_read") /\ "ev_read" \in edge
    /\ r' = Notified(r)
    /\ act' = act \cup (IF r.active THEN {"ev_read_cb"} ELSE {})
    /\ edge' = edge \ {"ev_read"}
    /\ UNCHANGED <<use, closing, cleanup, w, a, co, udp_r, udp_w, freed, pc, told, sockVars>>

\* comm_cb_read_cb: a closing comm answers the read, ...
ReadClosing ==
    /\ Fires("ev_read_cb") /\ closing
    /\ r' = [r EXCEPT !.active = FALSE]
    /\ Schedule(act \ {"ev_read_cb"})
    /\ CallOwner("read", "CLOSING", "read_closing")
    /\ UNCHANGED <<use, closing, cleanup, w, a, co, udp_r, udp_w, freed, sockVars>>

\* comm_start_cleanup for a comm that is closing, when it is ready.
StartCleanup(left) ==
    /\ cleanup' = (cleanup \/ comm_is_close_ready)
    /\ Schedule(left \cup (IF ~cleanup /\ comm_is_close_ready THEN {"ev_cleanup"} ELSE {}))

\* ... and goes on from there when the callback returns.
ReadClosed ==
    /\ pc = "read_closing"
    /\ r' = [r EXCEPT !.ready = FALSE, !.read = FALSE]
    /\ StartCleanup(act \ {"ev_read"})
    /\ pc' = "loop" /\ told' = Silence
    /\ UNCHANGED <<use, closing, w, a, co, udp_r, udp_w, freed, sockVars>>

\* Otherwise it reads: what the socket has, or nothing (EAGAIN), or the end.
comm_cb_read_cb ==
    /\ Fires("ev_read_cb") /\ ~closing
    /\ \/ /\ ~Readable
          /\ Schedule(act \ {"ev_read_cb"})
          /\ UNCHANGED <<r, in, pc, told>>
       \/ \E n \in 1..in :
          /\ in' = in - n
          /\ r' = [r EXCEPT !.active = FALSE]
          /\ Schedule(act \ {"ev_read_cb"})
          /\ CallOwner("read", "COMPLETED", "return")
       \/ /\ in = 0 /\ peer # "open"
          /\ r' = [r EXCEPT !.active = FALSE, !.ready = FALSE, !.read = FALSE]
          /\ Schedule(act \ {"ev_read_cb", "ev_read"})
          /\ CallOwner("read", IF peer = "eof" THEN "EOF" ELSE "ERROR", "return")
          /\ UNCHANGED in
    /\ UNCHANGED <<use, closing, cleanup, w, a, co, udp_r, udp_w, freed, snd, peer, link>>

\* The callback comm_cb_write schedules, and a slip: also without a write.
WriteWakes_always == {"ev_write_cb"}
WriteWakes == IF w.active THEN {"ev_write_cb"} ELSE {}

comm_cb_write ==
    /\ Fires("ev_write") /\ "ev_write" \in edge
    /\ w' = Notified(w)
    /\ act' = act \cup WriteWakes
    /\ edge' = edge \ {"ev_write"}
    /\ UNCHANGED <<use, closing, cleanup, r, a, co, udp_r, udp_w, freed, pc, told, sockVars>>

WriteClosing ==
    /\ Fires("ev_write_cb") /\ closing
    /\ w' = [w EXCEPT !.active = FALSE, !.ready = FALSE]
    /\ Schedule(act \ {"ev_write_cb"})
    /\ CallOwner("write", "CLOSING", "closing")
    /\ UNCHANGED <<use, closing, cleanup, r, a, co, udp_r, udp_w, freed, sockVars>>

\* The end of the closing branch of the other handlers.
OpClosed ==
    /\ pc = "closing"
    /\ StartCleanup(act)
    /\ pc' = "loop" /\ told' = Silence
    /\ UNCHANGED <<use, closing, opVars, freed, sockVars>>

\* What write() is asked to take.
Left == w.len - w.offset

\* comm_cb_write_cb and comm_cb_write_complete.  write() takes nothing now
\* (EAGAIN, which is also seen while the buffer has space, but not while it is
\* empty), or a part, and the write goes on; or it is answered: write() had
\* no bytes to take, or fails.
comm_cb_write_cb ==
    /\ Fires("ev_write_cb") /\ ~closing
    /\ Schedule(act \ {"ev_write_cb"})
    /\ \/ /\ peer # "reset" /\ Left > 0 /\ snd > 0
          /\ UNCHANGED <<w, snd, pc, told>>
       \/ /\ peer # "reset"
          /\ \E n \in 1..MaxLen :
                /\ n <= Left /\ n <= SndBuf - snd
                /\ w' = [w EXCEPT !.offset = @ + n]
                /\ snd' = snd + n
          /\ UNCHANGED <<pc, told>>
       \/ /\ w' = [w EXCEPT !.active = FALSE]
          /\ \E s \in {"EOF", "ERROR"} :
                /\ s = "EOF" => Left = 0 /\ peer # "reset"
                /\ CallOwner("write", s, "return")
          /\ UNCHANGED snd
    /\ UNCHANGED <<use, closing, cleanup, r, a, co, udp_r, udp_w, freed, in, peer, link>>

AcceptClosing ==
    /\ Fires("ev_accept") /\ in > 0 /\ closing
    /\ a' = FALSE
    /\ Schedule(act \ {"ev_accept"})
    /\ CallOwner("accept", "CLOSING", "closing")
    /\ UNCHANGED <<use, closing, cleanup, r, w, co, udp_r, udp_w, freed, sockVars>>

\* One turn of the loop of comm_cb_accept: a connection, nothing (EAGAIN), or
\* an error.  It goes on when the callback returns, whatever the owner did.
comm_cb_accept ==
    /\ \/ Fires("ev_accept") /\ in > 0 /\ ~closing
       \/ pc = "accepting"
    /\ \/ /\ in > 0
          /\ in' = in - 1
          /\ Schedule(act \ {"ev_accept"})
          /\ CallOwner("accept", "COMPLETED", "accepting")
       \/ /\ in = 0
          /\ Schedule(act \cup {"ev_accept"})
          /\ pc' = "loop" /\ told' = Silence
          /\ UNCHANGED in
       \/ /\ Schedule(act \cup {"ev_accept"})
          /\ CallOwner("accept", "ERROR", "return")
          /\ UNCHANGED in
    /\ UNCHANGED <<use, closing, cleanup, opVars, freed, snd, peer, link>>

ConnectClosing ==
    /\ Fires("ev_connect_start") /\ closing
    /\ co' = FALSE
    /\ Schedule(act \ {"ev_connect_start"})
    /\ CallOwner("connect", "CLOSING", "closing")
    /\ UNCHANGED <<use, closing, cleanup, r, w, a, udp_r, udp_w, freed, sockVars>>

\* A connect in progress waits for the descriptor to be writable, and a slip:
\* for nothing.
InProgress_lost == act \ {"ev_connect_start"}
InProgress == (act \ {"ev_connect_start"}) \cup {"ev_connect"}

comm_cb_connect_start ==
    /\ Fires("ev_connect_start") /\ ~closing
    /\ link' \in {"progress", "up", "failed"}
    /\ IF link' = "progress"
       THEN /\ Schedule(InProgress)
            /\ UNCHANGED <<co, pc, told>>
       ELSE /\ Schedule(act \ {"ev_connect_start"})
            /\ co' = FALSE
            /\ CallOwner("connect", IF link' = "up" THEN "COMPLETED" ELSE "ERROR", "return")
    /\ UNCHANGED <<use, closing, cleanup, r, w, a, udp_r, udp_w, freed, in, snd, peer>>

\* getsockopt tells how the connect went; it may be still in progress.
comm_cb_connect ==
    /\ Fires("ev_connect")
    /\ IF link = "progress"
       THEN UNCHANGED <<act, edge, co, pc, told>>
       ELSE /\ Schedule(act \ {"ev_connect"})
            /\ co' = FALSE
            /\ CallOwner("connect", IF link = "up" THEN "COMPLETED" ELSE "ERROR", "return")
    /\ UNCHANGED <<use, closing, cleanup, r, w, a, udp_r, udp_w, freed, sockVars>>

UdpReadClosing ==
    /\ Fires("ev_udp_read") /\ in > 0 /\ closing
    /\ udp_r' = FALSE
    /\ Schedule(act \ {"ev_udp_read"})
    /\ CallOwner("udp_read", "CLOSING", "closing")
    /\ UNCHANGED <<use, closing, cleanup, r, w, a, co, udp_w, freed, sockVars>>

\* The event is added again, and a slip: not after an error.
UdpReadAgain_lost(s) == IF s = "ERROR" THEN act \ {"ev_udp_read"} ELSE act
UdpReadAgain(s) == act

\* A datagram, or an error: no memory for it, or recvfrom fails, perhaps
\* because another thread with the same descriptor (udp_srv.c:186) has taken
\* what there was.  The event is added again before the callback.
comm_cb_udp_read ==
    /\ Fires("ev_udp_read") /\ in > 0 /\ ~closing
    /\ \E s \in {"COMPLETED", "ERROR"} :
          /\ CallOwner("udp_read", s, "return")
          /\ in' \in IF s = "COMPLETED" THEN {in - 1} ELSE {in - 1, in}
          /\ Schedule(UdpReadAgain(s))
    /\ UNCHANGED <<use, closing, cleanup, opVars, freed, snd, peer, link>>

\* comm_cb_udp_write of a closing comm hands back every queued datagram, ...
UdpWriteClosing ==
    /\ \/ Fires("ev_udp_write") /\ Writable /\ closing
       \/ pc = "udp_closing"
    /\ udp_w.q # <<>>
    /\ udp_w' = [udp_w EXCEPT !.q = Tail(@)]
    /\ Schedule(act \ {"ev_udp_write"})
    /\ CallOwner(Head(udp_w.q), "CLOSING", "udp_closing")
    /\ UNCHANGED <<use, closing, cleanup, r, w, a, co, udp_r, freed, sockVars>>

\* ... then the operation itself ends.
UdpWriteClosed ==
    /\ \/ Fires("ev_udp_write") /\ Writable /\ closing
       \/ pc = "udp_closing"
    /\ udp_w.q = <<>>
    /\ udp_w' = [udp_w EXCEPT !.active = FALSE, !.primed = FALSE]
    /\ LET ready == ~r.active /\ ~w.active /\ ~a /\ ~co /\ ~udp_r
       IN  /\ cleanup' = (cleanup \/ ready)
           /\ Schedule((act \ {"ev_udp_write"})
                       \cup (IF ~cleanup /\ ready THEN {"ev_cleanup"} ELSE {}))
    /\ pc' = "loop" /\ told' = Silence
    /\ UNCHANGED <<use, closing, r, w, a, co, udp_r, freed, sockVars>>

\* One turn of its loop of sendto() calls.  It ends when the socket takes no
\* more, and is then primed again, or when the queue is empty.
UdpTurn == \/ Fires("ev_udp_write") /\ Writable /\ ~closing
           \/ pc = "udp_sending"

UdpSend ==
    /\ UdpTurn /\ udp_w.q # <<>>
    /\ \E s \in {"COMPLETED", "ERROR"} :
          /\ s = "COMPLETED" => snd < SndBuf
          /\ snd' = IF s = "COMPLETED" THEN snd + 1 ELSE snd
          /\ CallOwner(Head(udp_w.q), s, "udp_sending")
    /\ udp_w' = [udp_w EXCEPT !.q = Tail(@), !.primed = @ /\ pc = "udp_sending"]
    /\ Schedule(IF pc = "loop" THEN act \ {"ev_udp_write"} ELSE act)
    /\ UNCHANGED <<use, closing, cleanup, r, w, a, co, udp_r, freed, in, peer, link>>

\* Whether to prime again, and a slip: never.
Prime_never == FALSE
Prime == udp_w.q # <<>>

UdpSent ==
    /\ UdpTurn
    /\ udp_w.q # <<>> => snd = SndBuf
    /\ udp_w' = [udp_w EXCEPT !.primed = Prime \/ (@ /\ pc = "udp_sending")]
    /\ Schedule((IF pc = "loop" THEN act \ {"ev_udp_write"} ELSE act)
                \cup (IF Prime THEN {"ev_udp_write"} ELSE {}))
    /\ pc' = "loop" /\ told' = Silence
    /\ UNCHANGED <<use, closing, cleanup, r, w, a, co, udp_r, freed, sockVars>>

\* comm_cb_cleanup: the close callback, then everything is freed.
comm_cb_cleanup ==
    /\ Fires("ev_cleanup")
    /\ Schedule(act \ {"ev_cleanup"})
    /\ CallOwner("close", "COMPLETED", "cleanup")
    /\ UNCHANGED <<use, closing, cleanup, opVars, freed, sockVars>>

Freed ==
    /\ pc = "cleanup"
    /\ freed' = TRUE
    /\ act' = {} /\ edge' = {}
    /\ pc' = "loop" /\ told' = Silence
    /\ UNCHANGED <<use, closing, cleanup, opVars, sockVars>>

\* The owner's code returns to a handler with nothing left to do, or to the
\* event loop.
Return ==
    /\ pc \in {"owner", "return"}
    /\ pc' = "loop" /\ told' = Silence
    /\ UNCHANGED <<use, closing, cleanup, opVars, freed, act, edge, sockVars>>

Rest == \/ Return \/ ReadClosed \/ OpClosed \/ Freed

OnReadCb == ReadClosing \/ comm_cb_read_cb
OnWriteCb == WriteClosing \/ comm_cb_write_cb
OnAccept == AcceptClosing \/ comm_cb_accept
OnConnectStart == ConnectClosing \/ comm_cb_connect_start
OnUdpRead == UdpReadClosing \/ comm_cb_udp_read
OnUdpWrite == UdpWriteClosing \/ UdpWriteClosed \/ UdpSend \/ UdpSent

\* The events on each filter of the descriptor, one at a time (FdeDuties).
OnReadable == comm_cb_read \/ OnAccept \/ OnUdpRead
OnWritable == comm_cb_write \/ comm_cb_connect \/ OnUdpWrite

Handler == OnReadable \/ OnWritable \/ OnReadCb \/ OnWriteCb \/ OnConnectStart \/ comm_cb_cleanup

Next == \/ OwnerEvent \/ Call \/ Rest \/ Handler
        \/ Receive \/ Drain \/ Connected
        \/ \E how \in {"eof", "reset"} : PeerEnds(how)

Spec == Init /\ [][Next]_vars

\* The owner's callbacks return.  The event layer runs every active callback
\* and delivers every event whose filter stays true, whatever else it has to
\* do (CallbackRuns of Fde); that is strong fairness, because the owner's
\* events come in between.  The peer reads what it is sent and answers a
\* connect.
FairSpec ==
    /\ Spec
    /\ WF_vars(Rest) /\ WF_vars(Drain \/ Connected)
    /\ SF_vars(OnReadable) /\ SF_vars(OnWritable)
    /\ SF_vars(OnReadCb) /\ SF_vars(OnWriteCb)
    /\ SF_vars(OnConnectStart \/ comm_cb_cleanup)

-----------------------------------------------------------------------------
(* Properties. *)

Op == {"read", "write", "accept", "connect", "udp_read"} \cup Frame
Event == {"ev_read", "ev_read_cb", "ev_write", "ev_write_cb", "ev_accept", "ev_connect",
          "ev_connect_start", "ev_udp_read", "ev_udp_write", "ev_cleanup"}

\* Every variable holds a value of the C type it models.
TypeOK ==
    /\ use \in Uses
    /\ closing \in BOOLEAN /\ cleanup \in BOOLEAN /\ freed \in BOOLEAN
    /\ r \in [active : BOOLEAN, ready : BOOLEAN, read : BOOLEAN]
    /\ w \in [active : BOOLEAN, ready : BOOLEAN, write : BOOLEAN,
             len : 0..MaxLen, offset : 0..MaxLen]
    /\ a \in BOOLEAN /\ co \in BOOLEAN /\ udp_r \in BOOLEAN
    /\ udp_w \in [active : BOOLEAN, primed : BOOLEAN, q : Seq(Frame)]
    /\ act \subseteq Event /\ edge \subseteq {"ev_read", "ev_write"}
    /\ pc \in {"loop", "owner", "return", "closing", "read_closing", "accepting",
               "udp_closing", "udp_sending", "cleanup"}
    /\ told \in (Op \cup {"none", "close"}) \X {"none", "COMPLETED", "CLOSING", "ERROR", "EOF"}
    /\ in \in 0..RcvBuf /\ snd \in 0..SndBuf
    /\ peer \in {"open", "eof", "reset"}
    /\ link \in {"new", "progress", "up", "failed"}

\* No handler is entered for an operation that is over ("but not active?",
\* comm.c:184, 321, 386, 552), however the owner's calls and the events
\* interleave: a closing comm, whose handlers do not look at is_active before
\* they answer, answers nothing twice.
Expected ==
    /\ "ev_read_cb" \in act => r.active
    /\ "ev_write_cb" \in act => w.active /\ (closing \/ w.ready)
    /\ "ev_accept" \in act => a
    /\ "ev_connect_start" \in act \/ "ev_connect" \in act => co
    /\ "ev_udp_read" \in act => udp_r
    /\ "ev_udp_write" \in act => udp_w.active /\ udp_w.primed

\* No wake-up is lost: whatever is outstanding, the event that brings its
\* handler back is active, and where ev_read and ev_write tell of a change only
\* once, the change is not yet told, or its callback is scheduled, or it is
\* still to come (a send buffer that is not empty drains).  A closing comm
\* with nothing outstanding is cleaned up, a client perhaps not (CloseEnds).
Awaited ==
    /\ r.active => \/ "ev_read_cb" \in act
                   \/ "ev_read" \in act /\ ~closing /\ (Readable => "ev_read" \in edge)
    /\ w.active => \/ "ev_write_cb" \in act
                   \/ "ev_write" \in act /\ ~closing /\ ("ev_write" \in edge \/ snd > 0)
    /\ a => "ev_accept" \in act \/ pc = "accepting"
    /\ co => "ev_connect_start" \in act \/ "ev_connect" \in act
    /\ udp_r => "ev_udp_read" \in act
    /\ udp_w.q # <<>> => "ev_udp_write" \in act \/ pc \in {"udp_sending", "udp_closing"}
    /\ closing /\ comm_is_close_ready /\ use # "client" =>
          cleanup \/ pc \in {"closing", "read_closing"}
    /\ cleanup => "ev_cleanup" \in act \/ pc = "cleanup" \/ freed

\* What the event layer asks of comm.c: never two active events on one filter
\* of the descriptor; and when comm_cb_cleanup closes the descriptor and
\* frees the events, at most ev_write is still active.
FdeDuties ==
    /\ Cardinality(act \cap {"ev_read", "ev_accept", "ev_udp_read"}) <= 1
    /\ Cardinality(act \cap {"ev_write", "ev_connect", "ev_udp_write"}) <= 1
    /\ pc = "cleanup" => act \subseteq {"ev_write"}

\* comm.c:467: "All of these should be inactive at this point".
CleanupInactive == pc = "cleanup" => act = {}

\* comm.c:277-279: "If we wrote 0 bytes, we aren't going to make any further
\* progress.  Signify EOF; the caller will note that it was a partial write."
\* A write of some bytes that ends with EOF has not taken all of them.
EofIsPartial == told = <<"write", "EOF">> /\ w.len > 0 => w.offset < w.len

out == {o \in Op : \/ o = "read" /\ r.active
                   \/ o = "write" /\ w.active
                   \/ o = "accept" /\ a
                   \/ o = "connect" /\ co
                   \/ o = "udp_read" /\ udp_r
                   \/ o \in Queued}
closed == freed \/ pc = "cleanup"

Api == INSTANCE CommApi WITH GoesOn <- {"accept", "udp_read"}

\* comm.c keeps the promises of comm.h: every callback answers an operation
\* that is outstanding, CLOSING is said only when closing, and the close
\* callback is made once, with nothing outstanding, and is the last.
ApiSpec == Api!Spec

\* A read is answered once there is something to read, although ev_read tells
\* of a change only once and perhaps while no read is active.
ReadAnswered == r.active /\ Readable ~> ~r.active

\* A write is answered, whatever part of it the socket takes at a time.
WriteAnswered == w.active ~> ~w.active

\* A connect is answered, also when the comm is closed meanwhile.
ConnectAnswered == co ~> ~co

\* Every queued datagram is answered (comm.h:277: "Each queued item will have
\* the callback called, either on success or failure/close").
FrameAnswered == \A fr \in Frame : fr \in Queued ~> fr \notin Queued

\* comm_close of a connected stream ends: the close callback is made and the
\* comm is freed.
StreamCloseEnds == closing /\ use = "stream" ~> freed

\* comm.c:891-892: "Once all IO on the given socket has completed or
\* cancelled, the close callback will be made, then the state will be freed."
CloseEnds == closing /\ out = {} ~> freed
=============================================================================
