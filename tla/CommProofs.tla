----------------------------- MODULE CommProofs -----------------------------
(***************************************************************************)
(* Proofs about Comm, for every length of queues, buffers and writes: what *)
(* the handlers expect of the state and what the event layer asks of       *)
(* comm.c hold always, no operation waits for an event that is over, and   *)
(* comm.c implements CommApi.  Then, about Udp, that the client owns       *)
(* exactly the datagrams that are in its queue and never falls silent.     *)
(***************************************************************************)
EXTENDS Udp, FiniteSetTheorems, SequenceTheorems, TLAPS

-----------------------------------------------------------------------------
(* The inductive invariant. *)

\* Each kind of comm has its own operations; a client has a stream's when it
\* is connected.
Kinds ==
    /\ use \notin {"stream", "client"} \/ link # "up" \/ co =>
          /\ ~r.active /\ ~r.read
          /\ ~w.active /\ ~w.write
    /\ a => use = "listener"
    /\ co \/ link # "up" => use = "client"
    /\ udp_r \/ udp_w.active => use = "udp"

\* What an active event tells of its operation, beyond Expected.
Scheduled ==
    /\ "ev_read" \in act => r.read
    /\ "ev_write" \in act => w.write
    /\ ~({"ev_connect", "ev_connect_start"} \subseteq act)
    /\ "ev_cleanup" \in act => cleanup

\* What a handler still has to do when the owner's code returns.
Pending ==
    /\ pc = "accepting" => a
    /\ pc \in {"udp_sending", "udp_closing"} => udp_w.active
    /\ pc \in {"closing", "read_closing", "udp_closing"} => closing
    /\ pc = "cleanup" => cleanup /\ "ev_cleanup" \notin act /\ ~freed
    /\ freed => pc = "loop" /\ act = {}

\* A comm is cleaned up when nothing is active; a read that is not active
\* leaves its event behind only until the handler goes on.
Ending ==
    /\ closing /\ r.read => r.active \/ pc = "read_closing"
    /\ cleanup => closing /\ comm_is_close_ready

\* The queue of datagrams holds each of them once, and is that of an active
\* operation.
Queue ==
    /\ udp_w.q # <<>> => udp_w.active
    /\ \A m, n \in DOMAIN udp_w.q : udp_w.q[m] = udp_w.q[n] => m = n

Inv == TypeOK /\ Expected /\ Kinds /\ Scheduled /\ Pending /\ Ending /\ Queue

-----------------------------------------------------------------------------
(* The socket. *)

\* The socket changes no operation, and a connection that is up stays up.
LEMMA SocketInv ==
  ASSUME Inv, Receive \/ Drain \/ Connected \/ \E how \in {"eof", "reset"} : PeerEnds(how)
  PROVE  Inv'
<1> USE DEF Inv
<1>1. UNCHANGED <<use, closing, cleanup, opVars, freed, act, pc, told>>
  BY Zenon DEF Receive, Drain, Connected, PeerEnds
<1>2. link' # "up" => link # "up"
  BY Zenon DEF Receive, Drain, Connected, PeerEnds
<1>3. edge' \subseteq {"ev_read", "ev_write"}
  BY Zenon DEF TypeOK, Receive, Drain, Connected, PeerEnds, Notify
<1>4. /\ in' \in 0..RcvBuf /\ snd' \in 0..SndBuf
      /\ peer' \in {"open", "eof", "reset"}
      /\ link' \in {"new", "progress", "up", "failed"}
  BY CommAssumption DEF TypeOK, Receive, Drain, Connected, PeerEnds
<1>5. TypeOK'
  BY <1>1, <1>3, <1>4 DEF TypeOK, opVars
<1>6. Expected' /\ Kinds'
  BY <1>1, <1>2, Zenon DEF Expected, Kinds, opVars
<1>7. Scheduled' /\ Pending' /\ Ending' /\ Queue'
  BY <1>1, Zenon DEF Scheduled, Pending, Ending, Queue, comm_is_close_ready, opVars
<1> QED BY <1>5, <1>6, <1>7, Zenon

-----------------------------------------------------------------------------
(* The owner's calls. *)

\* The owner's code is entered, or left, with nothing else to do.
LEMMA OwnerInv == ASSUME Inv, OwnerEvent \/ Return PROVE Inv'
<1> USE DEF Inv, OwnerEvent, Return
<1>1. TypeOK'
  <2>1. CASE OwnerEvent
    BY <2>1 DEF TypeOK, sockVars, opVars
  <2>2. CASE Return
    BY <2>2 DEF TypeOK, sockVars, opVars, Op, Silence
  <2> QED BY <2>1, <2>2, Zenon
<1>2. Expected'
  BY Zenon DEF Expected, TypeOK, opVars
<1>3. Kinds' /\ Scheduled'
  BY DEF Kinds, Expected, Scheduled, TypeOK, sockVars, opVars
<1>4. Pending' /\ Ending'
  BY DEF Pending, Ending, Expected, comm_is_close_ready, TypeOK, opVars
<1>5. Queue'
  BY Zenon DEF Queue, TypeOK, opVars
<1> QED BY <1>1, <1>2, <1>3, <1>4, <1>5, Zenon

\* comm_read schedules ev_read_cb only together with is_active.
LEMMA ReadInv == ASSUME Inv, comm_read PROVE Inv'
<1> USE DEF Inv, comm_read, MayStart, InOwner, Schedule
<1>1. TypeOK'
  <2>1. act' \subseteq Event /\ edge' \subseteq {"ev_read", "ev_write"}
    BY CommAssumption, Zenon DEF TypeOK, Event
  <2>2. r' \in [active : BOOLEAN, ready : BOOLEAN, read : BOOLEAN]
    BY CommAssumption, Zenon DEF TypeOK
  <2> QED BY CommAssumption, <2>1, <2>2 DEF TypeOK, sockVars, opVars
<1>2. Expected'
  BY Zenon DEF Expected, TypeOK, opVars
<1>3. Kinds' /\ Scheduled'
  BY Zenon DEF Kinds, Expected, Scheduled, TypeOK, sockVars, opVars
<1>4. Pending' /\ Ending'
  BY Zenon DEF Pending, Ending, Expected, comm_is_close_ready, TypeOK, opVars
<1>5. Queue'
  BY Zenon DEF Queue, TypeOK, opVars
<1> QED BY <1>1, <1>2, <1>3, <1>4, <1>5, Zenon

\* comm_write schedules ev_write_cb only for a socket that is ready.
LEMMA WriteInv == ASSUME Inv, NEW len \in 0..MaxLen, comm_write(len) PROVE Inv'
<1> USE DEF Inv, comm_write, WriteNow, MayStart, InOwner, Schedule
<1>1. TypeOK'
  <2>1. act' \subseteq Event /\ edge' \subseteq {"ev_read", "ev_write"}
    BY CommAssumption, Zenon DEF TypeOK, Event
  <2>2. w' \in [active : BOOLEAN, ready : BOOLEAN, write : BOOLEAN,
                len : 0..MaxLen, offset : 0..MaxLen]
    <3>1. 0 \in 0..MaxLen
      BY CommAssumption
    <3> QED BY <3>1, Zenon DEF TypeOK
  <2>3. TypeOK /\ UNCHANGED <<use, closing, cleanup, r, a, co, udp_r, udp_w, freed, pc, told, in,
                            snd, peer, link>>
    BY Zenon DEF sockVars
  <2> HIDE DEF Inv, comm_write
  <2> QED BY <2>1, <2>2, <2>3 DEF TypeOK
<1>2. Expected'
  BY Zenon DEF Expected, TypeOK, opVars
<1>3. Kinds' /\ Scheduled'
  BY Zenon DEF Kinds, Expected, Scheduled, TypeOK, sockVars, opVars
<1>4. Pending' /\ Ending'
  BY Zenon DEF Pending, Ending, Expected, comm_is_close_ready, TypeOK, opVars
<1>5. Queue'
  BY Zenon DEF Queue, TypeOK, opVars
<1> QED BY <1>1, <1>2, <1>3, <1>4, <1>5, Zenon

\* A listener starts to accept.
LEMMA ListenInv == ASSUME Inv, comm_listen PROVE Inv'
<1> USE DEF Inv, comm_listen, MayStart, InOwner, Schedule
<1>1. TypeOK'
  <2>1. act' \subseteq Event /\ edge' \subseteq {"ev_read", "ev_write"}
    BY CommAssumption, Zenon DEF TypeOK, Event
  <2> QED BY CommAssumption, <2>1 DEF TypeOK, sockVars, opVars
<1>2. Expected'
  BY Zenon DEF Expected, TypeOK, opVars
<1>3. Kinds' /\ Scheduled'
  BY Zenon DEF Kinds, Expected, Scheduled, TypeOK, sockVars, opVars
<1>4. Pending' /\ Ending'
  BY Zenon DEF Pending, Ending, Expected, comm_is_close_ready, TypeOK, opVars
<1>5. Queue'
  BY Zenon DEF Queue, TypeOK, opVars
<1> QED BY <1>1, <1>2, <1>3, <1>4, <1>5, Zenon

\* comm_connect finds neither event active.
LEMMA ConnectInv == ASSUME Inv, comm_connect PROVE Inv'
<1> USE DEF Inv, comm_connect, MayStart, InOwner, Schedule
<1>1. TypeOK'
  <2>1. act' \subseteq Event /\ edge' \subseteq {"ev_read", "ev_write"}
    BY CommAssumption, Zenon DEF TypeOK, Event
  <2> QED BY CommAssumption, <2>1 DEF TypeOK, sockVars, opVars
<1>2. Expected'
  BY Zenon DEF Expected, TypeOK, opVars
<1>3. Kinds' /\ Scheduled'
  BY Zenon DEF Kinds, Expected, Scheduled, TypeOK, sockVars, opVars
<1>4. Pending' /\ Ending'
  BY Zenon DEF Pending, Ending, Expected, comm_is_close_ready, TypeOK, opVars
<1>5. Queue'
  BY Zenon DEF Queue, TypeOK, opVars
<1> QED BY <1>1, <1>2, <1>3, <1>4, <1>5, Zenon

\* A comm for datagrams starts to read, ...
LEMMA UdpReadInv == ASSUME Inv, comm_udp_read PROVE Inv'
<1> USE DEF Inv, comm_udp_read, MayStart, InOwner, Schedule
<1>1. TypeOK'
  <2>1. act' \subseteq Event /\ edge' \subseteq {"ev_read", "ev_write"}
    BY CommAssumption, Zenon DEF TypeOK, Event
  <2> QED BY CommAssumption, <2>1 DEF TypeOK, sockVars, opVars
<1>2. Expected'
  BY Zenon DEF Expected, TypeOK, opVars
<1>3. Kinds' /\ Scheduled'
  BY Zenon DEF Kinds, Expected, Scheduled, TypeOK, sockVars, opVars
<1>4. Pending' /\ Ending'
  BY Zenon DEF Pending, Ending, Expected, comm_is_close_ready, TypeOK, opVars
<1>5. Queue'
  BY Zenon DEF Queue, TypeOK, opVars
<1> QED BY <1>1, <1>2, <1>3, <1>4, <1>5, Zenon

\* ... or to write: its queue is empty, being that of no operation.
LEMMA UdpSetupInv == ASSUME Inv, comm_udp_write_setup PROVE Inv'
<1> USE DEF Inv, comm_udp_write_setup, MayStart, InOwner, Schedule
<1>1. TypeOK'
  <2>1. udp_w' \in [active : BOOLEAN, primed : BOOLEAN, q : Seq(Frame)]
    BY CommAssumption, Zenon DEF TypeOK
  <2> QED BY CommAssumption, <2>1 DEF TypeOK, sockVars, opVars
<1>2. Expected'
  BY Zenon DEF Expected, TypeOK, opVars
<1>3. Kinds' /\ Scheduled'
  BY Zenon DEF Kinds, Expected, Scheduled, TypeOK, sockVars, opVars
<1>4. Pending' /\ Ending'
  BY Zenon DEF Pending, Ending, Expected, comm_is_close_ready, TypeOK, opVars
<1>5. Queue'
  BY Zenon DEF Queue, TypeOK, opVars
<1> QED BY <1>1, <1>2, <1>3, <1>4, <1>5, Zenon

\* A datagram that is not queued is queued once.
LEMMA UdpWriteInv == ASSUME Inv, NEW fr \in Frame, comm_udp_write(fr) PROVE Inv'
<1> USE DEF Inv, comm_udp_write, MayStart, InOwner, Schedule
<1>1. TypeOK'
  <2>1. act' \subseteq Event /\ edge' \subseteq {"ev_read", "ev_write"}
    BY CommAssumption, Zenon DEF TypeOK, Event
  <2>2. udp_w' \in [active : BOOLEAN, primed : BOOLEAN, q : Seq(Frame)]
    <3>1. Append(udp_w.q, fr) \in Seq(Frame)
      BY DEF TypeOK
    <3> QED BY <3>1, Zenon DEF TypeOK
  <2> QED BY CommAssumption, <2>1, <2>2 DEF TypeOK, sockVars, opVars
<1>2. Expected'
  BY Zenon DEF Expected, TypeOK, opVars
<1>3. Kinds' /\ Scheduled'
  BY Zenon DEF Kinds, Expected, Scheduled, TypeOK, sockVars, opVars
<1>4. Pending' /\ Ending'
  BY Zenon DEF Pending, Ending, Expected, comm_is_close_ready, TypeOK, opVars
<1>5. Queue'
  <2>1. udp_w'.q = Append(udp_w.q, fr) /\ udp_w.q \in Seq(Frame)
    BY Zenon DEF TypeOK
  <2>2. \A n \in DOMAIN udp_w.q : udp_w.q[n] # fr
    BY Zenon DEF Queued
  <2> QED BY <2>1, <2>2 DEF Queue, TypeOK
<1> QED BY <1>1, <1>2, <1>3, <1>4, <1>5, Zenon

\* comm_close deletes the event of a read that is not active and schedules the
\* cleanup only when nothing is.
LEMMA CloseInv == ASSUME Inv, comm_close PROVE Inv'
<1> USE DEF Inv, comm_close, Unused, Cancelled, comm_is_close_ready, MayStart, InOwner, Schedule
<1>1. TypeOK'
  <2>1. act' \subseteq Event /\ edge' \subseteq {"ev_read", "ev_write"}
    BY CommAssumption, Zenon DEF TypeOK, Event
  <2>2. r' \in [active : BOOLEAN, ready : BOOLEAN, read : BOOLEAN]
    BY CommAssumption, Zenon DEF TypeOK
  <2>3. w' \in [active : BOOLEAN, ready : BOOLEAN, write : BOOLEAN,
                len : 0..MaxLen, offset : 0..MaxLen]
    BY CommAssumption, Zenon DEF TypeOK
  <2> QED BY CommAssumption, <2>1, <2>2, <2>3 DEF TypeOK, sockVars, opVars
<1>2. Expected'
  BY Zenon DEF Expected, TypeOK, opVars
<1>3. Kinds' /\ Scheduled'
  <2>1. Kinds'
    BY Zenon DEF Kinds, TypeOK, sockVars
  <2>2. "ev_read" \in act' => r'.read
    BY Zenon DEF Scheduled, TypeOK
  <2>3. "ev_write" \in act' => w'.write
    BY Zenon DEF Scheduled, TypeOK
  <2>4. ~({"ev_connect", "ev_connect_start"} \subseteq act')
    BY Zenon DEF Scheduled
  <2>5. "ev_cleanup" \in act' => cleanup'
    BY Zenon DEF Scheduled, Ending
  <2> QED BY <2>1, <2>2, <2>3, <2>4, <2>5, Zenon DEF Scheduled
<1>4. Pending' /\ Ending'
  BY Zenon DEF Pending, Ending, Expected, comm_is_close_ready, TypeOK, opVars
<1>5. Queue'
  BY Zenon DEF Queue, TypeOK, opVars
<1> QED BY <1>1, <1>2, <1>3, <1>4, <1>5, Zenon

-----------------------------------------------------------------------------
(* The handlers. *)

\* A notification wakes a read only while it is active.
LEMMA CbReadInv == ASSUME Inv, comm_cb_read PROVE Inv'
<1> USE DEF Inv, comm_cb_read, Notified, Fires, CallOwner, Schedule
<1>1. TypeOK'
  <2>1. act' \subseteq Event /\ edge' \subseteq {"ev_read", "ev_write"}
    BY CommAssumption, Zenon DEF TypeOK, Event
  <2>2. r' \in [active : BOOLEAN, ready : BOOLEAN, read : BOOLEAN]
    BY CommAssumption, Zenon DEF TypeOK
  <2> QED BY CommAssumption, <2>1, <2>2 DEF TypeOK, sockVars, opVars
<1>2. Expected'
  BY Zenon DEF Expected, TypeOK, opVars
<1>3. Kinds' /\ Scheduled'
  BY Zenon DEF Kinds, Expected, Scheduled, TypeOK, sockVars, opVars
<1>4. Pending' /\ Ending'
  BY Zenon DEF Pending, Ending, Expected, comm_is_close_ready, TypeOK, opVars
<1>5. Queue'
  BY Zenon DEF Queue, TypeOK, opVars
<1> QED BY <1>1, <1>2, <1>3, <1>4, <1>5, Zenon

\* The read is over, and its event left for ReadClosed ...
LEMMA ReadClosingInv == ASSUME Inv, ReadClosing PROVE Inv'
<1> USE DEF Inv, ReadClosing, Fires, CallOwner, Schedule
<1>1. TypeOK'
  <2>1. act' \subseteq Event /\ edge' \subseteq {"ev_read", "ev_write"}
    BY CommAssumption, Zenon DEF TypeOK, Event
  <2>2. r' \in [active : BOOLEAN, ready : BOOLEAN, read : BOOLEAN]
    BY CommAssumption, Zenon DEF TypeOK
  <2>3. told' \in (Op \cup {"none", "close"}) \X {"none", "COMPLETED", "CLOSING", "ERROR", "EOF"}
    BY CommAssumption, Zenon DEF TypeOK, Op, Silence
  <2> QED BY CommAssumption, <2>1, <2>2, <2>3 DEF TypeOK, sockVars, opVars
<1>2. Expected'
  BY Zenon DEF Expected, TypeOK, opVars
<1>3. Kinds' /\ Scheduled'
  BY Zenon DEF Kinds, Expected, Scheduled, TypeOK, sockVars, opVars
<1>4. Pending' /\ Ending'
  BY Zenon DEF Pending, Ending, Expected, comm_is_close_ready, TypeOK, opVars
<1>5. Queue'
  BY Zenon DEF Queue, TypeOK, opVars
<1> QED BY <1>1, <1>2, <1>3, <1>4, <1>5, Zenon

\* ... to delete.  Only then may the comm be cleaned up.
LEMMA ReadClosedInv == ASSUME Inv, ReadClosed PROVE Inv'
<1> USE DEF Inv, ReadClosed, StartCleanup, comm_is_close_ready, Fires, CallOwner, Schedule
<1>1. TypeOK'
  <2>1. act' \subseteq Event /\ edge' \subseteq {"ev_read", "ev_write"}
    BY CommAssumption, Zenon DEF TypeOK, Event
  <2>2. r' \in [active : BOOLEAN, ready : BOOLEAN, read : BOOLEAN]
    BY CommAssumption, Zenon DEF TypeOK
  <2>3. told' \in (Op \cup {"none", "close"}) \X {"none", "COMPLETED", "CLOSING", "ERROR", "EOF"}
    BY CommAssumption, Zenon DEF TypeOK, Op, Silence
  <2> QED BY CommAssumption, <2>1, <2>2, <2>3 DEF TypeOK, sockVars, opVars
<1>2. Expected'
  BY Zenon DEF Expected, TypeOK, opVars
<1>3. Kinds' /\ Scheduled'
  BY Zenon DEF Kinds, Expected, Scheduled, TypeOK, sockVars, opVars
<1>4. Pending' /\ Ending'
  BY Zenon DEF Pending, Ending, Expected, comm_is_close_ready, TypeOK, opVars
<1>5. Queue'
  BY Zenon DEF Queue, TypeOK, opVars
<1> QED BY <1>1, <1>2, <1>3, <1>4, <1>5, Zenon

\* A read of a comm that is not closing is answered, or waits on.
LEMMA CbReadCbInv == ASSUME Inv, comm_cb_read_cb PROVE Inv'
<1> USE DEF Inv, comm_cb_read_cb, Readable, Fires, CallOwner, Schedule
<1>1. TypeOK'
  <2>1. act' \subseteq Event /\ edge' \subseteq {"ev_read", "ev_write"}
    BY CommAssumption, Zenon DEF TypeOK, Event
  <2>2. r' \in [active : BOOLEAN, ready : BOOLEAN, read : BOOLEAN]
    BY CommAssumption, ZenonT(30) DEF TypeOK
  <2>3. told' \in (Op \cup {"none", "close"}) \X {"none", "COMPLETED", "CLOSING", "ERROR", "EOF"}
    BY CommAssumption DEF TypeOK, Op, Silence
  <2> QED BY CommAssumption, <2>1, <2>2, <2>3 DEF TypeOK, sockVars, opVars
<1>2. Expected'
  BY Zenon DEF Expected, TypeOK, opVars
<1>3. Kinds' /\ Scheduled'
  BY Zenon DEF Kinds, Expected, Scheduled, TypeOK, sockVars, opVars
<1>4. Pending' /\ Ending'
  BY Zenon DEF Pending, Ending, Expected, comm_is_close_ready, TypeOK, opVars
<1>5. Queue'
  BY Zenon DEF Queue, TypeOK, opVars
<1> QED BY <1>1, <1>2, <1>3, <1>4, <1>5, Zenon

\* A notification wakes a write only while it is active.
LEMMA CbWriteInv == ASSUME Inv, comm_cb_write PROVE Inv'
<1> USE DEF Inv, comm_cb_write, WriteWakes, Notified, Fires, CallOwner, Schedule
<1>1. TypeOK'
  <2>1. act' \subseteq Event /\ edge' \subseteq {"ev_read", "ev_write"}
    BY CommAssumption, Zenon DEF TypeOK, Event
  <2>2. w' \in [active : BOOLEAN, ready : BOOLEAN, write : BOOLEAN,
                len : 0..MaxLen, offset : 0..MaxLen]
    BY CommAssumption, Zenon DEF TypeOK
  <2> QED BY CommAssumption, <2>1, <2>2 DEF TypeOK, sockVars, opVars
<1>2. Expected'
  BY Zenon DEF Expected, TypeOK, opVars
<1>3. Kinds' /\ Scheduled'
  BY Zenon DEF Kinds, Expected, Scheduled, TypeOK, sockVars, opVars
<1>4. Pending' /\ Ending'
  BY Zenon DEF Pending, Ending, Expected, comm_is_close_ready, TypeOK, opVars
<1>5. Queue'
  BY Zenon DEF Queue, TypeOK, opVars
<1> QED BY <1>1, <1>2, <1>3, <1>4, <1>5, Zenon

\* The write is over; ev_write stays.
LEMMA WriteClosingInv == ASSUME Inv, WriteClosing PROVE Inv'
<1> USE DEF Inv, WriteClosing, Fires, CallOwner, Schedule
<1>1. TypeOK'
  <2>1. act' \subseteq Event /\ edge' \subseteq {"ev_read", "ev_write"}
    BY CommAssumption, Zenon DEF TypeOK, Event
  <2>2. w' \in [active : BOOLEAN, ready : BOOLEAN, write : BOOLEAN,
                len : 0..MaxLen, offset : 0..MaxLen]
    BY CommAssumption, Zenon DEF TypeOK
  <2>3. told' \in (Op \cup {"none", "close"}) \X {"none", "COMPLETED", "CLOSING", "ERROR", "EOF"}
    BY CommAssumption, Zenon DEF TypeOK, Op, Silence
  <2> QED BY CommAssumption, <2>1, <2>2, <2>3 DEF TypeOK, sockVars, opVars
<1>2. Expected'
  BY Zenon DEF Expected, TypeOK, opVars
<1>3. Kinds' /\ Scheduled'
  BY Zenon DEF Kinds, Expected, Scheduled, TypeOK, sockVars, opVars
<1>4. Pending' /\ Ending'
  BY Zenon DEF Pending, Ending, Expected, comm_is_close_ready, TypeOK, opVars
<1>5. Queue'
  BY Zenon DEF Queue, TypeOK, opVars
<1> QED BY <1>1, <1>2, <1>3, <1>4, <1>5, Zenon

\* The cleanup is scheduled once, when nothing is active.
LEMMA OpClosedInv == ASSUME Inv, OpClosed PROVE Inv'
<1> USE DEF Inv, OpClosed, StartCleanup, comm_is_close_ready, Fires, CallOwner, Schedule
<1>1. TypeOK'
  <2>1. act' \subseteq Event /\ edge' \subseteq {"ev_read", "ev_write"}
    BY CommAssumption, Zenon DEF TypeOK, Event
  <2>2. told' \in (Op \cup {"none", "close"}) \X {"none", "COMPLETED", "CLOSING", "ERROR", "EOF"}
    BY CommAssumption, Zenon DEF TypeOK, Op, Silence
  <2> QED BY CommAssumption, <2>1, <2>2 DEF TypeOK, sockVars, opVars
<1>2. Expected'
  BY Zenon DEF Expected, TypeOK, opVars
<1>3. Kinds' /\ Scheduled'
  BY Zenon DEF Kinds, Expected, Scheduled, TypeOK, sockVars, opVars
<1>4. Pending' /\ Ending'
  BY Zenon DEF Pending, Ending, Expected, comm_is_close_ready, TypeOK, opVars
<1>5. Queue'
  BY Zenon DEF Queue, TypeOK, opVars
<1> QED BY <1>1, <1>2, <1>3, <1>4, <1>5, Zenon

\* A write never takes more than its length.
LEMMA CbWriteCbInv == ASSUME Inv, comm_cb_write_cb PROVE Inv'
<1> USE DEF Inv, comm_cb_write_cb, Fires, CallOwner, Schedule
<1>1. TypeOK'
  <2>1. act' \subseteq Event /\ edge' \subseteq {"ev_read", "ev_write"}
    BY CommAssumption, Zenon DEF TypeOK, Event
  <2>2. w' \in [active : BOOLEAN, ready : BOOLEAN, write : BOOLEAN,
               len : 0..MaxLen, offset : 0..MaxLen]
    <3>1. CASE w' = w
      BY <3>1, Zenon DEF TypeOK
    <3>2. CASE \E n \in 1..MaxLen : n <= Left /\ w' = [w EXCEPT !.offset = @ + n]
      <4>1. PICK n \in 1..MaxLen : n <= Left /\ w' = [w EXCEPT !.offset = @ + n]
        BY <3>2, Zenon
      <4>2. w.offset + n \in 0..MaxLen
        <5> HIDE DEF Inv, comm_cb_write_cb
        <5>1. w.offset \in 0..MaxLen /\ w.len \in 0..MaxLen
          BY Zenon DEF Inv, TypeOK
        <5> QED BY <4>1, <5>1, CommAssumption DEF Left
      <4> QED BY <4>1, <4>2, Zenon DEF TypeOK
    <3>3. CASE w' = [w EXCEPT !.active = FALSE]
      BY <3>3, Zenon DEF TypeOK
    <3> QED BY <3>1, <3>2, <3>3, Zenon
  <2>3. told' \in (Op \cup {"none", "close"}) \X {"none", "COMPLETED", "CLOSING", "ERROR", "EOF"}
    <3>1. told' \in {told, <<"write", "ERROR">>, <<"write", "EOF">>}
      BY Zenon
    <3>2. told \in (Op \cup {"none", "close"}) \X {"none", "COMPLETED", "CLOSING", "ERROR", "EOF"}
      BY Zenon DEF TypeOK
    <3> HIDE DEF Inv, comm_cb_write_cb
    <3> QED BY <3>1, <3>2 DEF Op
  <2>4. snd' \in 0..SndBuf
    <3>1. snd' = snd \/ \E n \in 1..MaxLen : n <= SndBuf - snd /\ snd' = snd + n
      BY Zenon
    <3>2. snd \in 0..SndBuf
      BY Zenon DEF TypeOK
    <3> HIDE DEF Inv, comm_cb_write_cb
    <3> QED BY <3>1, <3>2, CommAssumption
  <2>5. /\ TypeOK /\ pc' \in {pc, "return"}
        /\ UNCHANGED <<use, closing, cleanup, r, a, co, udp_r, udp_w, freed, in, peer, link>>
    BY Zenon
  <2> HIDE DEF Inv, comm_cb_write_cb
  <2> QED BY <2>1, <2>2, <2>3, <2>4, <2>5 DEF TypeOK
<1>2. Expected'
  BY Zenon DEF Expected, TypeOK, opVars
<1>3. Kinds' /\ Scheduled'
  BY Zenon DEF Kinds, Expected, Scheduled, TypeOK, sockVars, opVars
<1>4. Pending' /\ Ending'
  BY Zenon DEF Pending, Ending, Expected, comm_is_close_ready, TypeOK, opVars
<1>5. Queue'
  BY Zenon DEF Queue, TypeOK, opVars
<1> QED BY <1>1, <1>2, <1>3, <1>4, <1>5, Zenon

\* The listener ends with its event.
LEMMA AcceptClosingInv == ASSUME Inv, AcceptClosing PROVE Inv'
<1> USE DEF Inv, AcceptClosing, Fires, CallOwner, Schedule
<1>1. TypeOK'
  <2>1. act' \subseteq Event /\ edge' \subseteq {"ev_read", "ev_write"}
    BY CommAssumption, Zenon DEF TypeOK, Event
  <2>2. a' \in BOOLEAN
    BY CommAssumption, Zenon DEF TypeOK
  <2>3. told' \in (Op \cup {"none", "close"}) \X {"none", "COMPLETED", "CLOSING", "ERROR", "EOF"}
    BY CommAssumption, Zenon DEF TypeOK, Op, Silence
  <2> QED BY CommAssumption, <2>1, <2>2, <2>3 DEF TypeOK, sockVars, opVars
<1>2. Expected'
  BY Zenon DEF Expected, TypeOK, opVars
<1>3. Kinds' /\ Scheduled'
  BY Zenon DEF Kinds, Expected, Scheduled, TypeOK, sockVars, opVars
<1>4. Pending' /\ Ending'
  BY Zenon DEF Pending, Ending, Expected, comm_is_close_ready, TypeOK, opVars
<1>5. Queue'
  BY Zenon DEF Queue, TypeOK, opVars
<1> QED BY <1>1, <1>2, <1>3, <1>4, <1>5, Zenon

\* ev_accept is added again only while the listener is active, also when the
\* owner closed it from the callback.
LEMMA CbAcceptInv == ASSUME Inv, comm_cb_accept PROVE Inv'
<1> USE DEF Inv, comm_cb_accept, Fires, CallOwner, Schedule
<1>1. TypeOK'
  <2>1. act' \subseteq Event /\ edge' \subseteq {"ev_read", "ev_write"}
    BY CommAssumption, Zenon DEF TypeOK, Event
  <2>2. told' \in (Op \cup {"none", "close"}) \X {"none", "COMPLETED", "CLOSING", "ERROR", "EOF"}
    BY CommAssumption DEF TypeOK, Op, Silence
  <2> QED BY CommAssumption, <2>1, <2>2 DEF TypeOK, sockVars, opVars
<1>2. Expected'
  BY Zenon DEF Expected, Pending, TypeOK, opVars
<1>3. Kinds' /\ Scheduled'
  BY DEF Kinds, Expected, Scheduled, TypeOK, sockVars, opVars
<1>4. Pending' /\ Ending'
  BY Zenon DEF Pending, Ending, Expected, comm_is_close_ready, TypeOK, opVars
<1>5. Queue'
  BY Zenon DEF Queue, TypeOK, opVars
<1> QED BY <1>1, <1>2, <1>3, <1>4, <1>5, Zenon

\* A connect that has not begun is cancelled.
LEMMA ConnectClosingInv == ASSUME Inv, ConnectClosing PROVE Inv'
<1> USE DEF Inv, ConnectClosing, Fires, CallOwner, Schedule
<1>1. TypeOK'
  <2>1. act' \subseteq Event /\ edge' \subseteq {"ev_read", "ev_write"}
    BY CommAssumption, Zenon DEF TypeOK, Event
  <2>2. co' \in BOOLEAN
    BY CommAssumption, Zenon DEF TypeOK
  <2>3. told' \in (Op \cup {"none", "close"}) \X {"none", "COMPLETED", "CLOSING", "ERROR", "EOF"}
    BY CommAssumption, Zenon DEF TypeOK, Op, Silence
  <2> QED BY CommAssumption, <2>1, <2>2, <2>3 DEF TypeOK, sockVars, opVars
<1>2. Expected'
  BY Zenon DEF Expected, Scheduled, TypeOK, opVars
<1>3. Kinds' /\ Scheduled'
  BY Zenon DEF Kinds, Expected, Scheduled, TypeOK, sockVars, opVars
<1>4. Pending' /\ Ending'
  BY Zenon DEF Pending, Ending, Expected, comm_is_close_ready, TypeOK, opVars
<1>5. Queue'
  BY Zenon DEF Queue, TypeOK, opVars
<1> QED BY <1>1, <1>2, <1>3, <1>4, <1>5, Zenon

\* A connect begins: one event takes the place of the other.
LEMMA CbConnectStartInv == ASSUME Inv, comm_cb_connect_start PROVE Inv'
<1> USE DEF Inv, comm_cb_connect_start, InProgress, Fires, CallOwner, Schedule
<1>1. TypeOK'
  <2>1. act' \subseteq Event
    <3>1. act' \subseteq act \cup {"ev_connect"}
      BY Zenon
    <3> QED BY <3>1, Zenon DEF TypeOK, Event
  <2>a. edge' \subseteq {"ev_read", "ev_write"}
    BY Zenon DEF TypeOK
  <2>2. co' \in BOOLEAN
    BY CommAssumption, Zenon DEF TypeOK
  <2>3. told' \in (Op \cup {"none", "close"}) \X {"none", "COMPLETED", "CLOSING", "ERROR", "EOF"}
    BY CommAssumption DEF TypeOK, Op, Silence
  <2> QED BY CommAssumption, <2>1, <2>a, <2>2, <2>3 DEF TypeOK, sockVars, opVars
<1>2. Expected'
  <2>1. CASE link' = "progress"
    BY <2>1 DEF Expected, TypeOK
  <2>2. CASE link' # "progress"
    <3>1. ~({"ev_connect", "ev_connect_start"} \cap act' # {})
      BY <2>2, Zenon DEF Scheduled
    <3> QED BY <2>2, <3>1 DEF Expected, TypeOK
  <2> QED BY <2>1, <2>2, Zenon
<1>3. Kinds' /\ Scheduled'
  <2>1. co /\ (link' # "up" => use = "client") /\ (co' => co)
    BY Zenon DEF Expected, Kinds
  <2>2. Kinds'
    BY <2>1, Zenon DEF Kinds
  <2>3. Scheduled'
    BY DEF Scheduled
  <2> QED BY <2>2, <2>3, Zenon
<1>4. Pending' /\ Ending'
  BY Zenon DEF Pending, Ending, Expected, comm_is_close_ready, TypeOK, opVars
<1>5. Queue'
  BY Zenon DEF Queue, TypeOK, opVars
<1> QED BY <1>1, <1>2, <1>3, <1>4, <1>5, Zenon

\* A connect ends.
LEMMA CbConnectInv == ASSUME Inv, comm_cb_connect PROVE Inv'
<1> USE DEF Inv, comm_cb_connect, Fires, CallOwner, Schedule
<1>1. TypeOK'
  <2>1. act' \subseteq Event /\ edge' \subseteq {"ev_read", "ev_write"}
    BY CommAssumption, ZenonT(30) DEF TypeOK, Event
  <2>2. co' \in BOOLEAN
    BY CommAssumption, Zenon DEF TypeOK
  <2>3. told' \in (Op \cup {"none", "close"}) \X {"none", "COMPLETED", "CLOSING", "ERROR", "EOF"}
    BY CommAssumption DEF TypeOK, Op, Silence
  <2> QED BY CommAssumption, <2>1, <2>2, <2>3 DEF TypeOK, sockVars, opVars
<1>2. Expected'
  <2>1. CASE link = "progress"
    BY <2>1, Zenon DEF Expected
  <2>2. CASE link # "progress"
    <3>1. ~({"ev_connect", "ev_connect_start"} \cap act' # {})
      BY <2>2, Zenon DEF Scheduled
    <3> QED BY <2>2, <3>1, Zenon DEF Expected
  <2> QED BY <2>1, <2>2, Zenon
<1>3. Kinds' /\ Scheduled'
  BY ZenonT(30) DEF Kinds, Expected, Scheduled, TypeOK, sockVars, opVars
<1>4. Pending' /\ Ending'
  BY Zenon DEF Pending, Ending, Expected, comm_is_close_ready, TypeOK, opVars
<1>5. Queue'
  BY Zenon DEF Queue, TypeOK, opVars
<1> QED BY <1>1, <1>2, <1>3, <1>4, <1>5, Zenon

\* Reading datagrams ends with its event, ...
LEMMA UdpReadClosingInv == ASSUME Inv, UdpReadClosing PROVE Inv'
<1> USE DEF Inv, UdpReadClosing, Fires, CallOwner, Schedule
<1>1. TypeOK'
  <2>1. act' \subseteq Event /\ edge' \subseteq {"ev_read", "ev_write"}
    BY CommAssumption, Zenon DEF TypeOK, Event
  <2>2. udp_r' \in BOOLEAN
    BY CommAssumption, Zenon DEF TypeOK
  <2>3. told' \in (Op \cup {"none", "close"}) \X {"none", "COMPLETED", "CLOSING", "ERROR", "EOF"}
    BY CommAssumption, Zenon DEF TypeOK, Op, Silence
  <2> QED BY CommAssumption, <2>1, <2>2, <2>3 DEF TypeOK, sockVars, opVars
<1>2. Expected'
  BY Zenon DEF Expected, TypeOK, opVars
<1>3. Kinds' /\ Scheduled'
  BY Zenon DEF Kinds, Expected, Scheduled, TypeOK, sockVars, opVars
<1>4. Pending' /\ Ending'
  BY Zenon DEF Pending, Ending, Expected, comm_is_close_ready, TypeOK, opVars
<1>5. Queue'
  BY Zenon DEF Queue, TypeOK, opVars
<1> QED BY <1>1, <1>2, <1>3, <1>4, <1>5, Zenon

\* ... or goes on.
LEMMA CbUdpReadInv == ASSUME Inv, comm_cb_udp_read PROVE Inv'
<1> USE DEF Inv, comm_cb_udp_read, UdpReadAgain, Fires, CallOwner, Schedule
<1>1. TypeOK'
  <2>1. act' \subseteq Event /\ edge' \subseteq {"ev_read", "ev_write"}
    BY CommAssumption, Zenon DEF TypeOK, Event
  <2>2. told' \in (Op \cup {"none", "close"}) \X {"none", "COMPLETED", "CLOSING", "ERROR", "EOF"}
    BY CommAssumption DEF TypeOK, Op, Silence
  <2> QED BY CommAssumption, <2>1, <2>2 DEF TypeOK, sockVars, opVars
<1>2. Expected'
  BY Zenon DEF Expected, TypeOK, opVars
<1>3. Kinds' /\ Scheduled'
  BY Zenon DEF Kinds, Expected, Scheduled, TypeOK, sockVars, opVars
<1>4. Pending' /\ Ending'
  BY Zenon DEF Pending, Ending, Expected, comm_is_close_ready, TypeOK, opVars
<1>5. Queue'
  BY Zenon DEF Queue, TypeOK, opVars
<1> QED BY <1>1, <1>2, <1>3, <1>4, <1>5, Zenon

\* A datagram that leaves the queue is not in what is left of it.
LEMMA UdpWriteClosingInv == ASSUME Inv, UdpWriteClosing PROVE Inv'
<1> USE DEF Inv, UdpWriteClosing, Fires, CallOwner, Schedule
<1>1. TypeOK'
  <2>1. act' \subseteq Event /\ edge' \subseteq {"ev_read", "ev_write"}
    BY CommAssumption, Zenon DEF TypeOK, Event
  <2>2. udp_w' \in [active : BOOLEAN, primed : BOOLEAN, q : Seq(Frame)]
    <3>1. Tail(udp_w.q) \in Seq(Frame)
      BY DEF TypeOK
    <3> QED BY <3>1, Zenon DEF TypeOK
  <2>3. told' \in (Op \cup {"none", "close"}) \X {"none", "COMPLETED", "CLOSING", "ERROR", "EOF"}
    BY CommAssumption DEF TypeOK, Op, Silence
  <2> QED BY CommAssumption, <2>1, <2>2, <2>3 DEF TypeOK, sockVars, opVars
<1>2. Expected'
  BY Zenon DEF Expected, TypeOK, opVars
<1>3. Kinds' /\ Scheduled'
  BY Zenon DEF Kinds, Expected, Scheduled, TypeOK, sockVars, opVars
<1>4. Pending' /\ Ending'
  BY Zenon DEF Pending, Ending, Expected, comm_is_close_ready, TypeOK, opVars
<1>5. Queue'
  BY DEF Queue, TypeOK, opVars
<1> QED BY <1>1, <1>2, <1>3, <1>4, <1>5, Zenon

\* The operation ends with an empty queue.
LEMMA UdpWriteClosedInv == ASSUME Inv, UdpWriteClosed PROVE Inv'
<1> USE DEF Inv, UdpWriteClosed, Fires, CallOwner, Schedule
<1>1. TypeOK'
  <2>1. act' \subseteq Event /\ edge' \subseteq {"ev_read", "ev_write"}
    BY CommAssumption, Zenon DEF TypeOK, Event
  <2>2. udp_w' \in [active : BOOLEAN, primed : BOOLEAN, q : Seq(Frame)]
    BY CommAssumption, Zenon DEF TypeOK
  <2>3. told' \in (Op \cup {"none", "close"}) \X {"none", "COMPLETED", "CLOSING", "ERROR", "EOF"}
    BY CommAssumption, Zenon DEF TypeOK, Op, Silence
  <2> QED BY CommAssumption, <2>1, <2>2, <2>3 DEF TypeOK, sockVars, opVars
<1>2. Expected'
  BY Zenon DEF Expected, TypeOK, opVars
<1>3. Kinds' /\ Scheduled'
  BY Zenon DEF Kinds, Expected, Scheduled, TypeOK, sockVars, opVars
<1>4. Pending' /\ Ending'
  BY Zenon DEF Pending, Ending, Expected, comm_is_close_ready, TypeOK, opVars
<1>5. Queue'
  BY Zenon DEF Queue, TypeOK, opVars
<1> QED BY <1>1, <1>2, <1>3, <1>4, <1>5, Zenon

\* Sending takes the first datagram, ...
LEMMA UdpSendInv == ASSUME Inv, UdpSend PROVE Inv'
<1> USE DEF Inv, UdpSend, UdpTurn, Fires, CallOwner, Schedule
<1>1. TypeOK'
  <2>1. act' \subseteq Event /\ edge' \subseteq {"ev_read", "ev_write"}
    BY CommAssumption, Zenon DEF TypeOK, Event
  <2>2. udp_w' \in [active : BOOLEAN, primed : BOOLEAN, q : Seq(Frame)]
    <3>1. Tail(udp_w.q) \in Seq(Frame)
      BY DEF TypeOK
    <3> QED BY <3>1, Zenon DEF TypeOK
  <2>3. told' \in (Op \cup {"none", "close"}) \X {"none", "COMPLETED", "CLOSING", "ERROR", "EOF"}
    BY CommAssumption DEF TypeOK, Op, Silence
  <2>4. snd' \in 0..SndBuf
    BY CommAssumption DEF TypeOK
  <2>5. /\ TypeOK /\ pc' = "udp_sending"
        /\ UNCHANGED <<use, closing, cleanup, r, w, a, co, udp_r, freed, in, peer, link>>
    BY Zenon
  <2> HIDE DEF Inv, UdpSend
  <2> QED BY <2>1, <2>2, <2>3, <2>4, <2>5 DEF TypeOK
<1>2. Expected'
  BY Zenon DEF Expected, TypeOK, opVars
<1>3. Kinds' /\ Scheduled'
  BY Zenon DEF Kinds, Expected, Scheduled, TypeOK, sockVars, opVars
<1>4. Pending' /\ Ending'
  BY Zenon DEF Pending, Ending, Expected, comm_is_close_ready, TypeOK, opVars
<1>5. Queue'
  BY SMTT(30) DEF Queue, TypeOK, opVars
<1> QED BY <1>1, <1>2, <1>3, <1>4, <1>5, Zenon

\* ... until it must wait, primed again only with its event.
LEMMA UdpSentInv == ASSUME Inv, UdpSent PROVE Inv'
<1> USE DEF Inv, UdpSent, UdpTurn, Prime, Fires, CallOwner, Schedule
<1>1. TypeOK'
  <2>1. act' \subseteq Event /\ edge' \subseteq {"ev_read", "ev_write"}
    BY CommAssumption, Zenon DEF TypeOK, Event
  <2>2. udp_w' \in [active : BOOLEAN, primed : BOOLEAN, q : Seq(Frame)]
    BY CommAssumption, Zenon DEF TypeOK
  <2>3. told' \in (Op \cup {"none", "close"}) \X {"none", "COMPLETED", "CLOSING", "ERROR", "EOF"}
    BY CommAssumption, Zenon DEF TypeOK, Op, Silence
  <2> QED BY CommAssumption, <2>1, <2>2, <2>3 DEF TypeOK, sockVars, opVars
<1>2. Expected'
  BY Zenon DEF Expected, Pending, TypeOK, opVars
<1>3. Kinds' /\ Scheduled'
  BY DEF Kinds, Expected, Scheduled, TypeOK, sockVars, opVars
<1>4. Pending' /\ Ending'
  BY Zenon DEF Pending, Ending, Expected, comm_is_close_ready, TypeOK, opVars
<1>5. Queue'
  BY Zenon DEF Queue, TypeOK, opVars
<1> QED BY <1>1, <1>2, <1>3, <1>4, <1>5, Zenon

\* The close callback is made when nothing is active and ev_cleanup is over.
LEMMA CleanupInv == ASSUME Inv, comm_cb_cleanup PROVE Inv'
<1> USE DEF Inv, comm_cb_cleanup, Fires, CallOwner, Schedule
<1>1. TypeOK'
  <2>1. act' \subseteq Event /\ edge' \subseteq {"ev_read", "ev_write"}
    BY CommAssumption, Zenon DEF TypeOK, Event
  <2>2. told' \in (Op \cup {"none", "close"}) \X {"none", "COMPLETED", "CLOSING", "ERROR", "EOF"}
    BY CommAssumption, Zenon DEF TypeOK, Op, Silence
  <2> QED BY CommAssumption, <2>1, <2>2 DEF TypeOK, sockVars, opVars
<1>2. Expected'
  BY Zenon DEF Expected, TypeOK, opVars
<1>3. Kinds' /\ Scheduled'
  BY Zenon DEF Kinds, Expected, Scheduled, TypeOK, sockVars, opVars
<1>4. Pending' /\ Ending'
  BY Zenon DEF Pending, Ending, Scheduled, comm_is_close_ready, TypeOK, opVars
<1>5. Queue'
  BY Zenon DEF Queue, TypeOK, opVars
<1> QED BY <1>1, <1>2, <1>3, <1>4, <1>5, Zenon

\* Nothing is active once the comm is freed.
LEMMA FreedInv == ASSUME Inv, Freed PROVE Inv'
<1> USE DEF Inv, Freed, Fires, CallOwner, Schedule
<1>1. TypeOK'
  <2>1. told' \in (Op \cup {"none", "close"}) \X {"none", "COMPLETED", "CLOSING", "ERROR", "EOF"}
    BY CommAssumption, Zenon DEF TypeOK, Op, Silence
  <2> QED BY CommAssumption, <2>1 DEF TypeOK, sockVars, opVars
<1>2. Expected'
  BY Zenon DEF Expected, TypeOK, opVars
<1>3. Kinds' /\ Scheduled'
  BY Zenon DEF Kinds, Expected, Scheduled, TypeOK, sockVars, opVars
<1>4. Pending' /\ Ending'
  BY Zenon DEF Pending, Ending, Expected, comm_is_close_ready, TypeOK, opVars
<1>5. Queue'
  BY Zenon DEF Queue, TypeOK, opVars
<1> QED BY <1>1, <1>2, <1>3, <1>4, <1>5, Zenon

-----------------------------------------------------------------------------
(* The invariant holds. *)

\* After comm_create nothing is active.
LEMMA InitInv == Init => Inv
<1> SUFFICES ASSUME Init PROVE Inv
  BY Zenon
<1> USE CommAssumption DEF Init
<1>1. TypeOK
  <2>1. told \in (Op \cup {"none", "close"}) \X {"none", "COMPLETED", "CLOSING", "ERROR", "EOF"}
    BY Zenon DEF Op, Silence
  <2>2. udp_w \in [active : BOOLEAN, primed : BOOLEAN, q : Seq(Frame)]
    OBVIOUS
  <2>3. link \in {"new", "progress", "up", "failed"}
    BY Zenon
  <2>4. /\ r \in [active : BOOLEAN, ready : BOOLEAN, read : BOOLEAN]
        /\ w \in [active : BOOLEAN, ready : BOOLEAN, write : BOOLEAN,
                  len : 0..MaxLen, offset : 0..MaxLen]
    OBVIOUS
  <2>5. /\ closing \in BOOLEAN /\ cleanup \in BOOLEAN /\ freed \in BOOLEAN
        /\ a \in BOOLEAN /\ co \in BOOLEAN /\ udp_r \in BOOLEAN
    BY Zenon
  <2>6. in \in 0..RcvBuf /\ snd \in 0..SndBuf
    OBVIOUS
  <2> QED BY <2>1, <2>2, <2>3, <2>4, <2>5, <2>6, Zenon DEF TypeOK
<1>2. Expected /\ Kinds /\ Scheduled
  BY Zenon DEF Expected, Kinds, Scheduled
<1>3. Pending /\ Ending /\ Queue
  BY DEF Pending, Ending, Queue
<1> QED BY <1>1, <1>2, <1>3, Zenon DEF Inv

\* Every step preserves the invariant.
LEMMA NextInv == ASSUME Inv, Next PROVE Inv'
<1>1. CASE Call
  BY <1>1, ReadInv, WriteInv, ListenInv, ConnectInv, UdpReadInv, UdpSetupInv, UdpWriteInv,
     CloseInv, Zenon DEF Call
<1>2. CASE Rest \/ OwnerEvent
  BY <1>2, OwnerInv, ReadClosedInv, OpClosedInv, FreedInv, Zenon DEF Rest
<1>3. CASE OnReadable
  BY <1>3, CbReadInv, AcceptClosingInv, CbAcceptInv, UdpReadClosingInv, CbUdpReadInv, Zenon
  DEF OnReadable, OnAccept, OnUdpRead
<1>4. CASE OnWritable
  BY <1>4, CbWriteInv, CbConnectInv, UdpWriteClosingInv, UdpWriteClosedInv, UdpSendInv,
     UdpSentInv, Zenon DEF OnWritable, OnUdpWrite
<1>5. CASE OnReadCb \/ OnWriteCb
  BY <1>5, ReadClosingInv, CbReadCbInv, WriteClosingInv, CbWriteCbInv, Zenon DEF OnReadCb, OnWriteCb
<1>6. CASE OnConnectStart \/ comm_cb_cleanup
  BY <1>6, ConnectClosingInv, CbConnectStartInv, CleanupInv, Zenon DEF OnConnectStart
<1>7. CASE Receive \/ Drain \/ Connected \/ \E how \in {"eof", "reset"} : PeerEnds(how)
  BY <1>7, SocketInv, Zenon
<1> QED BY <1>1, <1>2, <1>3, <1>4, <1>5, <1>6, <1>7, Zenon DEF Next, Handler

\* The invariant reads nothing but the variables of Comm.
LEMMA StutterInv == ASSUME Inv, UNCHANGED vars PROVE Inv'
<1> USE DEF vars, opVars, sockVars
<1>1. TypeOK' /\ Expected'
  BY DEF Inv, TypeOK, Expected
<1>2. Kinds' /\ Scheduled' /\ Pending' /\ Ending' /\ Queue'
  BY Zenon DEF Inv, Kinds, Scheduled, Pending, Ending, Queue, comm_is_close_ready
<1> QED BY <1>1, <1>2, Zenon DEF Inv

\* The inductive invariant, for every kind of comm and every bound.
THEOREM CommInvariant == Spec => []Inv
<1>1. Inv /\ [Next]_vars => Inv'
  BY NextInv, StutterInv, Zenon
<1> QED BY <1>1, InitInv, PTL DEF Spec

\* Every variable holds a value of the C type it models, whatever the lengths
\* of the writes and the sizes of the queue and of the socket's buffers.
THEOREM TypeCorrect == Spec => []TypeOK
<1>1. Inv => TypeOK
  BY Zenon DEF Inv
<1> QED BY <1>1, CommInvariant, PTL

\* No handler is entered for an operation that is over, however the owner's
\* calls, also those from within callbacks, and the events interleave.
THEOREM HandlersExpected == Spec => []Expected
<1>1. Inv => Expected
  BY Zenon DEF Inv
<1> QED BY <1>1, CommInvariant, PTL

\* At most one of three events is active on each filter, because each kind of
\* comm has its own and a client is not connected while it connects.
LEMMA Duties == ASSUME Inv PROVE FdeDuties
<1>1. ASSUME NEW S, NEW x, S \subseteq {x} PROVE Cardinality(S) <= 1
  <2>1. IsFiniteSet({x}) /\ Cardinality({x}) = 1
    BY FS_Singleton, Zenon
  <2>2. Cardinality(S) <= Cardinality({x}) /\ Cardinality(S) \in Nat
    BY <1>1, <2>1, FS_Subset, FS_CardinalityType, Zenon
  <2> QED BY <2>1, <2>2, Zenon
<1>2. PICK x : act \cap {"ev_read", "ev_accept", "ev_udp_read"} \subseteq {x}
  <2>1. CASE use = "listener"
    BY <2>1, Zenon DEF Inv, Expected, Kinds, Scheduled
  <2>2. CASE use = "udp"
    BY <2>2, Zenon DEF Inv, Expected, Kinds, Scheduled
  <2>3. CASE use \in {"stream", "client"}
    BY <2>3, Zenon DEF Inv, Expected, Kinds, Scheduled
  <2> QED BY <2>1, <2>2, <2>3, CommAssumption, Zenon DEF Inv, TypeOK
<1>3. PICK y : act \cap {"ev_write", "ev_connect", "ev_udp_write"} \subseteq {y}
  <2>1. CASE co
    BY <2>1, Zenon DEF Inv, Expected, Kinds, Scheduled
  <2>2. CASE use = "udp"
    BY <2>2, Zenon DEF Inv, Expected, Kinds, Scheduled
  <2>3. CASE ~co /\ use # "udp"
    BY <2>3, Zenon DEF Inv, Expected, Kinds, Scheduled
  <2> QED BY <2>1, <2>2, <2>3, Zenon
<1>4. ASSUME pc = "cleanup" PROVE act \subseteq {"ev_write"}
  <2>1. comm_is_close_ready /\ closing /\ ~r.read /\ "ev_cleanup" \notin act
    BY <1>4, Zenon DEF Inv, Pending, Ending, comm_is_close_ready
  <2> QED BY <2>1 DEF Inv, TypeOK, Event, Expected, Scheduled, comm_is_close_ready
<1> QED BY <1>1, <1>2, <1>3, <1>4, Zenon DEF FdeDuties

\* What the event layer asks of comm.c holds always: one active event on a
\* filter of the descriptor, and at most ev_write when the events are freed.
THEOREM DutiesKept == Spec => []FdeDuties
<1>1. Inv => FdeDuties
  BY Duties, Zenon
<1> QED BY <1>1, CommInvariant, PTL

-----------------------------------------------------------------------------
(* No wake-up is lost. *)

\* What a read waits for.  ev_read is added once, by the first read, and tells of
\* data once: what it told while no read was active is in is_ready.
ReadAwaited ==
    /\ r.active => r.read
    /\ ~freed /\ r.read => "ev_read" \in act
    /\ ~freed /\ r.read /\ Readable => r.ready \/ "ev_read" \in edge
    /\ r.active => \/ "ev_read_cb" \in act
                   \/ ~closing /\ (Readable => "ev_read" \in edge)
    /\ pc = "read_closing" => ~r.active

\* The same for a write; a closing comm has no use for is_ready.
WriteAwaited ==
    /\ w.active => w.write
    /\ ~freed /\ w.write => "ev_write" \in act
    /\ ~freed /\ ~closing /\ w.write => w.ready \/ "ev_write" \in edge \/ snd > 0
    /\ w.active => \/ "ev_write_cb" \in act
                   \/ ~closing /\ ("ev_write" \in edge \/ snd > 0)

\* The other operations have an event of their own.
OthersAwaited ==
    /\ a => "ev_accept" \in act \/ pc = "accepting"
    /\ co => "ev_connect_start" \in act \/ "ev_connect" \in act
    /\ udp_r => "ev_udp_read" \in act

\* A datagram in the queue: its write is primed, or UdpSent is to come.
FramesAwaited ==
    /\ udp_w.primed => "ev_udp_write" \in act \/ pc = "udp_closing"
    /\ udp_w.q # <<>> => udp_w.primed \/ pc = "udp_sending"

\* The end of a closing comm.
EndAwaited ==
    /\ closing /\ comm_is_close_ready /\ use # "client" =>
          cleanup \/ pc \in {"closing", "read_closing"}
    /\ cleanup => "ev_cleanup" \in act \/ pc = "cleanup" \/ freed
    /\ freed => cleanup

\* The inductive invariant of Awaited, next to Inv.
Await == ReadAwaited /\ WriteAwaited /\ OthersAwaited /\ FramesAwaited /\ EndAwaited

\* The owner's code is entered or left.
LEMMA OwnerAwaited == ASSUME Inv, Await, OwnerEvent \/ Return PROVE Await'
<1>1. /\ UNCHANGED <<use, closing, cleanup, opVars, freed, act, edge, sockVars>>
      /\ pc \in {"loop", "owner", "return"} /\ pc' \in {"loop", "owner"}
  BY Zenon DEF OwnerEvent, Return
<1>2. ReadAwaited' /\ WriteAwaited'
  BY <1>1, Zenon DEF Await, ReadAwaited, WriteAwaited, Readable, opVars, sockVars
<1>3. OthersAwaited' /\ FramesAwaited' /\ EndAwaited'
  BY <1>1, Zenon DEF Await, OthersAwaited, FramesAwaited, EndAwaited, comm_is_close_ready, opVars
<1> QED BY <1>2, <1>3, Zenon DEF Await

\* A new ev_read starts with what there is to read; comm_read looks at is_ready
\* for what an old one has told.
LEMMA ReadAwaits == ASSUME Inv, Await, comm_read PROVE Await'
<1> USE DEF Inv, Await, comm_read, MayStart, InOwner, Schedule
<1>1. ReadAwaited'
  <2>1. r'.active /\ r'.read /\ (r'.ready <=> r.ready) /\ ~closing /\ ~freed /\ pc # "loop"
    BY Zenon DEF TypeOK
  <2>2. "ev_read" \in act' /\ ~closing' /\ UNCHANGED <<in, peer, pc>>
    BY <2>1, Zenon DEF ReadAwaited, sockVars
  <2>3. (r.ready => "ev_read_cb" \in act') /\ ("ev_read" \in edge => "ev_read" \in edge')
    BY <2>2, Zenon
  <2>4. ~r.read /\ Readable => "ev_read" \in edge'
    BY <2>2, Zenon DEF Scheduled
  <2>5. pc # "read_closing"
    BY <2>1, Zenon DEF Pending
  <2>6. (Readable' <=> Readable) /\ ReadAwaited
    BY <2>2, Zenon DEF Readable
  <2> HIDE DEF Inv, Await, comm_read
  <2> QED BY <2>1, <2>2, <2>3, <2>4, <2>5, <2>6, Zenon DEF ReadAwaited
<1>2. WriteAwaited'
  BY Zenon DEF WriteAwaited, sockVars
<1>3. OthersAwaited'
  BY Zenon DEF OthersAwaited
<1>4. FramesAwaited'
  BY Zenon DEF FramesAwaited
<1>5. EndAwaited'
  BY Zenon DEF EndAwaited
<1> QED BY <1>1, <1>2, <1>3, <1>4, <1>5, Zenon

\* The same for comm_write.
LEMMA WriteAwaits == ASSUME Inv, Await, NEW len \in 0..MaxLen, comm_write(len) PROVE Await'
<1> USE DEF Inv, Await, comm_write, WriteNow, MayStart, InOwner, Schedule
<1>1. ReadAwaited'
  BY Zenon DEF ReadAwaited, Readable, sockVars
<1>2. WriteAwaited'
  <2>1. w'.active /\ w'.write /\ (w'.ready <=> w.ready) /\ ~closing /\ ~freed
    BY Zenon DEF TypeOK
  <2>2. "ev_write" \in act' /\ ~closing' /\ UNCHANGED snd
    BY <2>1, Zenon DEF WriteAwaited, sockVars
  <2>3. (w.ready => "ev_write_cb" \in act') /\ ("ev_write" \in edge => "ev_write" \in edge')
    BY <2>2, Zenon
  <2>4. ~w.write /\ Writable => "ev_write" \in edge'
    BY <2>2, Zenon DEF Scheduled
  <2>5. ~Writable => snd > 0
    BY CommAssumption DEF TypeOK, Writable
  <2>6. WriteAwaited
    BY Zenon
  <2> HIDE DEF Inv, Await, comm_write
  <2> QED BY <2>1, <2>2, <2>3, <2>4, <2>5, <2>6, Zenon DEF WriteAwaited
<1>3. OthersAwaited'
  BY Zenon DEF OthersAwaited
<1>4. FramesAwaited'
  BY Zenon DEF FramesAwaited
<1>5. EndAwaited'
  BY Zenon DEF EndAwaited
<1> QED BY <1>1, <1>2, <1>3, <1>4, <1>5, Zenon

\* comm_listen adds ev_accept with the operation.
LEMMA ListenAwaits == ASSUME Inv, Await, comm_listen PROVE Await'
<1> USE DEF Inv, Await, comm_listen, MayStart, InOwner, Schedule
<1>1. ReadAwaited'
  BY Zenon DEF ReadAwaited, Readable, sockVars
<1>2. WriteAwaited'
  BY Zenon DEF WriteAwaited, sockVars
<1>3. OthersAwaited'
  BY Zenon DEF OthersAwaited
<1>4. FramesAwaited'
  BY Zenon DEF FramesAwaited
<1>5. EndAwaited'
  BY Zenon DEF EndAwaited
<1> QED BY <1>1, <1>2, <1>3, <1>4, <1>5, Zenon

\* comm_connect schedules ev_connect_start.
LEMMA ConnectAwaits == ASSUME Inv, Await, comm_connect PROVE Await'
<1> USE DEF Inv, Await, comm_connect, MayStart, InOwner, Schedule
<1>1. ReadAwaited'
  BY Zenon DEF ReadAwaited, Readable, sockVars
<1>2. WriteAwaited'
  BY Zenon DEF WriteAwaited, sockVars
<1>3. OthersAwaited'
  BY Zenon DEF OthersAwaited
<1>4. FramesAwaited'
  BY Zenon DEF FramesAwaited
<1>5. EndAwaited'
  BY Zenon DEF EndAwaited
<1> QED BY <1>1, <1>2, <1>3, <1>4, <1>5, Zenon

\* comm_udp_read adds ev_udp_read with the operation.
LEMMA UdpReadAwaits == ASSUME Inv, Await, comm_udp_read PROVE Await'
<1> USE DEF Inv, Await, comm_udp_read, MayStart, InOwner, Schedule
<1>1. ReadAwaited'
  BY Zenon DEF ReadAwaited, Readable, sockVars
<1>2. WriteAwaited'
  BY Zenon DEF WriteAwaited, sockVars
<1>3. OthersAwaited'
  BY Zenon DEF OthersAwaited
<1>4. FramesAwaited'
  BY Zenon DEF FramesAwaited
<1>5. EndAwaited'
  BY Zenon DEF EndAwaited
<1> QED BY <1>1, <1>2, <1>3, <1>4, <1>5, Zenon

\* The queue that comm_udp_write_setup makes is empty.
LEMMA UdpSetupAwaits == ASSUME Inv, Await, comm_udp_write_setup PROVE Await'
<1> USE DEF Inv, Await, comm_udp_write_setup, MayStart, InOwner, Schedule
<1>1. ReadAwaited'
  BY Zenon DEF ReadAwaited, Readable, sockVars
<1>2. WriteAwaited'
  BY Zenon DEF WriteAwaited, sockVars
<1>3. OthersAwaited'
  BY Zenon DEF OthersAwaited
<1>4. FramesAwaited'
  BY Zenon DEF FramesAwaited, Expected, TypeOK, Pending
<1>5. EndAwaited'
  BY Zenon DEF EndAwaited
<1> QED BY <1>1, <1>2, <1>3, <1>4, <1>5, Zenon

\* comm_udp_write primes the write when it queues the first datagram.
LEMMA UdpWriteAwaits == ASSUME Inv, Await, NEW fr \in Frame, comm_udp_write(fr) PROVE Await'
<1> USE DEF Inv, Await, comm_udp_write, MayStart, InOwner, Schedule
<1>1. ReadAwaited'
  BY Zenon DEF ReadAwaited, Readable, sockVars
<1>2. WriteAwaited'
  BY Zenon DEF WriteAwaited, sockVars
<1>3. OthersAwaited'
  BY Zenon DEF OthersAwaited
<1>4. FramesAwaited'
  BY Zenon DEF FramesAwaited, TypeOK
<1>5. EndAwaited'
  BY Zenon DEF EndAwaited
<1> QED BY <1>1, <1>2, <1>3, <1>4, <1>5, Zenon

\* comm_close schedules the callback of a read and of a write that wait, and
\* the clean-up when nothing is outstanding.
LEMMA CloseAwaits == ASSUME Inv, Await, comm_close PROVE Await'
<1> USE DEF Inv, Await, comm_close, Unused, Cancelled, InOwner, Schedule
<1>1. ReadAwaited'
  BY Zenon DEF ReadAwaited, Readable, TypeOK, sockVars
<1>2. WriteAwaited'
  BY Zenon DEF WriteAwaited, TypeOK
<1>3. OthersAwaited'
  BY Zenon DEF OthersAwaited
<1>4. FramesAwaited'
  BY Zenon DEF FramesAwaited
<1>5. EndAwaited'
  BY Zenon DEF EndAwaited, TypeOK, Ending, comm_is_close_ready
<1> QED BY <1>1, <1>2, <1>3, <1>4, <1>5, Zenon

\* comm_cb_read hands what ev_read told on to ev_read_cb, or keeps it in
\* is_ready; on a closing comm there is no read to wake.
LEMMA CbReadAwaits == ASSUME Inv, Await, comm_cb_read PROVE Await'
<1> USE DEF Inv, Await, comm_cb_read, Notified, Fires
<1>1. ReadAwaited'
  BY Zenon DEF ReadAwaited, TypeOK
<1>2. WriteAwaited'
  BY Zenon DEF WriteAwaited, sockVars
<1>3. OthersAwaited'
  BY Zenon DEF OthersAwaited
<1>4. FramesAwaited'
  BY Zenon DEF FramesAwaited
<1>5. EndAwaited'
  BY Zenon DEF EndAwaited, TypeOK, Ending, comm_is_close_ready
<1> QED BY <1>1, <1>2, <1>3, <1>4, <1>5, Zenon

\* The last callback of a read leaves the clean-up to what follows it.
LEMMA ReadClosingAwaits == ASSUME Inv, Await, ReadClosing PROVE Await'
<1> USE DEF Inv, Await, ReadClosing, Fires, CallOwner, Schedule
<1>1. ReadAwaited'
  BY Zenon DEF ReadAwaited, Readable, TypeOK, sockVars
<1>2. WriteAwaited'
  BY Zenon DEF WriteAwaited
<1>3. OthersAwaited'
  BY Zenon DEF OthersAwaited
<1>4. FramesAwaited'
  BY Zenon DEF FramesAwaited
<1>5. EndAwaited'
  BY Zenon DEF EndAwaited
<1> QED BY <1>1, <1>2, <1>3, <1>4, <1>5, Zenon

\* After the owner's callback the handler starts the clean-up if it may.
LEMMA ReadClosedAwaits == ASSUME Inv, Await, ReadClosed PROVE Await'
<1> USE DEF Inv, Await, ReadClosed, StartCleanup, Schedule
<1>1. ReadAwaited'
  BY Zenon DEF ReadAwaited, TypeOK
<1>2. WriteAwaited'
  BY Zenon DEF WriteAwaited, Pending
<1>3. OthersAwaited'
  BY Zenon DEF OthersAwaited
<1>4. FramesAwaited'
  BY Zenon DEF FramesAwaited
<1>5. EndAwaited'
  BY Zenon DEF EndAwaited, TypeOK, Ending, comm_is_close_ready
<1> QED BY <1>1, <1>2, <1>3, <1>4, <1>5, Zenon

\* A read that stays active found nothing to read, so data to come raises
\* ev_read again; one that is answered left no byte unread unnoticed.
LEMMA CbReadCbAwaits == ASSUME Inv, Await, comm_cb_read_cb PROVE Await'
<1> USE DEF Inv, Await, comm_cb_read_cb, Fires, CallOwner, Schedule
<1>1. ReadAwaited'
  <2>1. CASE r' = r
    <3>1. UNCHANGED <<r, in, peer, pc, closing, freed>> /\ ~Readable /\ ~closing
      BY <2>1, Zenon DEF TypeOK, Expected
    <3>2. /\ ~Readable' /\ ReadAwaited /\ pc = "loop"
          /\ "ev_read" \in act => "ev_read" \in act'
      BY <3>1, Zenon DEF Readable
    <3> HIDE DEF Inv, Await, comm_cb_read_cb
    <3> QED BY <3>1, <3>2, Zenon DEF ReadAwaited
  <2>2. CASE ~r'.active
    <3>1. pc' # "read_closing"
      BY Zenon
    <3>2. r'.read => r.read /\ (r'.ready <=> r.ready) /\ act' = act \ {"ev_read_cb"}
      BY <2>2, Zenon DEF TypeOK, Expected
    <3>3. /\ "ev_read" \in edge /\ "ev_read" \in act' => "ev_read" \in edge'
          /\ ReadAwaited /\ UNCHANGED freed
      BY Zenon
    <3>4. Readable' => Readable
      <4>1. in' = in \/ \E n \in 1..in : TRUE
        BY Zenon
      <4>2. in \in Nat /\ UNCHANGED peer
        BY CommAssumption DEF TypeOK
      <4> QED BY <4>1, <4>2 DEF Readable
    <3> HIDE DEF Inv, Await, comm_cb_read_cb
    <3> QED BY <2>2, <3>1, <3>2, <3>3, <3>4, Zenon DEF ReadAwaited
  <2> QED BY <2>1, <2>2, Zenon DEF TypeOK
<1>2. WriteAwaited'
  BY Zenon DEF WriteAwaited, Pending
<1>3. OthersAwaited'
  BY Zenon DEF OthersAwaited
<1>4. FramesAwaited'
  BY Zenon DEF FramesAwaited
<1>5. EndAwaited'
  BY Zenon DEF EndAwaited
<1> QED BY <1>1, <1>2, <1>3, <1>4, <1>5, Zenon

\* comm_cb_write hands what ev_write told on to ev_write_cb, or keeps it.
LEMMA CbWriteAwaits == ASSUME Inv, Await, comm_cb_write PROVE Await'
<1> USE DEF Inv, Await, comm_cb_write, WriteWakes, Notified, Fires
<1>1. ReadAwaited'
  BY Zenon DEF ReadAwaited, Readable, sockVars
<1>2. WriteAwaited'
  BY Zenon DEF WriteAwaited, TypeOK
<1>3. OthersAwaited'
  BY Zenon DEF OthersAwaited
<1>4. FramesAwaited'
  BY Zenon DEF FramesAwaited
<1>5. EndAwaited'
  BY Zenon DEF EndAwaited, TypeOK, Ending, comm_is_close_ready
<1> QED BY <1>1, <1>2, <1>3, <1>4, <1>5, Zenon

\* The last callback of a write, like that of a read.
LEMMA WriteClosingAwaits == ASSUME Inv, Await, WriteClosing PROVE Await'
<1> USE DEF Inv, Await, WriteClosing, Fires, CallOwner, Schedule
<1>1. ReadAwaited'
  BY Zenon DEF ReadAwaited, Readable, sockVars
<1>2. WriteAwaited'
  BY Zenon DEF WriteAwaited, TypeOK
<1>3. OthersAwaited'
  BY Zenon DEF OthersAwaited
<1>4. FramesAwaited'
  BY Zenon DEF FramesAwaited
<1>5. EndAwaited'
  BY Zenon DEF EndAwaited
<1> QED BY <1>1, <1>2, <1>3, <1>4, <1>5, Zenon

\* The rest of a closing branch starts the clean-up if it may.
LEMMA OpClosedAwaits == ASSUME Inv, Await, OpClosed PROVE Await'
<1> USE DEF Inv, Await, OpClosed, StartCleanup, Schedule
<1>1. ReadAwaited'
  BY Zenon DEF ReadAwaited, Readable, Pending, opVars, sockVars
<1>2. WriteAwaited'
  BY Zenon DEF WriteAwaited, Pending, opVars
<1>3. OthersAwaited'
  BY Zenon DEF OthersAwaited, opVars
<1>4. FramesAwaited'
  BY Zenon DEF FramesAwaited, opVars
<1>5. EndAwaited'
  BY Zenon DEF EndAwaited, Ending, comm_is_close_ready, opVars
<1> QED BY <1>1, <1>2, <1>3, <1>4, <1>5, Zenon

\* A write that stays active has bytes in the send buffer, which drains.
LEMMA CbWriteCbAwaits == ASSUME Inv, Await, comm_cb_write_cb PROVE Await'
<1> USE DEF Inv, Await, comm_cb_write_cb, Fires, CallOwner, Schedule
<1>1. ReadAwaited'
  BY Zenon DEF ReadAwaited, Readable, Pending
<1>2. WriteAwaited'
  <2>1. (w'.write <=> w.write) /\ (w'.ready <=> w.ready) /\ (w'.active => w.active)
    BY Zenon DEF TypeOK
  <2>2. w.write => "ev_write" \in act'
    BY Zenon DEF WriteAwaited, Pending
  <2>3. (snd > 0 => snd' > 0) /\ (w'.active => snd' > 0)
    BY CommAssumption DEF TypeOK
  <2> QED BY <2>1, <2>2, <2>3, Zenon DEF WriteAwaited
<1>3. OthersAwaited'
  BY Zenon DEF OthersAwaited
<1>4. FramesAwaited'
  BY Zenon DEF FramesAwaited
<1>5. EndAwaited'
  BY Zenon DEF EndAwaited
<1> QED BY <1>1, <1>2, <1>3, <1>4, <1>5, Zenon

\* The last callback of a listener.
LEMMA AcceptClosingAwaits == ASSUME Inv, Await, AcceptClosing PROVE Await'
<1> USE DEF Inv, Await, AcceptClosing, Fires, CallOwner, Schedule
<1>1. ReadAwaited'
  BY Zenon DEF ReadAwaited, Readable
<1>2. WriteAwaited'
  BY Zenon DEF WriteAwaited
<1>3. OthersAwaited'
  BY Zenon DEF OthersAwaited
<1>4. FramesAwaited'
  BY Zenon DEF FramesAwaited
<1>5. EndAwaited'
  BY Zenon DEF EndAwaited
<1> QED BY <1>1, <1>2, <1>3, <1>4, <1>5, Zenon

\* A listener whose callback has returned listens on.
LEMMA CbAcceptAwaits == ASSUME Inv, Await, comm_cb_accept PROVE Await'
<1> USE DEF Inv, Await, comm_cb_accept, Fires, CallOwner, Schedule
<1>1. ReadAwaited'
  BY Zenon DEF ReadAwaited, Readable, Pending, opVars
<1>2. WriteAwaited'
  BY Zenon DEF WriteAwaited, Pending, opVars
<1>3. OthersAwaited'
  BY Zenon DEF OthersAwaited, opVars
<1>4. FramesAwaited'
  BY Zenon DEF FramesAwaited, opVars
<1>5. EndAwaited'
  BY Zenon DEF EndAwaited, Ending, comm_is_close_ready, opVars
<1> QED BY <1>1, <1>2, <1>3, <1>4, <1>5, Zenon

\* The last callback of a connect that was not begun.
LEMMA ConnectClosingAwaits == ASSUME Inv, Await, ConnectClosing PROVE Await'
<1> USE DEF Inv, Await, ConnectClosing, Fires, CallOwner, Schedule
<1>1. ReadAwaited'
  BY Zenon DEF ReadAwaited, Readable, sockVars
<1>2. WriteAwaited'
  BY Zenon DEF WriteAwaited
<1>3. OthersAwaited'
  BY Zenon DEF OthersAwaited
<1>4. FramesAwaited'
  BY Zenon DEF FramesAwaited
<1>5. EndAwaited'
  BY Zenon DEF EndAwaited
<1> QED BY <1>1, <1>2, <1>3, <1>4, <1>5, Zenon

\* A connect in progress waits for ev_connect.
LEMMA CbConnectStartAwaits == ASSUME Inv, Await, comm_cb_connect_start PROVE Await'
<1> USE DEF Inv, Await, comm_cb_connect_start, InProgress, Fires, CallOwner, Schedule
<1>1. ReadAwaited'
  BY Zenon DEF ReadAwaited, Readable, Pending
<1>2. WriteAwaited'
  BY Zenon DEF WriteAwaited, Pending
<1>3. OthersAwaited'
  BY Zenon DEF OthersAwaited
<1>4. FramesAwaited'
  BY Zenon DEF FramesAwaited
<1>5. EndAwaited'
  BY Zenon DEF EndAwaited
<1> QED BY <1>1, <1>2, <1>3, <1>4, <1>5, Zenon

\* A connect is answered once; its comm is a client's, of whose clean-up
\* EndAwaited says nothing.
LEMMA CbConnectAwaits == ASSUME Inv, Await, comm_cb_connect PROVE Await'
<1> USE DEF Inv, Await, comm_cb_connect, Fires, CallOwner, Schedule
<1>1. ReadAwaited'
  BY Zenon DEF ReadAwaited, Readable, Pending, sockVars
<1>2. WriteAwaited'
  BY Zenon DEF WriteAwaited, Pending, sockVars
<1>3. OthersAwaited'
  BY Zenon DEF OthersAwaited
<1>4. FramesAwaited'
  BY Zenon DEF FramesAwaited
<1>5. EndAwaited'
  <2>1. use' = "client" /\ UNCHANGED <<cleanup, freed>> /\ pc # "cleanup"
    BY Zenon DEF Kinds, Expected
  <2>2. "ev_cleanup" \in act => "ev_cleanup" \in act'
    BY Zenon
  <2>3. EndAwaited
    BY Zenon
  <2> HIDE DEF Inv, Await, comm_cb_connect
  <2> QED BY <2>1, <2>2, <2>3, Zenon DEF EndAwaited
<1> QED BY <1>1, <1>2, <1>3, <1>4, <1>5, Zenon

\* The last callback of a datagram read.
LEMMA UdpReadClosingAwaits == ASSUME Inv, Await, UdpReadClosing PROVE Await'
<1> USE DEF Inv, Await, UdpReadClosing, Fires, CallOwner, Schedule
<1>1. ReadAwaited'
  BY Zenon DEF ReadAwaited, Readable
<1>2. WriteAwaited'
  BY Zenon DEF WriteAwaited
<1>3. OthersAwaited'
  BY Zenon DEF OthersAwaited
<1>4. FramesAwaited'
  BY Zenon DEF FramesAwaited
<1>5. EndAwaited'
  BY Zenon DEF EndAwaited
<1> QED BY <1>1, <1>2, <1>3, <1>4, <1>5, Zenon

\* A datagram read is added again before the owner hears of a datagram.
LEMMA CbUdpReadAwaits == ASSUME Inv, Await, comm_cb_udp_read PROVE Await'
<1> USE DEF Inv, Await, comm_cb_udp_read, UdpReadAgain, Fires, CallOwner, Schedule
<1>1. ReadAwaited'
  BY Zenon DEF ReadAwaited, Readable, Pending, opVars
<1>2. WriteAwaited'
  BY Zenon DEF WriteAwaited, Pending, opVars
<1>3. OthersAwaited'
  BY Zenon DEF OthersAwaited, opVars
<1>4. FramesAwaited'
  BY Zenon DEF FramesAwaited, opVars
<1>5. EndAwaited'
  BY Zenon DEF EndAwaited
<1> QED BY <1>1, <1>2, <1>3, <1>4, <1>5, Zenon

\* The callback of a closing comm takes the next datagram off the queue.
LEMMA UdpWriteClosingAwaits == ASSUME Inv, Await, UdpWriteClosing PROVE Await'
<1> USE DEF Inv, Await, UdpWriteClosing, Fires, CallOwner, Schedule
<1>1. ReadAwaited'
  BY Zenon DEF ReadAwaited, Readable, Pending, sockVars
<1>2. WriteAwaited'
  BY Zenon DEF WriteAwaited, Pending
<1>3. OthersAwaited'
  BY Zenon DEF OthersAwaited
<1>4. FramesAwaited'
  BY Zenon DEF FramesAwaited, TypeOK
<1>5. EndAwaited'
  BY Zenon DEF EndAwaited, TypeOK, Ending, comm_is_close_ready
<1> QED BY <1>1, <1>2, <1>3, <1>4, <1>5, Zenon

\* It goes on while there are datagrams.
LEMMA UdpWriteClosedAwaits == ASSUME Inv, Await, UdpWriteClosed PROVE Await'
<1> USE DEF Inv, Await, UdpWriteClosed, Fires, CallOwner, Schedule
<1>1. ReadAwaited'
  BY Zenon DEF ReadAwaited, Readable, Pending, sockVars
<1>2. WriteAwaited'
  BY Zenon DEF WriteAwaited, Pending
<1>3. OthersAwaited'
  BY Zenon DEF OthersAwaited
<1>4. FramesAwaited'
  BY Zenon DEF FramesAwaited, TypeOK
<1>5. EndAwaited'
  BY Zenon DEF EndAwaited, Ending, comm_is_close_ready
<1> QED BY <1>1, <1>2, <1>3, <1>4, <1>5, Zenon

\* A datagram that is sent leaves the rest of the queue to UdpSent.
LEMMA UdpSendAwaits == ASSUME Inv, Await, UdpSend PROVE Await'
<1> USE DEF Inv, Await, UdpSend, UdpTurn, Fires, CallOwner, Schedule
<1>1. ReadAwaited'
  BY Zenon DEF ReadAwaited, Readable, Pending
<1>2. WriteAwaited'
  <2>1. snd > 0 => snd' > 0
    BY CommAssumption DEF TypeOK
  <2>2. /\ UNCHANGED w /\ (closing' <=> closing) /\ ~freed /\ WriteAwaited
        /\ act \ {"ev_udp_write"} \subseteq act'
        /\ "ev_write" \in edge => "ev_write" \in edge' \/ "ev_write" \notin act
    BY Zenon DEF Pending
  <2> HIDE DEF Inv, Await, UdpSend
  <2> QED BY <2>1, <2>2, Zenon DEF WriteAwaited
<1>3. OthersAwaited'
  BY Zenon DEF OthersAwaited
<1>4. FramesAwaited'
  BY Zenon DEF FramesAwaited, TypeOK
<1>5. EndAwaited'
  BY Zenon DEF EndAwaited, TypeOK, Ending, comm_is_close_ready
<1> QED BY <1>1, <1>2, <1>3, <1>4, <1>5, Zenon

\* UdpSent primes the write again when datagrams are left.
LEMMA UdpSentAwaits == ASSUME Inv, Await, UdpSent PROVE Await'
<1> USE DEF Inv, Await, UdpSent, UdpTurn, Prime, Fires, Schedule
<1>1. ReadAwaited'
  BY Zenon DEF ReadAwaited, Readable, Pending, sockVars
<1>2. WriteAwaited'
  BY Zenon DEF WriteAwaited, Pending, sockVars
<1>3. OthersAwaited'
  BY Zenon DEF OthersAwaited
<1>4. FramesAwaited'
  BY Zenon DEF FramesAwaited, TypeOK
<1>5. EndAwaited'
  BY Zenon DEF EndAwaited, TypeOK, Ending, comm_is_close_ready
<1> QED BY <1>1, <1>2, <1>3, <1>4, <1>5, Zenon

\* The clean-up callback goes on to free the comm.
LEMMA CleanupAwaits == ASSUME Inv, Await, comm_cb_cleanup PROVE Await'
<1> USE DEF Inv, Await, comm_cb_cleanup, Fires, CallOwner, Schedule
<1>1. ReadAwaited'
  BY Zenon DEF ReadAwaited, Readable, Pending, opVars, sockVars
<1>2. WriteAwaited'
  BY Zenon DEF WriteAwaited, Pending, opVars, sockVars
<1>3. OthersAwaited'
  BY Zenon DEF OthersAwaited, opVars
<1>4. FramesAwaited'
  BY Zenon DEF FramesAwaited, opVars
<1>5. EndAwaited'
  BY Zenon DEF EndAwaited, Ending, comm_is_close_ready, opVars
<1> QED BY <1>1, <1>2, <1>3, <1>4, <1>5, Zenon

\* A comm that is freed has nothing outstanding.
LEMMA FreedAwaits == ASSUME Inv, Await, Freed PROVE Await'
<1> USE DEF Inv, Await, Freed
<1>1. ReadAwaited'
  BY Zenon DEF ReadAwaited, Pending, Ending, comm_is_close_ready, opVars
<1>2. WriteAwaited'
  BY Zenon DEF WriteAwaited, Pending, Ending, comm_is_close_ready, opVars
<1>3. OthersAwaited'
  BY Zenon DEF OthersAwaited, Pending, Ending, comm_is_close_ready, opVars
<1>4. FramesAwaited'
  BY Zenon DEF FramesAwaited, Expected, Pending, Ending, comm_is_close_ready, opVars
<1>5. EndAwaited'
  BY Zenon DEF EndAwaited, Pending
<1> QED BY <1>1, <1>2, <1>3, <1>4, <1>5, Zenon

\* The socket raises the edge of an active event whenever it becomes readable
\* or its send buffer drains, and takes none back.
LEMMA SocketAwaits ==
  ASSUME Inv, Await,
         Receive \/ Drain \/ Connected \/ \E how \in {"eof", "reset"} : PeerEnds(how)
  PROVE  Await'
<1>1. /\ UNCHANGED <<use, closing, cleanup, opVars, freed, act, pc>>
      /\ edge \subseteq edge' /\ ~freed
  BY Zenon DEF Receive, Drain, Connected, PeerEnds, Notify
<1>2. ReadAwaited'
  <2>1. "ev_read" \in act => (Readable' => Readable) \/ "ev_read" \in edge'
    BY Zenon DEF Receive, Drain, Connected, PeerEnds, Notify, Readable
  <2> QED BY <1>1, <2>1, Zenon DEF Await, ReadAwaited, opVars
<1>3. WriteAwaited'
  <2>1. "ev_write" \in act => snd' = snd \/ "ev_write" \in edge'
    BY Zenon DEF Receive, Drain, Connected, PeerEnds, Notify
  <2> QED BY <1>1, <2>1, Zenon DEF Await, WriteAwaited, opVars
<1>4. OthersAwaited' /\ FramesAwaited' /\ EndAwaited'
  BY <1>1, Zenon DEF Await, OthersAwaited, FramesAwaited, EndAwaited, comm_is_close_ready, opVars
<1> QED BY <1>2, <1>3, <1>4, Zenon DEF Await

\* Nothing is outstanding in the beginning.
LEMMA InitAwait == Init => Await
<1> SUFFICES ASSUME Init PROVE Await
  OBVIOUS
<1>1. ReadAwaited /\ WriteAwaited
  BY Zenon DEF Init, ReadAwaited, WriteAwaited
<1>2. OthersAwaited /\ FramesAwaited /\ EndAwaited
  BY Zenon DEF Init, OthersAwaited, FramesAwaited, EndAwaited
<1> QED BY <1>1, <1>2, Zenon DEF Await

\* Every step of Comm keeps Await.
LEMMA NextAwait == ASSUME Inv, Await, Next PROVE Await'
<1>1. CASE Call
  BY <1>1, ReadAwaits, WriteAwaits, ListenAwaits, ConnectAwaits, UdpReadAwaits, UdpSetupAwaits,
     UdpWriteAwaits, CloseAwaits, Zenon DEF Call
<1>2. CASE Rest \/ OwnerEvent
  BY <1>2, OwnerAwaited, ReadClosedAwaits, OpClosedAwaits, FreedAwaits, Zenon DEF Rest
<1>3. CASE OnReadable
  BY <1>3, CbReadAwaits, AcceptClosingAwaits, CbAcceptAwaits, UdpReadClosingAwaits,
     CbUdpReadAwaits, Zenon DEF OnReadable, OnAccept, OnUdpRead
<1>4. CASE OnWritable
  BY <1>4, CbWriteAwaits, CbConnectAwaits, UdpWriteClosingAwaits, UdpWriteClosedAwaits,
     UdpSendAwaits, UdpSentAwaits, Zenon DEF OnWritable, OnUdpWrite
<1>5. CASE OnReadCb \/ OnWriteCb
  BY <1>5, ReadClosingAwaits, CbReadCbAwaits, WriteClosingAwaits, CbWriteCbAwaits, Zenon
  DEF OnReadCb, OnWriteCb
<1>6. CASE OnConnectStart \/ comm_cb_cleanup
  BY <1>6, ConnectClosingAwaits, CbConnectStartAwaits, CleanupAwaits, Zenon DEF OnConnectStart
<1>7. CASE Receive \/ Drain \/ Connected \/ \E how \in {"eof", "reset"} : PeerEnds(how)
  BY <1>7, SocketAwaits, Zenon
<1> QED BY <1>1, <1>2, <1>3, <1>4, <1>5, <1>6, <1>7, Zenon DEF Next, Handler

\* Await reads nothing but the variables of Comm.
LEMMA StutterAwait == ASSUME Await, UNCHANGED vars PROVE Await'
<1> USE DEF Await, vars, opVars, sockVars
<1>1. ReadAwaited'
  BY Zenon DEF ReadAwaited, Readable
<1>2. WriteAwaited' /\ OthersAwaited'
  BY Zenon DEF WriteAwaited, OthersAwaited
<1>3. FramesAwaited' /\ EndAwaited'
  BY Zenon DEF FramesAwaited, EndAwaited, comm_is_close_ready
<1> QED BY <1>1, <1>2, <1>3, Zenon

\* A freed comm was cleaned up, so nothing of it is outstanding.
LEMMA AwaitAwaited == ASSUME Inv, Await PROVE Awaited
<1>1. /\ r.active \/ w.active => ~freed
      /\ udp_w.q # <<>> => "ev_udp_write" \in act \/ pc \in {"udp_sending", "udp_closing"}
  BY Zenon DEF Inv, Ending, comm_is_close_ready, Await, EndAwaited, FramesAwaited
<1> QED
  BY <1>1, Zenon DEF Await, Awaited, ReadAwaited, WriteAwaited, OthersAwaited, EndAwaited

\* Await goes on holding next to the invariant.
THEOREM AwaitInvariant == Spec => []Await
<1>1. Inv /\ Await /\ [Next]_vars => Await'
  BY NextAwait, StutterAwait, Zenon
<1> QED BY <1>1, InitAwait, CommInvariant, PTL DEF Spec

\* No wake-up is lost, for every kind of comm, length of the writes and size of
\* the buffers and the queue: comm.c's is_ready flags and its order of adding
\* and removing events leave no operation waiting for an event that is over.
THEOREM NoWakeupLost == Spec => []Awaited
<1>1. Inv /\ Await => Awaited
  BY AwaitAwaited, Zenon
<1> QED BY <1>1, CommInvariant, AwaitInvariant, PTL

-----------------------------------------------------------------------------
(* Comm implements CommApi. *)

\* What the operations outstanding depend on.
LEMMA OutSame ==
  ASSUME r'.active = r.active, w'.active = w.active, udp_w'.q = udp_w.q, UNCHANGED <<a, co, udp_r>>
  PROVE  out' = out
BY Zenon DEF out, Queued

\* A datagram is none of the other operations.
LEMMA QueuedFrames == ASSUME Inv PROVE Queued \subseteq Frame
BY DEF Inv, TypeOK, Queued

\* The owner's calls other than comm_close each start one operation, or none.
LEMMA ApiStarts ==
  ASSUME Inv, Call, ~comm_close
  PROVE  Api!Next \/ UNCHANGED Api!vars
<1> USE CommAssumption DEF MayStart, InOwner
<1>1. ASSUME NEW o \in Op, out' = out \cup {o}, o \notin out,
             ~closed, UNCHANGED <<closing, freed, pc, told>>
      PROVE  Api!Next
  <2>1. Api!Start(o)
    BY <1>1, Zenon DEF Api!Start, closed
  <2> QED BY <2>1, Zenon DEF Api!Next
<1>2. CASE comm_read
  <2>1. Queued' = Queued
    BY <1>2, Zenon DEF comm_read, Queued
  <2>2. out' = out \cup {"read"} /\ "read" \notin out /\ "read" \in Op
    BY <1>2, <2>1, QueuedFrames DEF comm_read, out, Op, Inv, TypeOK
  <2> QED BY <1>1, <1>2, <2>2, Zenon DEF comm_read, closed
<1>3. CASE \E len \in 0..MaxLen : comm_write(len)
  <2>1. Queued' = Queued
    BY <1>3, Zenon DEF comm_write, Queued
  <2>2. out' = out \cup {"write"} /\ "write" \notin out /\ "write" \in Op
    BY <1>3, <2>1, QueuedFrames DEF comm_write, out, Op, Inv, TypeOK
  <2> QED BY <1>1, <1>3, <2>2, Zenon DEF comm_write, closed
<1>4. CASE comm_listen
  <2>1. Queued' = Queued
    BY <1>4, Zenon DEF comm_listen, Queued
  <2>2. out' = out \cup {"accept"} /\ "accept" \notin out /\ "accept" \in Op
    BY <1>4, <2>1, QueuedFrames DEF comm_listen, out, Op, Inv, TypeOK
  <2> QED BY <1>1, <1>4, <2>2, Zenon DEF comm_listen, closed
<1>5. CASE comm_connect
  <2>1. Queued' = Queued
    BY <1>5, Zenon DEF comm_connect, Queued
  <2>2. out' = out \cup {"connect"} /\ "connect" \notin out /\ "connect" \in Op
    BY <1>5, <2>1, QueuedFrames DEF comm_connect, out, Op, Inv, TypeOK
  <2> QED BY <1>1, <1>5, <2>2, Zenon DEF comm_connect, closed
<1>6. CASE comm_udp_read
  <2>1. Queued' = Queued
    BY <1>6, Zenon DEF comm_udp_read, Queued
  <2>2. out' = out \cup {"udp_read"} /\ "udp_read" \notin out /\ "udp_read" \in Op
    BY <1>6, <2>1, QueuedFrames DEF comm_udp_read, out, Op, Inv, TypeOK
  <2> QED BY <1>1, <1>6, <2>2, Zenon DEF comm_udp_read, closed
<1>7. CASE comm_udp_write_setup
  <2>1. udp_w'.q = udp_w.q
    BY <1>7, Zenon DEF comm_udp_write_setup, Inv, TypeOK
  <2> QED BY <1>7, <2>1, OutSame, Zenon DEF comm_udp_write_setup, Api!vars, closed
<1>8. ASSUME NEW fr \in Frame, comm_udp_write(fr) PROVE Api!Next
  <2>1. Queued' = Queued \cup {fr}
    <3>1. udp_w'.q = Append(udp_w.q, fr) /\ udp_w.q \in Seq(Frame)
      BY <1>8, Zenon DEF comm_udp_write, Inv, TypeOK
    <3> QED BY <3>1 DEF Queued
  <2>2. out' = out \cup {fr} /\ fr \notin out /\ fr \in Op
    BY <1>8, <2>1, Zenon DEF comm_udp_write, out, Op
  <2> QED BY <1>1, <1>8, <2>2, Zenon DEF comm_udp_write, closed
<1> QED BY <1>2, <1>3, <1>4, <1>5, <1>6, <1>7, <1>8, Zenon DEF Call

\* A callback of a comm that has not been freed answers an operation that is
\* outstanding, which is over then unless it goes on by itself.
LEMMA ApiAnswer ==
  ASSUME Inv, NEW o \in Op, NEW s \in {"COMPLETED", "CLOSING", "ERROR", "EOF"},
         pc # "cleanup", pc' # "cleanup", act # {} \/ pc # "loop",
         o \in out, s = "CLOSING" => closing, told' = <<o, s>>,
         out' = IF o \in {"accept", "udp_read"} /\ s # "CLOSING" THEN out ELSE out \ {o},
         UNCHANGED <<closing, freed>>
  PROVE  Api!Next
<1>1. ~closed /\ ~closed'
  BY Zenon DEF closed, Inv, Pending
<1>2. Api!Callback(o, s)
  BY <1>1, Zenon DEF Api!Callback, Inv, TypeOK, closed
<1> QED BY <1>2, Zenon DEF Api!Next, Api!Status

\* The end of a callback.
LEMMA ApiReturn ==
  ASSUME Inv, r'.active = r.active, w'.active = w.active, udp_w'.q = udp_w.q,
         UNCHANGED <<a, co, udp_r, closing>>, told' = Silence, closed' = closed
  PROVE  Api!Next
<1>1. Api!Return
  BY OutSame, Zenon DEF Api!Return, Api!Silence, Silence
<1> QED BY <1>1, Zenon DEF Api!Next

LEMMA ApiRest == ASSUME Inv, Rest PROVE Api!Next
<1>1. r'.active = r.active /\ UNCHANGED <<w, udp_w, a, co, udp_r, closing>> /\ told' = Silence
  BY Zenon DEF Rest, Return, ReadClosed, OpClosed, Freed, opVars, Inv, TypeOK
<1>2. closed' = closed
  BY DEF Rest, Return, ReadClosed, OpClosed, Freed, closed, Inv, Pending, TypeOK
<1> QED BY <1>1, <1>2, ApiReturn, Zenon

\* The callbacks of streams.
LEMMA ApiReadCb == ASSUME Inv, OnReadCb PROVE Api!Next \/ UNCHANGED Api!vars
<1> USE DEF OnReadCb, ReadClosing, comm_cb_read_cb, Fires, CallOwner
<1>1. "read" \in out /\ "read" \in Op /\ act # {} /\ pc = "loop"
  BY Zenon DEF Inv, Expected, out, Op
<1>2. CASE pc' = "loop"
  BY <1>2, OutSame, Zenon DEF Api!vars, closed, Inv, TypeOK
<1>3. CASE pc' # "loop"
  <2>1. /\ r'.active = FALSE /\ UNCHANGED <<w, a, co, udp_r, udp_w, closing, freed>>
        /\ pc' \in {"return", "read_closing"}
    BY <1>1, <1>3, Zenon DEF Inv, TypeOK
  <2>2. PICK s \in {"COMPLETED", "CLOSING", "ERROR", "EOF"} :
           told' = <<"read", s>> /\ (s = "CLOSING" => closing)
    BY <1>1, <1>3, Zenon
  <2>3. out' = out \ {"read"}
    <3>1. Queued' = Queued
      BY <2>1, Zenon DEF Queued
    <3> QED BY <2>1, <3>1, QueuedFrames, CommAssumption, Zenon DEF out, Op
  <2> QED BY <1>1, <2>1, <2>2, <2>3, ApiAnswer, Zenon
<1> QED BY <1>2, <1>3, Zenon

LEMMA ApiWriteCb == ASSUME Inv, OnWriteCb PROVE Api!Next \/ UNCHANGED Api!vars
<1> USE DEF OnWriteCb, WriteClosing, comm_cb_write_cb, Fires, CallOwner
<1>1. "write" \in out /\ "write" \in Op /\ act # {} /\ pc = "loop"
  BY Zenon DEF Inv, Expected, out, Op
<1>2. CASE pc' = "loop"
  <2>1. w'.active = w.active
    BY <1>2, Zenon DEF Inv, TypeOK
  <2> QED BY <1>2, <2>1, OutSame, Zenon DEF Api!vars, closed, Inv, TypeOK
<1>3. CASE pc' # "loop"
  <2>1. /\ w'.active = FALSE /\ UNCHANGED <<r, a, co, udp_r, udp_w, closing, freed>>
        /\ pc' \in {"return", "closing"}
    BY <1>1, <1>3, Zenon DEF Inv, TypeOK
  <2>2. PICK s \in {"COMPLETED", "CLOSING", "ERROR", "EOF"} :
           told' = <<"write", s>> /\ (s = "CLOSING" => closing)
    BY <1>1, <1>3, Zenon
  <2>3. out' = out \ {"write"}
    <3>1. Queued' = Queued
      BY <2>1, Zenon DEF Queued
    <3> QED BY <2>1, <3>1, QueuedFrames, CommAssumption, Zenon DEF out, Op
  <2> QED BY <1>1, <2>1, <2>2, <2>3, ApiAnswer, Zenon
<1> QED BY <1>2, <1>3, Zenon

\* Those of a listener: it stays outstanding until it is closed, also when the
\* callback closes it and the loop of comm_cb_accept goes on.
LEMMA ApiAccept == ASSUME Inv, OnAccept PROVE Api!Next
<1> USE DEF OnAccept, AcceptClosing, comm_cb_accept, Fires, CallOwner
<1>1. /\ "accept" \in out /\ "accept" \in Op
      /\ act # {} \/ pc # "loop"
      /\ pc \in {"loop", "accepting"}
  BY Zenon DEF Inv, Expected, Pending, out, Op
<1>2. CASE told' = Silence
  <2>1. UNCHANGED <<r, w, a, co, udp_r, udp_w, closing, freed>> /\ pc' = "loop"
    BY <1>2, Zenon DEF Silence, opVars
  <2> QED BY <1>1, <1>2, <2>1, ApiReturn, Zenon DEF closed
<1>3. CASE told' # Silence
  <2>1. UNCHANGED <<r, w, co, udp_r, udp_w, closing, freed>> /\ pc' # "cleanup"
    BY <1>3, Zenon DEF opVars
  <2>2. PICK s \in {"COMPLETED", "CLOSING", "ERROR"} :
           /\ told' = <<"accept", s>> /\ (s = "CLOSING" => closing)
           /\ IF s = "CLOSING" THEN a' = FALSE ELSE a' = a
    BY <1>3, Zenon DEF opVars
  <2>3. out' = IF s = "CLOSING" THEN out \ {"accept"} ELSE out
    <3>1. Queued' = Queued
      BY <2>1, Zenon DEF Queued
    <3> QED BY <2>1, <2>2, <3>1, QueuedFrames, CommAssumption DEF out, Op
  <2> QED BY <1>1, <2>1, <2>2, <2>3, ApiAnswer, Zenon
<1> QED BY <1>2, <1>3, Zenon

\* Those of a connect.
LEMMA ApiConnect ==
  ASSUME Inv, OnConnectStart \/ comm_cb_connect
  PROVE  Api!Next \/ UNCHANGED Api!vars
<1> USE DEF OnConnectStart, ConnectClosing, comm_cb_connect_start, comm_cb_connect, Fires, CallOwner
<1>1. "connect" \in out /\ "connect" \in Op /\ act # {} /\ pc = "loop"
  BY Zenon DEF Inv, Expected, out, Op
<1>2. UNCHANGED <<r, w, a, udp_r, udp_w, closing, freed>>
  BY Zenon
<1>3. CASE pc' = "loop"
  BY <1>1, <1>2, <1>3, OutSame, Zenon DEF Api!vars, closed
<1>4. CASE pc' # "loop"
  <2>1. co' = FALSE /\ pc' # "cleanup"
    BY <1>1, <1>4, Zenon
  <2>2. PICK s \in {"COMPLETED", "CLOSING", "ERROR"} :
           told' = <<"connect", s>> /\ (s = "CLOSING" => closing)
    BY <1>1, <1>4, Zenon
  <2>3. out' = out \ {"connect"}
    <3>1. Queued' = Queued
      BY <1>2, Zenon DEF Queued
    <3> QED BY <1>2, <2>1, <3>1, QueuedFrames, CommAssumption, Zenon DEF out, Op
  <2> QED BY <1>1, <1>2, <2>1, <2>2, <2>3, ApiAnswer, Zenon
<1> QED BY <1>3, <1>4, Zenon

\* Those of reading datagrams, which goes on until it is closed.
LEMMA ApiUdpRead == ASSUME Inv, OnUdpRead PROVE Api!Next
<1> USE DEF OnUdpRead, UdpReadClosing, comm_cb_udp_read, Fires, CallOwner
<1>1. "udp_read" \in out /\ "udp_read" \in Op /\ act # {} /\ pc = "loop"
  BY Zenon DEF Inv, Expected, out, Op
<1>2. UNCHANGED <<r, w, a, co, udp_w, closing, freed>> /\ pc' # "cleanup"
  BY Zenon DEF opVars
<1>3. PICK s \in {"COMPLETED", "CLOSING", "ERROR"} :
         /\ told' = <<"udp_read", s>> /\ (s = "CLOSING" => closing)
         /\ IF s = "CLOSING" THEN udp_r' = FALSE ELSE udp_r' = udp_r
  BY Zenon DEF opVars
<1>4. out' = IF s = "CLOSING" THEN out \ {"udp_read"} ELSE out
  <2>1. Queued' = Queued
    BY <1>2, Zenon DEF Queued
  <2> QED BY <1>2, <1>3, <2>1, QueuedFrames, CommAssumption DEF out, Op
<1> QED BY <1>1, <1>2, <1>3, <1>4, ApiAnswer, Zenon

\* The first datagram leaves the queue, in which it is once.
LEMMA Dequeued ==
  ASSUME Inv, udp_w.q # <<>>, udp_w'.q = Tail(udp_w.q)
  PROVE  /\ Head(udp_w.q) \in Queued
         /\ Queued' = Queued \ {Head(udp_w.q)}
<1> DEFINE q == udp_w.q
<1>1. /\ q \in Seq(Frame) /\ q # <<>>
      /\ \A m, n \in DOMAIN q : q[m] = q[n] => m = n
  BY Zenon DEF Inv, TypeOK, Queue
<1>2. Queued = {q[n] : n \in 1..Len(q)} /\ Queued' = {Tail(q)[n] : n \in 1..Len(Tail(q))}
  <2>1. DOMAIN q = 1..Len(q) /\ DOMAIN Tail(q) = 1..Len(Tail(q))
    BY <1>1
  <2>2. Queued' = {Tail(q)[n] : n \in DOMAIN Tail(q)}
    BY Zenon DEF Queued
  <2> QED BY <2>1, <2>2, Zenon DEF Queued
<1> HIDE DEF q
<1>3. /\ 1 \in 1..Len(q) /\ Head(q) = q[1] /\ Len(Tail(q)) = Len(q) - 1
      /\ \A n \in 1..Len(q) - 1 : n + 1 \in 1..Len(q) /\ Tail(q)[n] = q[n + 1]
  BY <1>1
<1>4. ASSUME NEW x \in Queued, x # Head(q) PROVE x \in Queued'
  <2>1. PICK n \in 1..Len(q) : x = q[n]
    BY <1>2, Zenon
  <2>2. n - 1 \in 1..Len(q) - 1
    BY <1>3, <1>4, <2>1
  <2>3. Tail(q)[n - 1] = x
    BY <1>3, <2>1, <2>2
  <2> QED BY <1>2, <1>3, <2>2, <2>3, Zenon
<1>5. ASSUME NEW x \in Queued' PROVE x \in Queued /\ x # Head(q)
  <2>1. PICK n \in 1..Len(q) - 1 : x = q[n + 1] /\ n + 1 \in 1..Len(q)
    BY <1>2, <1>3, Zenon
  <2>2. n + 1 # 1
    BY <2>1
  <2> QED BY <1>1, <1>2, <1>3, <2>1, <2>2
<1>6. Head(q) \in Queued
  BY <1>2, <1>3, Zenon
<1> QED BY <1>4, <1>5, <1>6, Zenon DEF q

\* The callbacks of queued datagrams, and the end of a run of comm_cb_udp_write.
LEMMA ApiUdpWrite == ASSUME Inv, OnUdpWrite PROVE Api!Next
<1>1. CASE UdpWriteClosed \/ UdpSent
  <2>1. /\ udp_w'.q = udp_w.q /\ told' = Silence
        /\ UNCHANGED <<r, w, a, co, udp_r, closing, freed>>
        /\ pc # "cleanup" /\ pc' = "loop"
    BY <1>1, Zenon DEF UdpWriteClosed, UdpSent, UdpTurn, Fires, Inv, TypeOK
  <2> QED BY <2>1, ApiReturn, Zenon DEF closed
<1>2. CASE UdpWriteClosing \/ UdpSend
  <2> DEFINE fr == Head(udp_w.q)
  <2>1. /\ udp_w.q # <<>> /\ udp_w'.q = Tail(udp_w.q)
        /\ UNCHANGED <<r, w, a, co, udp_r, closing, freed>>
        /\ pc # "cleanup" /\ pc' # "cleanup"
        /\ act # {} \/ pc # "loop"
    BY <1>2, Zenon DEF UdpWriteClosing, UdpSend, UdpTurn, CallOwner, Fires, Inv, TypeOK
  <2>2. PICK s \in {"COMPLETED", "CLOSING", "ERROR"} :
           told' = <<fr, s>> /\ (s = "CLOSING" => closing)
    BY <1>2, Zenon DEF UdpWriteClosing, UdpSend, UdpTurn, CallOwner, Fires, Inv, Pending
  <2>3. fr \in Queued /\ Queued' = Queued \ {fr}
    BY <2>1, Dequeued, Zenon
  <2>4. fr \in Frame /\ fr \in Op
    BY <2>3, QueuedFrames, Zenon DEF Op
  <2> HIDE DEF fr
  <2>5. fr \in out /\ out' = out \ {fr} /\ fr \notin {"accept", "udp_read"}
    BY <2>1, <2>3, <2>4, CommAssumption, Zenon DEF out, Op
  <2> QED BY <2>1, <2>2, <2>4, <2>5, ApiAnswer, Zenon
<1> QED BY <1>1, <1>2, Zenon DEF OnUdpWrite

\* The close callback is made when nothing is outstanding, and not again.
LEMMA ApiCleanup == ASSUME Inv, comm_cb_cleanup PROVE Api!Next
<1>1. closing /\ comm_is_close_ready /\ ~closed /\ closed'
  BY Zenon DEF comm_cb_cleanup, Fires, CallOwner, closed, Inv, Scheduled, Pending, Ending
<1>2. out = {}
  <2>1. Queued = {}
    BY <1>1 DEF Queued, Inv, Queue, comm_is_close_ready
  <2> QED BY <1>1, <2>1, Zenon DEF out, comm_is_close_ready
<1>3. out' = out
  BY OutSame, Zenon DEF comm_cb_cleanup, opVars
<1>4. Api!Closed
  BY <1>1, <1>2, <1>3, Zenon DEF Api!Closed, comm_cb_cleanup, CallOwner
<1> QED BY <1>4, Zenon DEF Api!Next

\* The other steps: comm_close, and those the owner does not see.
LEMMA ApiOthers ==
  ASSUME Inv, \/ comm_close \/ OwnerEvent \/ comm_cb_read \/ comm_cb_write
              \/ Receive \/ Drain \/ Connected
              \/ \E how \in {"eof", "reset"} : PeerEnds(how)
  PROVE  Api!Next \/ UNCHANGED Api!vars
<1>1. /\ r'.active = r.active /\ w'.active = w.active
      /\ UNCHANGED <<a, co, udp_r, udp_w, freed, told>>
  BY Zenon DEF comm_close, OwnerEvent, comm_cb_read, comm_cb_write, Notified, Receive, Drain,
         Connected, PeerEnds, opVars, Inv, TypeOK
<1>2. out' = out /\ told' = told
  BY <1>1, OutSame, Zenon
<1>3. closed' = closed
  BY <1>1, Zenon DEF comm_close, OwnerEvent, comm_cb_read, comm_cb_write, Receive, Drain,
              Connected, PeerEnds, closed
<1>4. CASE comm_close
  BY <1>2, <1>3, <1>4, Zenon DEF comm_close, Api!Close, Api!Next
<1>5. CASE ~comm_close
  <2>1. closing' = closing
    BY <1>5, Zenon DEF OwnerEvent, comm_cb_read, comm_cb_write, Receive, Drain, Connected, PeerEnds
  <2> QED BY <1>2, <1>3, <2>1, Zenon DEF Api!vars
<1> QED BY <1>4, <1>5, Zenon

\* Every step is one of CommApi's, or not seen by the owner.
LEMMA ApiNext == ASSUME Inv, [Next]_vars PROVE [Api!Next]_(Api!vars)
<1>1. CASE UNCHANGED vars
  <2>1. UNCHANGED <<out, closing, closed, told>>
    BY <1>1, OutSame, Zenon DEF vars, opVars, closed
  <2> QED BY <2>1, Zenon DEF Api!vars
<1>2. CASE Call
  BY <1>2, ApiStarts, ApiOthers, Zenon
<1>3. CASE Handler
  BY <1>3, ApiReadCb, ApiWriteCb, ApiAccept, ApiConnect, ApiUdpRead, ApiUdpWrite, ApiCleanup,
     ApiOthers, Zenon DEF Handler, OnReadable, OnWritable
<1>4. CASE Next /\ ~Call /\ ~Handler
  BY <1>4, ApiRest, ApiOthers, Zenon DEF Next
<1> QED BY <1>1, <1>2, <1>3, <1>4, Zenon

\* comm.c keeps the promises of comm.h, for every kind of comm and all bounds:
\* a callback answers an operation that is outstanding, says CLOSING only when
\* closing, and the close callback comes once, with nothing outstanding, last.
THEOREM ImplementsApi == Spec => ApiSpec
<1>1. Init => Api!Init
  <2>1. Init => out = {}
    BY DEF Init, out, Queued
  <2> QED BY <2>1, Zenon DEF Init, Api!Init, Silence, Api!Silence, closed
<1>2. Inv /\ [Next]_vars => [Api!Next]_(Api!vars)
  BY ApiNext, Zenon
<1> QED BY <1>1, <1>2, CommInvariant, PTL DEF Spec, ApiSpec, Api!Spec

-----------------------------------------------------------------------------
(* The datagrams of the UDP programs. *)

\* A queue without duplicates has as many datagrams as places.
LEMMA QueueCount == ASSUME Inv PROVE Cardinality(Queued) = Len(udp_w.q)
<1> DEFINE q == udp_w.q
<1>1. q \in Seq(Frame) /\ DOMAIN q = 1..Len(q) /\ Len(q) \in Nat
  BY DEF Inv, TypeOK
<1>2. q \in Bijection(1..Len(q), Queued)
  <2>1. q \in [1..Len(q) -> Queued]
    BY <1>1 DEF Queued
  <2>2. IsInjective(q)
    BY Zenon DEF Inv, Queue, IsInjective
  <2>3. \A fr \in Queued : \E n \in 1..Len(q) : q[n] = fr
    BY <1>1, Zenon DEF Queued
  <2> QED BY <2>1, <2>2, <2>3, Zenon DEF Bijection, Injection, Surjection
<1>3. IsFiniteSet(1..Len(q)) /\ Cardinality(1..Len(q)) = Len(q)
  BY <1>1, FS_Interval
<1> HIDE DEF q
<1>4. Cardinality(Queued) = Cardinality(1..Len(q))
  BY <1>2, <1>3, FS_Bijection, Zenon DEF ExistsBijection
<1> QED BY <1>3, <1>4, Zenon DEF q

\* A comm of the UDP programs, whose client has allocated what is queued.
UdpInv == Inv /\ heap = Queued

\* A step of the programs is a step of their comm, or none.
LEMMA UdpComm == ASSUME UdpNext PROVE [Next]_vars
BY Zenon DEF UdpNext, Step, Owner, NoFrame, thrsrv_new, thrclt_new, BackToLoop, SendFrame,
       FrameRefused, thrclt_ev_newconn_cb, conn_recvmsg, comm_udp_write_cb, Network,
       Next, Call, Rest, Handler, OnReadable, OnWritable, OnUdpRead, OnUdpWrite

\* The UDP programs use their comm as comm.h allows: what is proved of Comm
\* holds of them.
THEOREM UdpUsesComm == UdpSpec => Spec
<1>1. UdpInit => Init
  BY Zenon DEF UdpInit
<1>2. [UdpNext]_allVars => [Next]_vars
  BY UdpComm, Zenon DEF allVars
<1> QED BY <1>1, <1>2, PTL DEF UdpSpec, Spec

\* A frame is allocated when it is queued and freed when it is answered.
LEMMA UdpNextInv == ASSUME UdpInv, UdpNext PROVE UdpInv'
<1>1. Inv'
  BY UdpComm, NextInv, StutterInv, Zenon DEF UdpInv
<1>2. CASE heap' = heap /\ UNCHANGED udp_w
  BY <1>1, <1>2, Zenon DEF UdpInv, Queued
<1>3. CASE thrclt_new
  <2>1. udp_w'.q = udp_w.q
    BY <1>3, Zenon DEF thrclt_new, comm_udp_write_setup, UdpInv, Inv, TypeOK
  <2> QED BY <1>1, <1>3, <2>1, Zenon DEF UdpInv, Queued, thrclt_new
<1>4. ASSUME NEW fr \in Frame, SendFrame(fr) PROVE UdpInv'
  <2>1. udp_w'.q = Append(udp_w.q, fr) /\ udp_w.q \in Seq(Frame)
    BY <1>4, Zenon DEF SendFrame, comm_udp_write, UdpInv, Inv, TypeOK
  <2>2. Queued' = Queued \cup {fr}
    BY <2>1 DEF Queued
  <2> QED BY <1>1, <1>4, <2>2, Zenon DEF UdpInv, SendFrame, fde_comm_udp_alloc
<1>5. CASE comm_udp_write_cb
  <2>1. heap' = heap \ {told'[1]}
    BY <1>5, Zenon DEF comm_udp_write_cb, fde_comm_udp_free
  <2>2. CASE UdpSend
    <3>1. /\ udp_w.q # <<>> /\ udp_w'.q = Tail(udp_w.q)
          /\ told'[1] = Head(udp_w.q)
      BY <2>2 DEF UdpSend, CallOwner, UdpInv, Inv, TypeOK
    <3>2. Queued' = Queued \ {Head(udp_w.q)}
      BY <3>1, Dequeued, Zenon DEF UdpInv
    <3> QED BY <1>1, <2>1, <3>1, <3>2, Zenon DEF UdpInv
  <2>3. CASE UdpSent
    <3>1. udp_w'.q = udp_w.q /\ told'[1] = "none"
      BY <2>3, Zenon DEF UdpSent, Silence, UdpInv, Inv, TypeOK
    <3>2. "none" \notin Queued
      BY QueuedFrames, CommAssumption, Zenon DEF UdpInv
    <3> QED BY <1>1, <2>1, <3>1, <3>2, Zenon DEF UdpInv, Queued
  <2> QED BY <1>5, <2>2, <2>3, Zenon DEF comm_udp_write_cb
<1>6. \/ heap' = heap /\ UNCHANGED udp_w
      \/ thrclt_new
      \/ \E fr \in Frame : SendFrame(fr)
      \/ comm_udp_write_cb
  BY Zenon DEF UdpNext, Step, Owner, NoFrame, thrsrv_new, BackToLoop, FrameRefused, Bailed,
         thrclt_ev_newconn_cb, conn_recvmsg, Network, udpVars, vars, opVars, comm_udp_read,
         comm_cb_udp_read, OwnerEvent, Return, Drain, Receive
<1> QED BY <1>2, <1>3, <1>4, <1>5, <1>6, Zenon

\* The client leaks no datagram and frees none twice or while it is queued, for
\* any length of the queue, number of datagrams at a time, and socket.
THEOREM FramesAreOwned == UdpSpec => []FramesOwned
<1>1. UdpInit => UdpInv
  <2>1. Init => Queued = {}
    BY DEF Init, Queued
  <2> QED BY <2>1, InitInv, Zenon DEF UdpInit, UdpInv
<1>2. UdpInv /\ [UdpNext]_allVars => UdpInv'
  <2>1. ASSUME UdpInv, UNCHANGED allVars PROVE UdpInv'
    BY <2>1, StutterInv, Zenon DEF UdpInv, allVars, udpVars, vars, opVars, Queued
  <2> QED BY <2>1, UdpNextInv, Zenon
<1>3. UdpInv => FramesOwned
  BY QueueCount, Zenon DEF UdpInv, FramesOwned
<1> QED BY <1>1, <1>2, <1>3, PTL DEF UdpSpec

\* How callbacks and timer hand over to each other in the client: whoever is
\* not in the middle of it has left a timer or a datagram behind.
GoesOn ==
    prog = "clt" /\ ~crashed =>
        /\ ~udp_r /\ pc \in {"owner", "loop", "udp_sending"}
        /\ pc = "udp_sending" => timer
        /\ pc = "loop" => timer \/ udp_w.q # <<>>
        /\ pc = "owner" /\ udp_w.active => timer \/ cnt = 0 \/ udp_w.q # <<>>

\* The timer that finds the queue full relies on a datagram in it, the one
\* that finds room has queued one, and every answer to a datagram arms it.
LEMMA GoesOnNext ==
  ASSUME connrate > 0, MaxQlen > 0, Inv, GoesOn, UdpNext
  PROVE  GoesOn'
<1> SUFFICES ASSUME prog' = "clt", ~crashed' PROVE GoesOn'
  BY Zenon DEF GoesOn
<1> USE DEF GoesOn, Step
<1>1. CASE thrclt_new \/ thrsrv_new
  BY <1>1, Zenon DEF thrclt_new, thrsrv_new, comm_udp_write_setup, MayStart, InOwner, udpVars
<1>2. CASE Step(BackToLoop)
  <2>1. cnt # 0
    BY <1>2, UdpAssumption DEF BackToLoop
  <2> QED BY <1>2, <2>1, Zenon DEF BackToLoop, Return, udpVars, opVars
<1>3. ASSUME NEW fr \in Frame, Step(SendFrame(fr)) PROVE GoesOn'
  <2>1. udp_w'.q = Append(udp_w.q, fr) /\ udp_w.q \in Seq(Frame)
    BY <1>3, Zenon DEF SendFrame, comm_udp_write, Inv, TypeOK
  <2>2. udp_w'.q # <<>>
    <3> HIDE DEF GoesOn, Step
    <3> QED BY <2>1, AppendProperties
  <2> QED BY <1>3, <2>2, Zenon DEF SendFrame, comm_udp_write
<1>4. ASSUME NEW fr \in Frame, Step(FrameRefused(fr)) PROVE GoesOn'
  <2>1. udp_w.q # <<>>
    <3>1. Len(udp_w.q) >= MaxQlen
      BY <1>4, Zenon DEF FrameRefused
    <3> HIDE DEF GoesOn, Step
    <3> QED BY <3>1, CommAssumption
  <2> QED BY <1>4, <2>1, Zenon DEF FrameRefused, vars, opVars
<1>5. CASE Step(thrclt_ev_newconn_cb)
  BY <1>5, Zenon DEF thrclt_ev_newconn_cb, OwnerEvent, opVars
<1>6. CASE Step(comm_udp_write_cb)
  <2>1. CASE UdpSend
    <3>1. PICK s : told' = <<Head(udp_w.q), s>>
      BY <2>1, Zenon DEF UdpSend, CallOwner
    <3>2. udp_w.q # <<>> /\ udp_w.q \in Seq(Frame)
      BY <2>1, Zenon DEF UdpSend, Inv, TypeOK
    <3>3. told'[1] \in Frame
      BY <3>1, <3>2
    <3> QED BY <1>6, <2>1, <3>3, Zenon DEF comm_udp_write_cb, UdpSend, CallOwner, Resumes
  <2>2. CASE UdpSent
    <3>1. udp_w'.q = udp_w.q /\ told'[1] = "none" /\ UNCHANGED udp_r /\ pc' = "loop"
      BY <2>2, Zenon DEF UdpSent, Silence, Inv, TypeOK
    <3>2. pc \in {"loop", "udp_sending"}
      BY <2>2, Zenon DEF UdpSent, UdpTurn, Fires
    <3>3. timer' <=> timer
      BY <1>6, <3>1, CommAssumption, Zenon DEF comm_udp_write_cb
    <3> QED BY <1>6, <3>1, <3>2, <3>3, Zenon DEF comm_udp_write_cb
  <2> QED BY <1>6, <2>1, <2>2, Zenon DEF comm_udp_write_cb
<1>7. CASE Step(conn_recvmsg) \/ Step(NoFrame)
  BY <1>7, Zenon DEF conn_recvmsg, NoFrame, udpVars
<1>8. CASE Step(Network) \/ Step(Receive /\ UNCHANGED udpVars)
  BY <1>8, Zenon DEF Network, Drain, Receive, udpVars, opVars
<1> QED BY <1>1, <1>2, <1>3, <1>4, <1>5, <1>6, <1>7, <1>8, Zenon DEF UdpNext, Owner

\* A client in its event loop always waits for something: its timer is active,
\* or the event that sends from its queue.
ClientWaits == prog = "clt" /\ ~crashed /\ pc = "loop" => timer \/ "ev_udp_write" \in act

\* The client never ends up in its loop with nothing to wake it, although the
\* timer arms itself in no case and a run that finds the queue full does
\* nothing: for every length of the queue and number of datagrams at a time.
\* It is what KeepsSending rests on.
THEOREM ClientGoesOn ==
  ASSUME connrate > 0, MaxQlen > 0
  PROVE  UdpSpec => []ClientWaits
<1>1. UdpInit => GoesOn
  <2>1. UdpInit => ~udp_r /\ pc = "owner" /\ ~udp_w.active
    <3>1. Init => ~udp_r /\ pc = "owner" /\ ~udp_w.active
      BY DEF Init
    <3> QED BY <3>1, Zenon DEF UdpInit
  <2> QED BY <2>1, Zenon DEF GoesOn
<1>2. Inv /\ GoesOn /\ [UdpNext]_allVars => GoesOn'
  <2>1. ASSUME GoesOn, UNCHANGED allVars PROVE GoesOn'
    BY <2>1, Zenon DEF GoesOn, allVars, udpVars, vars, opVars
  <2> QED BY <2>1, GoesOnNext, Zenon
<1>3. Awaited /\ GoesOn => ClientWaits
  <2>1. Awaited /\ udp_w.q # <<>> => "ev_udp_write" \in act \/ pc \in {"udp_sending", "udp_closing"}
    BY Zenon DEF Awaited
  <2> QED BY <2>1, Zenon DEF GoesOn, ClientWaits
<1> QED BY <1>1, <1>2, <1>3, UdpUsesComm, CommInvariant, NoWakeupLost, PTL DEF UdpSpec
=============================================================================
