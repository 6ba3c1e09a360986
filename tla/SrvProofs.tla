----------------------------- MODULE SrvProofs ------------------------------
(***************************************************************************)
(* Proofs about Srv, for any number of threads and connections: the list   *)
(* of a thread is used by one thread at a time, but for one that locked it *)
(* too early, and its timer stays active; no descriptor is lost or in two  *)
(* places, clients are counted, connections use their comm right, tell     *)
(* their owner in order and live in order.                                 *)
(***************************************************************************)
EXTENDS Srv, FiniteSetTheorems, SequenceTheorems, TLAPS

-----------------------------------------------------------------------------
(* The lists and their locks. *)

Where == {"unborn", "failed", "starting", "loop", "enqueue", "insert", "deferred", "drain"}

ThreadTypes ==
    /\ started \in 0..NumThreads /\ pc \in [Thr -> Where]
    /\ dest \in [Thr -> Thr] /\ newfd_lock \in [Thr -> 0..NumThreads]
    /\ early \subseteq Thr /\ crashed \in BOOLEAN
    /\ \A t \in Thr : pc[t] # "unborn" => ListReady(t)

\* Who uses a list holds its lock, which has been initialised, but for who
\* locked it before that.
Locked ==
    /\ crashed => early # {}
    /\ \A t \in Thr \ early : pc[t] = "insert" => LockReady(dest[t]) /\ newfd_lock[dest[t]] = t
    /\ \A t \in Thr : pc[t] = "drain" => newfd_lock[t] = t

LockInv == ThreadTypes /\ Locked

\* Nobody uses a list before main starts the threads.
LEMMA LockInit == Init => LockInv
<1> SUFFICES ASSUME Init PROVE LockInv
  BY Zenon
<1>1. ThreadTypes
  BY SrvAssumption DEF Init, ThreadTypes, Where, Thr, Nobody, ListReady
<1>2. Locked
  BY Zenon DEF Init, Locked
<1> QED BY <1>1, <1>2, Zenon DEF LockInv

\* One holder, one user.
LEMMA OneUser ==
  ASSUME Locked, NEW u \in Thr
  PROVE  Cardinality(Users(u) \ early) \in Nat /\ Cardinality(Users(u) \ early) <= 1
<1>1. Users(u) \ early \subseteq {newfd_lock[u]}
  BY Zenon DEF Users, Locked
<1>2. IsFiniteSet({newfd_lock[u]}) /\ Cardinality({newfd_lock[u]}) = 1
  BY FS_Singleton, Zenon
<1>3. /\ Cardinality(Users(u) \ early) <= Cardinality({newfd_lock[u]})
      /\ IsFiniteSet(Users(u) \ early)
  BY <1>1, <1>2, FS_Subset, Zenon
<1>4. Cardinality(Users(u) \ early) \in Nat
  BY <1>3, FS_CardinalityType, Zenon
<1> QED BY <1>2, <1>3, <1>4, Zenon

\* main starts a thread whose lock has not been initialised.
LEMMA MainLock == ASSUME LockInv, main PROVE LockInv'
<1> USE SrvAssumption
<1>1. PICK w \in {"starting", "failed"} : pc' = [pc EXCEPT ![started] = w]
  BY Zenon DEF main
<1>2. started \in Thr /\ started' = started + 1
  BY Zenon DEF main
<1>3. UNCHANGED <<dest, newfd_lock, early, crashed>>
  BY Zenon DEF main, handVars
<1>4. ThreadTypes'
  <2>1. started' \in 0..NumThreads
    BY <1>2 DEF Thr
  <2>2. pc' \in [Thr -> Where]
    BY <1>1, <1>2, Zenon DEF LockInv, ThreadTypes, Where
  <2>3. \A t \in Thr : t < started' <=> t < started \/ t = started
    BY <1>2 DEF Thr
  <2>4. \A t \in Thr : pc'[t] # "unborn" => t < started'
    BY <1>1, <1>2, <2>3, Zenon DEF LockInv, ThreadTypes, ListReady
  <2> QED BY <1>3, <2>1, <2>2, <2>4, Zenon DEF LockInv, ThreadTypes, ListReady
<1>5. pc[started] = "unborn"
  BY <1>2 DEF LockInv, ThreadTypes, ListReady, Thr
<1>6. Locked'
  <2>1. ASSUME NEW t \in Thr PROVE LockReady(t) => LockReady(t)'
    BY <1>1, <1>5, Zenon DEF LockReady, LockInv, ThreadTypes
  <2> QED BY <1>1, <1>2, <1>3, <2>1, Zenon DEF Locked, LockInv, ThreadTypes
<1> QED BY <1>4, <1>6, Zenon DEF LockInv

\* The lock a thread initialises is held by nobody, or by one that was early.
LEMMA NewLock == ASSUME LockInv, NEW t \in Thr, thrsrv_new(t) PROVE LockInv'
<1> USE SrvAssumption
<1>1. pc[t] = "starting" /\ pc' = [pc EXCEPT ![t] = "loop"]
  BY Zenon DEF thrsrv_new, Goes
<1>2. newfd_lock' = [newfd_lock EXCEPT ![t] = Nobody]
  BY Zenon DEF thrsrv_new
<1>3. UNCHANGED <<started, dest, early, crashed>>
  BY Zenon DEF thrsrv_new, thrVars
<1>4. ThreadTypes'
  BY <1>1, <1>2, <1>3 DEF LockInv, ThreadTypes, ListReady, Where, Nobody
<1>5. Locked'
  <2>1. ~LockReady(t)
    BY <1>1, Zenon DEF LockReady
  <2>2. ASSUME NEW u \in Thr PROVE LockReady(u) => LockReady(u)'
    BY <1>1, Zenon DEF LockReady, LockInv, ThreadTypes
  <2> QED BY <1>1, <1>2, <1>3, <2>1, <2>2, Zenon DEF Locked, LockInv, ThreadTypes
<1> QED BY <1>4, <1>5, Zenon DEF LockInv

\* Accepting and the start of the deferred handler use no list.
LEMMA LoopLock ==
  ASSUME LockInv, NEW t \in Thr, thrsrv_acceptfd(t) \/ DeferredRuns(t)
  PROVE  LockInv'
<1> USE SrvAssumption
<1>1. PICK w \in {"loop", "enqueue", "deferred"} : pc[t] = "loop" /\ pc' = [pc EXCEPT ![t] = w]
  BY Zenon DEF thrsrv_acceptfd, DeferredRuns, Goes
<1>2. UNCHANGED <<started, newfd_lock, early, crashed>>
  BY Zenon DEF thrsrv_acceptfd, DeferredRuns, thrVars, handVars
<1>3. dest' = dest \/ \E u \in Thr : dest' = [dest EXCEPT ![t] = u]
  <2>1. \A flowid \in FlowId : LET id == thrsrv_flowid_to_thread(flowid)
                                IN  id # -1 => Target(id) \in Thr
    BY DEF FlowId, thrsrv_flowid_to_thread, Target, Thr
  <2> QED BY <2>1, Zenon DEF thrsrv_acceptfd, DeferredRuns, handVars
<1>4. ThreadTypes'
  BY <1>1, <1>2, <1>3 DEF LockInv, ThreadTypes, ListReady, Where
<1>5. Locked'
  <2>1. ASSUME NEW u \in Thr PROVE LockReady(u) => LockReady(u)'
    BY <1>1, Zenon DEF LockReady, LockInv, ThreadTypes
  <2>2. \A u \in Thr : pc'[u] \in {"insert", "drain"} => pc'[u] = pc[u] /\ dest'[u] = dest[u]
    BY <1>1, <1>3, Zenon DEF LockInv, ThreadTypes
  <2> QED BY <1>2, <2>1, <2>2, Zenon DEF Locked, LockInv, ThreadTypes
<1> QED BY <1>4, <1>5, Zenon DEF LockInv

\* A lock is taken only when it is free: no other thread uses the list.
LEMMA TakeLock ==
  ASSUME LockInv, NEW t \in Thr, EnqueueLock(t) \/ DeferredLock(t)
  PROVE  LockInv'
<1> USE SrvAssumption
<1>1. UNCHANGED <<started, dest, crashed>> /\ ~crashed
  BY Zenon DEF EnqueueLock, DeferredLock, thrVars, Goes
<1>2. PICK u \in Thr, w \in {"insert", "drain"} :
         /\ pc[t] \in {"enqueue", "deferred"} /\ pc' = [pc EXCEPT ![t] = w]
         /\ u = IF w = "insert" THEN dest[t] ELSE t
         /\ newfd_lock[u] = Nobody /\ newfd_lock' = [newfd_lock EXCEPT ![u] = t]
         /\ early' \in {early, early \cup {t}}
         /\ w = "insert" /\ t \notin early' => LockReady(u)
  <2>1. CASE EnqueueLock(t)
    <3>1. dest[t] \in Thr
      BY Zenon DEF LockInv, ThreadTypes
    <3> QED BY <2>1, <3>1, Zenon DEF EnqueueLock, Goes, Lock, Available
  <2>2. CASE DeferredLock(t)
    BY <2>2, Zenon DEF DeferredLock, Goes, Lock, Available
  <2> QED BY <2>1, <2>2, Zenon
<1>3. ThreadTypes'
  <2>1. pc' \in [Thr -> Where] /\ \A v \in Thr : pc'[v] # "unborn" => pc[v] # "unborn"
    BY <1>2, Zenon DEF LockInv, ThreadTypes, Where
  <2>2. newfd_lock' \in [Thr -> 0..NumThreads]
    <3>1. t \in 0..NumThreads
      BY DEF Thr
    <3> QED BY <3>1, <1>2, Zenon DEF LockInv, ThreadTypes
  <2>3. early' \subseteq Thr
    BY <1>2, Zenon DEF LockInv, ThreadTypes
  <2> QED BY <1>1, <2>1, <2>2, <2>3, Zenon DEF LockInv, ThreadTypes, ListReady
<1>4. Locked'
  <2>1. ASSUME NEW v \in Thr PROVE LockReady(v) => LockReady(v)'
    BY <1>2, Zenon DEF LockReady, LockInv, ThreadTypes
  <2>2. \A v \in Thr : v # Nobody
    BY DEF Thr, Nobody
  <2>3. ~crashed'
    BY <1>1, Zenon
  <2>4. ASSUME NEW v \in Thr \ early', pc'[v] = "insert"
        PROVE  LockReady(dest[v])' /\ newfd_lock'[dest'[v]] = v
    <3>1. dest[v] \in Thr /\ v \notin early
      BY <1>2, Zenon DEF LockInv, ThreadTypes
    <3>2. CASE v = t
      BY <1>1, <1>2, <2>1, <2>4, <3>1, <3>2, Zenon DEF LockInv, ThreadTypes
    <3>3. CASE v # t
      <4>1. LockReady(dest[v]) /\ newfd_lock[dest[v]] = v
        BY <1>2, <2>4, <3>1, <3>3, Zenon DEF LockInv, ThreadTypes, Locked
      <4>2. dest[v] # u
        BY <1>2, <2>2, <4>1, Zenon
      <4> QED BY <1>1, <1>2, <2>1, <3>1, <4>1, <4>2, Zenon DEF LockInv, ThreadTypes
    <3> QED BY <3>2, <3>3, Zenon
  <2>5. ASSUME NEW v \in Thr, pc'[v] = "drain"
        PROVE  newfd_lock'[v] = v
    <3>1. CASE v = t
      BY <1>2, <2>5, <3>1, Zenon DEF LockInv, ThreadTypes
    <3>2. CASE v # t
      BY <1>2, <2>2, <2>5, <3>2, Zenon DEF LockInv, ThreadTypes, Locked
    <3> QED BY <3>1, <3>2, Zenon
  <2> QED BY <2>3, <2>4, <2>5, Zenon DEF Locked
<1> QED BY <1>3, <1>4, Zenon DEF LockInv

\* A lock is released by the thread that leaves the list.
LEMMA GiveLock ==
  ASSUME LockInv, NEW t \in Thr, Insert(t) \/ Drained(t)
  PROVE  LockInv'
<1> USE SrvAssumption
<1>1. UNCHANGED <<started, dest, crashed>> /\ ~crashed /\ early' \in {early, early \ {t}}
  BY Zenon DEF Insert, Drained, thrVars, Goes
<1>2. /\ pc[t] \in {"insert", "drain"} /\ pc' = [pc EXCEPT ![t] = "loop"]
      /\ Unlock(t, IF pc[t] = "insert" THEN dest[t] ELSE t)
  BY Zenon DEF Insert, Drained, Goes
<1>3. ThreadTypes'
  <2>1. pc' \in [Thr -> Where] /\ \A v \in Thr : pc'[v] # "unborn" => pc[v] # "unborn"
    BY <1>2, Zenon DEF LockInv, ThreadTypes, Where
  <2>2. newfd_lock' \in [Thr -> 0..NumThreads]
    BY <1>2 DEF LockInv, ThreadTypes, Unlock, Nobody
  <2>3. early' \subseteq Thr
    BY <1>1, Zenon DEF LockInv, ThreadTypes
  <2> QED BY <1>1, <2>1, <2>2, <2>3, Zenon DEF LockInv, ThreadTypes, ListReady
<1>4. Locked'
  <2>1. ASSUME NEW v \in Thr PROVE LockReady(v) => LockReady(v)'
    BY <1>2, Zenon DEF LockReady, LockInv, ThreadTypes
  <2>2. ASSUME NEW v \in Thr, v # t, NEW u \in Thr, newfd_lock[u] = v
        PROVE  newfd_lock'[u] = v
    BY <1>2, <2>2, Zenon DEF Unlock, LockInv, ThreadTypes
  <2>3. \A v \in Thr : pc'[v] \in {"insert", "drain"} => v # t /\ pc'[v] = pc[v]
    BY <1>2, Zenon DEF LockInv, ThreadTypes
  <2>4. \A v \in Thr : v # t /\ v \notin early' => v \notin early
    BY <1>1, Zenon
  <2> QED BY <1>1, <2>1, <2>2, <2>3, <2>4, Zenon DEF Locked, LockInv, ThreadTypes
<1> QED BY <1>3, <1>4, Zenon DEF LockInv

\* An insertion breaks no list while nobody is early.
LEMMA CrashLock ==
  ASSUME LockInv, NEW t \in Thr, InsertCrashes(t)
  PROVE  LockInv'
<1>1. UNCHANGED <<started, pc, dest, newfd_lock, early>> /\ crashed' = TRUE
  BY Zenon DEF InsertCrashes, thrVars, handVars
<1>2. ThreadTypes'
  BY <1>1, Zenon DEF LockInv, ThreadTypes, ListReady
<1>3. early # {}
  <2> SUFFICES ASSUME early = {} PROVE FALSE
    BY Zenon
  <2>1. dest[t] \in Thr /\ pc[t] = "insert" /\ Locked
    BY Zenon DEF LockInv, ThreadTypes, InsertCrashes
  <2>2. ListReady(dest[t])
    BY <2>1, Zenon DEF Locked, LockReady, LockInv, ThreadTypes
  <2>3. Users(dest[t]) \ early = Users(dest[t])
    BY Zenon
  <2>4. Cardinality(Users(dest[t])) \in Nat /\ Cardinality(Users(dest[t])) <= 1
    BY <2>1, <2>3, OneUser, Zenon
  <2> QED BY <2>2, <2>4 DEF InsertCrashes
<1>4. Locked'
  BY <1>1, <1>3, Zenon DEF LockInv, Locked, LockReady
<1> QED BY <1>2, <1>4, Zenon DEF LockInv

\* Every step keeps lists with the holders of their locks.
LEMMA LockNext == ASSUME LockInv, [Next]_vars PROVE LockInv'
<1>1. CASE UNCHANGED <<started, pc, dest, newfd_lock, early, crashed>>
  BY <1>1, Zenon DEF LockInv, ThreadTypes, Locked, ListReady, LockReady
<1>2. CASE main
  BY <1>2, MainLock, Zenon
<1>3. ASSUME NEW t \in Thr,
             \/ thrsrv_new(t) \/ thrsrv_acceptfd(t) \/ DeferredRuns(t)
             \/ EnqueueLock(t) \/ DeferredLock(t) \/ Insert(t) \/ Drained(t) \/ InsertCrashes(t)
      PROVE  LockInv'
  BY <1>3, NewLock, LoopLock, TakeLock, GiveLock, CrashLock, Zenon
<1>4. ASSUME NEW t \in Thr, Drain(t)
      PROVE  UNCHANGED <<started, pc, dest, newfd_lock, early, crashed>>
  BY <1>4, Zenon DEF Drain, Goes, thrVars, LockInv, ThreadTypes
<1>5. ASSUME NEW c \in Conn, Arrive(c)
      PROVE  UNCHANGED <<started, pc, dest, newfd_lock, early, crashed>>
  BY <1>5, Zenon DEF Arrive, thrVars, handVars
<1>6. ASSUME NEW t \in Thr, NEW c \in Conn, Written(t, c) \/ CommClosed(t, c) \/ Freeing(t, c)
      PROVE  UNCHANGED <<started, pc, dest, newfd_lock, early, crashed>>
  BY <1>6, Zenon DEF Written, CommClosed, Freeing, thrVars, handVars
<1>7. CASE UNCHANGED vars
  BY <1>1, <1>7, Zenon DEF vars, thrVars, handVars
<1> QED BY <1>1, <1>2, <1>3, <1>4, <1>5, <1>6, <1>7, Zenon DEF Next, Inside

\* Of the threads that locked a list of srv.c when its lock was initialised one
\* at a time uses it, for any number of threads, and a list is broken, or used
\* before it is initialised, only while a thread inserts that locked it before.
THEOREM HandoverIsSafe == Spec => []HandoverSafe
<1>1. LockInv => HandoverSafe
  BY OneUser, Zenon DEF LockInv, HandoverSafe, Locked
<1> QED BY <1>1, LockInit, LockNext, PTL DEF Spec

-----------------------------------------------------------------------------
(* Connections.  One is in one of these phases; w is what its owner was     *)
(* told when it was closed.                                                 *)

Phase(state, comm, open, closing, write, cleanup, told) ==
    [state |-> state, comm |-> comm, open |-> open, closing |-> closing,
     write |-> write, cleanup |-> cleanup, told |-> told]

Words == {<<"CLOSING">>, <<"ERROR", "CLOSING">>}

Serving     == Phase("RUNNING", TRUE, TRUE, FALSE, TRUE, FALSE, <<>>)
Ending(w)   == Phase("CLOSING", FALSE, TRUE, TRUE, FALSE, FALSE, w)
Ended(w)    == Phase("CLOSING", FALSE, FALSE, TRUE, FALSE, TRUE, w)
Released(w) == Phase("FREED", FALSE, FALSE, TRUE, FALSE, FALSE, Append(w, "FREEING"))

Used   == {Serving} \cup {Ending(w) : w \in Words} \cup {Ended(w) : w \in Words}
Unused == {NoConn} \cup {Released(w) : w \in Words}
Phases == Used \cup Unused

\* conn_new starts the first phase.
LEMMA NewPhase == conn_new = Serving
<1>1. PICK k : k = conn_new
  BY Zenon
<1>2. k = Serving
  BY <1>1, Zenon DEF conn_new, NoConn, Serving, Phase
<1> QED BY <1>1, <1>2, Zenon

\* What the owner has been told when an error has closed a connection.
LEMMA Told ==
    /\ Append(<<>>, "CLOSING") = <<"CLOSING">>
    /\ Append(Append(<<>>, "ERROR"), "CLOSING") = <<"ERROR", "CLOSING">>
<1> DEFINE s == Append(<<"ERROR">>, "CLOSING")
<1>1. /\ s \in Seq({"ERROR", "CLOSING"}) /\ <<"ERROR", "CLOSING">> \in Seq({"ERROR", "CLOSING"})
      /\ Len(s) = 2 /\ Len(<<"ERROR", "CLOSING">>) = 2
  OBVIOUS
<1>2. \A i \in 1..2 : s[i] = <<"ERROR", "CLOSING">>[i]
  <2>1. \A i \in 1..2 : i = 1 \/ i = 2
    OBVIOUS
  <2>2. s[1] = "ERROR" /\ s[2] = "CLOSING"
    OBVIOUS
  <2> QED BY <2>1, <2>2
<1>3. s = <<"ERROR", "CLOSING">>
  BY <1>1, <1>2, SeqEqual, Zenon
<1>4. Append(<<>>, "CLOSING") = <<"CLOSING">> /\ Append(<<>>, "ERROR") = <<"ERROR">>
  OBVIOUS
<1> QED BY <1>3, <1>4, Zenon

\* What it has been told when the connection is freed.
LEMMA LastTold ==
    /\ Append(<<"CLOSING">>, "FREEING") = <<"CLOSING", "FREEING">>
    /\ Append(<<"ERROR", "CLOSING">>, "FREEING") = <<"ERROR", "CLOSING", "FREEING">>
<1> DEFINE W == {"ERROR", "CLOSING", "FREEING"}
           s == Append(<<"CLOSING">>, "FREEING")
           r == Append(<<"ERROR", "CLOSING">>, "FREEING")
<1>1. s = <<"CLOSING", "FREEING">>
  <2>1. /\ s \in Seq(W) /\ <<"CLOSING", "FREEING">> \in Seq(W)
        /\ Len(s) = 2 /\ Len(<<"CLOSING", "FREEING">>) = 2
    OBVIOUS
  <2>2. \A i \in 1..2 : i = 1 \/ i = 2
    OBVIOUS
  <2>3. s[1] = "CLOSING" /\ s[2] = "FREEING"
    OBVIOUS
  <2>4. \A i \in 1..2 : s[i] = <<"CLOSING", "FREEING">>[i]
    BY <2>2, <2>3
  <2> QED BY <2>1, <2>4, SeqEqual, Zenon
<1>2. r = <<"ERROR", "CLOSING", "FREEING">>
  <2>1. /\ r \in Seq(W) /\ <<"ERROR", "CLOSING", "FREEING">> \in Seq(W)
        /\ Len(r) = 3 /\ Len(<<"ERROR", "CLOSING", "FREEING">>) = 3
    OBVIOUS
  <2>2. \A i \in 1..3 : i = 1 \/ i = 2 \/ i = 3
    OBVIOUS
  <2>3. r[1] = "ERROR" /\ r[2] = "CLOSING" /\ r[3] = "FREEING"
    OBVIOUS
  <2>4. \A i \in 1..3 : r[i] = <<"ERROR", "CLOSING", "FREEING">>[i]
    BY <2>2, <2>3
  <2> QED BY <2>1, <2>4, SeqEqual, Zenon
<1> QED BY <1>1, <1>2, Zenon

\* The answer to a write goes on writing or closes.
LEMMA AnswerPhase ==
  ASSUME NEW k \in WriteAnswers(Serving)
  PROVE  thrsrv_conn_update_cb(k) \in {Serving} \cup {Ending(w) : w \in Words}
<1>1. PICK a : a = Answered(Serving)
  BY Zenon
<1>2. a = Phase("RUNNING", TRUE, TRUE, FALSE, FALSE, FALSE, <<>>)
  BY <1>1, Zenon DEF Answered, Serving, Phase
<1>3. PICK b : b = [a EXCEPT !.write = TRUE]
  BY Zenon
<1>4. b = Serving
  BY <1>2, <1>3, Zenon DEF Serving, Phase
<1>5. PICK e : e = conn_close(a)
  BY Zenon
<1>6. e = Ending(Append(<<>>, "CLOSING"))
  BY <1>2, <1>5, Zenon DEF conn_close, Tell, Ending, Phase
<1>7. PICK f : f = Failed(a)
  OBVIOUS
<1>8. f = Phase("ERROR", TRUE, TRUE, FALSE, FALSE, FALSE, Append(<<>>, "ERROR"))
  BY <1>2, <1>7, Zenon DEF Failed, Tell, Phase
<1>9. PICK g : g = conn_close(f)
  OBVIOUS
<1>10. g = Ending(Append(Append(<<>>, "ERROR"), "CLOSING"))
  BY <1>8, <1>9, Zenon DEF conn_close, Tell, Ending, Phase
<1>11. ~Serving.closing /\ Running(a)
  BY <1>2, Zenon DEF Serving, Running, Phase
<1>12. k \in {b, e, f}
  <2>1. PICK s \in {"COMPLETED", "ERROR", "EOF"}, over \in BOOLEAN, all \in BOOLEAN :
           k = conn_write_cb(a, s, over, all)
    BY <1>1, <1>11 DEF WriteAnswers, Status
  <2> QED BY <2>1, <1>3, <1>5, <1>7, <1>11, Zenon DEF conn_write_cb
<1>13. b.state # "ERROR" /\ e.state # "ERROR" /\ f.state = "ERROR"
  BY <1>4, <1>6, <1>8, Zenon DEF Serving, Ending, Phase
<1>14. thrsrv_conn_update_cb(k) \in {b, e, g}
  BY <1>9, <1>12, <1>13, Zenon DEF thrsrv_conn_update_cb, OnError
<1> QED BY <1>4, <1>6, <1>10, <1>14, Told, Zenon DEF Words

\* The close callback and the cleanup.
LEMMA EndPhase ==
  ASSUME NEW w \in Words
  PROVE  client_ev_close_cb(Ending(w)) = Ended(w) /\ client_ev_cleanup_cb(Ended(w)) = Released(w)
<1>1. PICK k : k = client_ev_close_cb(Ending(w))
  BY Zenon
<1>2. k = Ended(w)
  BY <1>1, Zenon DEF client_ev_close_cb, Ending, Ended, Phase
<1>3. PICK l : l = client_ev_cleanup_cb(Ended(w))
  OBVIOUS
<1>4. l = Released(w)
  BY <1>3, Zenon DEF client_ev_cleanup_cb, Tell, Ended, Released, Phase
<1> QED BY <1>1, <1>2, <1>3, <1>4, Zenon

\* The phases the handlers can find, and whether the descriptor is open.
LEMMA PhaseFacts ==
  ASSUME NEW k \in Phases
  PROVE  /\ k.write => k = Serving
         /\ CloseReady(k) => \E w \in Words : k = Ending(w)
         /\ k.cleanup => \E w \in Words : k = Ended(w)
         /\ k.state \in {"NONE", "FREED"} <=> k \in Unused
         /\ k \in Used <=> k \notin Unused
         /\ k.open <=> k = Serving \/ \E w \in Words : k = Ending(w)
BY DEF Phases, Used, Unused, CloseReady, NoConn, Serving, Ending, Ended, Released, Phase

-----------------------------------------------------------------------------
(* Where descriptors are. *)

PlaceTypes ==
    /\ hand \in [Thr -> {<<>>} \cup {<<c>> : c \in Conn}]
    /\ \A t \in Thr : hand[t] # <<>> => pc[t] \in {"enqueue", "insert"}
    /\ newfd_list \in [Thr -> Seq(Conn)] /\ conn_list \in [Thr -> SUBSET Conn]
    /\ conn \in [Conn -> Phases] /\ fds \subseteq Conn /\ backlog \subseteq Conn

\* No descriptor is in two places of a kind, or in a hand and on a list.
Once ==
    /\ \A t, u \in Thr : hand[t] = hand[u] /\ hand[t] # <<>> => t = u
    /\ \A t, u \in Thr : \A i \in DOMAIN newfd_list[t], j \in DOMAIN newfd_list[u] :
          newfd_list[t][i] = newfd_list[u][j] => t = u /\ i = j
    /\ \A t, u \in Thr : \A c \in conn_list[t] : c \in conn_list[u] => t = u
    /\ \A t, u \in Thr : \A i \in DOMAIN newfd_list[u] : hand[t] # <<newfd_list[u][i]>>

\* What is in a hand or on a list is open, is not waiting to be accepted, and
\* no connection has it; what waits is not open.
Kept ==
    /\ \A t \in Thr : \A c \in Conn : hand[t] = <<c>> => c \in fds /\ conn[c] \in Unused
    /\ \A t \in Thr : \A i \in DOMAIN newfd_list[t] :
          newfd_list[t][i] \in fds /\ conn[newfd_list[t][i]] \in Unused
    /\ \A c \in backlog : c \notin fds /\ conn[c] \in Unused
    /\ \A t \in Thr : \A c \in conn_list[t] : conn[c] \in Used

\* What is open is somewhere, and a connection in use has a thread.
Found ==
    /\ \A c \in Conn : conn[c].open => c \in fds
    /\ \A c \in Conn : conn[c] \in Used => \E t \in Thr : c \in conn_list[t]
    /\ \A c \in fds : \/ conn[c].open
                      \/ \E t \in Thr : hand[t] = <<c>>
                      \/ \E t \in Thr : \E i \in DOMAIN newfd_list[t] : newfd_list[t][i] = c

PlaceInv == PlaceTypes /\ Once /\ Kept /\ Found

\* No descriptor is open when main begins.
LEMMA PlaceInit == Init => PlaceInv
<1> SUFFICES ASSUME Init PROVE PlaceInv
  OBVIOUS
<1>1. /\ \A t \in Thr : hand[t] = <<>> /\ newfd_list[t] = <<>> /\ conn_list[t] = {}
      /\ \A c \in Conn : conn[c] = NoConn
      /\ fds = {} /\ backlog = {}
  BY Zenon DEF Init
<1>2. NoConn \in Unused /\ NoConn \in Phases /\ NoConn \notin Used /\ ~NoConn.open
  <2>1. NoConn \in Unused /\ NoConn \in Phases
    BY Zenon DEF Unused, Phases
  <2> QED BY <2>1, PhaseFacts, Zenon DEF NoConn
<1>3. PlaceTypes
  BY <1>2 DEF Init, PlaceTypes
<1>4. Once /\ Kept /\ Found
  BY <1>1, <1>2 DEF Once, Kept, Found
<1> QED BY <1>3, <1>4, Zenon DEF PlaceInv

\* An unused connection has no open comm; a new one has.
LEMMA OpenFacts ==
    /\ \A k \in Unused : k \in Phases /\ ~k.open /\ k \notin Used
    /\ Serving \in Used /\ Serving \in Phases /\ Serving.open /\ Serving \notin Unused
<1>1. \A k \in Unused : k \in Phases /\ ~k.open
  BY DEF Unused, Phases, NoConn, Released, Phase
<1>2. Serving \in Used /\ Serving \in Phases /\ Serving.open
  BY Zenon DEF Used, Phases, Serving, Phase
<1> QED BY <1>1, <1>2, PhaseFacts, Zenon

\* A client connects whose descriptor is not open.
LEMMA ArrivePlace == ASSUME PlaceInv, NEW c \in Conn, Arrive(c) PROVE PlaceInv'
<1>1. /\ backlog' = backlog \cup {c} /\ c \notin fds
      /\ UNCHANGED <<pc, hand, newfd_list, conn_list, conn, fds>>
  BY Zenon DEF Arrive, handVars
<1>2. conn[c] \in Unused
  BY PhaseFacts, Zenon DEF PlaceInv, PlaceTypes, Arrive
<1>3. PlaceTypes' /\ Once'
  BY <1>1 DEF PlaceInv, PlaceTypes, Once
<1>4. Kept'
  BY <1>1, <1>2, Zenon DEF PlaceInv, Kept
<1>5. Found'
  BY <1>1, Zenon DEF PlaceInv, Found
<1> QED BY <1>3, <1>4, <1>5, Zenon DEF PlaceInv

\* What thrsrv_finish_setup does with a descriptor that is in no other place.
LEMMA Setup ==
  ASSUME NEW t \in Thr, NEW c \in Conn, thrsrv_finish_setup(t, c)
  PROVE  \/ /\ conn' = [conn EXCEPT ![c] = Serving] /\ fds' = fds \cup {c}
            /\ conn_list' = [conn_list EXCEPT ![t] = conn_list[t] \cup {c}]
            /\ num_clients' = [num_clients EXCEPT ![t] = num_clients[t] + 1]
         \/ /\ conn' = conn /\ fds' = fds \ {c} /\ conn_list' = conn_list
            /\ num_clients' = [num_clients EXCEPT ![t] = num_clients[t]]
BY NewPhase, Zenon DEF thrsrv_finish_setup, Counted

\* A descriptor is accepted and served, handed over or closed.
LEMMA AcceptPlace == ASSUME PlaceInv, ThreadTypes, NEW t \in Thr, thrsrv_acceptfd(t) PROVE PlaceInv'
<1>1. PICK c \in backlog :
        /\ backlog' = backlog \ {c} /\ pc[t] = "loop"
        /\ \/ thrsrv_finish_setup(t, c) /\ UNCHANGED <<hand, pc>>
           \/ /\ hand' = [hand EXCEPT ![t] = <<c>>] /\ pc' = [pc EXCEPT ![t] = "enqueue"]
              /\ fds' = fds \cup {c} /\ UNCHANGED <<conn, conn_list>>
           \/ fds' = fds \ {c} /\ UNCHANGED <<hand, pc, conn, conn_list>>
  <2>1. pc = [pc EXCEPT ![t] = pc[t]]
    BY Zenon DEF ThreadTypes
  <2> QED BY <2>1, Zenon DEF thrsrv_acceptfd, Goes, Refused
<1>2. newfd_list' = newfd_list
  BY Zenon DEF thrsrv_acceptfd
<1>3. c \in Conn /\ c \notin fds /\ conn[c] \in Unused /\ hand[t] = <<>>
  BY <1>1, Zenon DEF PlaceInv, PlaceTypes, Kept
<1>4. ASSUME conn' = [conn EXCEPT ![c] = Serving], fds' = fds \cup {c},
             conn_list' = [conn_list EXCEPT ![t] = conn_list[t] \cup {c}], UNCHANGED <<hand, pc>>
      PROVE  PlaceInv'
  <2>1. PlaceTypes'
    BY <1>1, <1>2, <1>3, <1>4, OpenFacts, Zenon DEF PlaceInv, PlaceTypes
  <2>2. Once'
    BY <1>2, <1>3, <1>4, OpenFacts DEF PlaceInv, PlaceTypes, Once, Kept
  <2>3. Kept'
    BY <1>1, <1>2, <1>3, <1>4, OpenFacts DEF PlaceInv, PlaceTypes, Kept
  <2>4. Found'
    <3>1. \A d \in Conn : conn'[d] = IF d = c THEN Serving ELSE conn[d]
      BY <1>4, Zenon DEF PlaceInv, PlaceTypes
    <3>2. c \in conn_list'[t] /\ \A u \in Thr : conn_list[u] \subseteq conn_list'[u]
      BY <1>4, Zenon DEF PlaceInv, PlaceTypes
    <3>3. \A d \in Conn : conn'[d].open => d \in fds'
      BY <1>4, <3>1, Zenon DEF PlaceInv, Found
    <3>4. \A d \in Conn : conn'[d] \in Used => \E u \in Thr : d \in conn_list'[u]
      BY <1>4, <3>1, <3>2, Zenon DEF PlaceInv, Found
    <3>5. \A d \in fds' : \/ conn'[d].open
                          \/ \E u \in Thr : hand'[u] = <<d>>
                          \/ \E u \in Thr : \E i \in DOMAIN newfd_list'[u] : newfd_list'[u][i] = d
      <4> SUFFICES ASSUME NEW d \in fds', d # c
                   PROVE  \/ conn'[d].open
                          \/ \E u \in Thr : hand'[u] = <<d>>
                          \/ \E u \in Thr : \E i \in DOMAIN newfd_list'[u] : newfd_list'[u][i] = d
        BY <1>3, <3>1, OpenFacts, Zenon
      <4>1. d \in fds /\ d \in Conn /\ conn'[d] = conn[d] /\ hand' = hand
        BY <1>4, <3>1, Zenon DEF PlaceInv, PlaceTypes
      <4> QED BY <1>2, <4>1, Zenon DEF PlaceInv, Found
    <3> QED BY <3>3, <3>4, <3>5, Zenon DEF Found
  <2> QED BY <2>1, <2>2, <2>3, <2>4, Zenon DEF PlaceInv
<1>5. ASSUME fds' = fds \ {c}, UNCHANGED <<hand, pc, conn, conn_list>>
      PROVE  PlaceInv'
  <2>1. fds' = fds
    BY <1>3, <1>5, Zenon
  <2>2. PlaceTypes' /\ Once'
    BY <1>1, <1>2, <1>5, <2>1 DEF PlaceInv, PlaceTypes, Once
  <2>3. Kept'
    BY <1>1, <1>2, <1>5, <2>1, Zenon DEF PlaceInv, Kept
  <2>4. Found'
    BY <1>2, <1>5, <2>1, Zenon DEF PlaceInv, Found
  <2> QED BY <2>2, <2>3, <2>4, Zenon DEF PlaceInv
<1>6. ASSUME hand' = [hand EXCEPT ![t] = <<c>>], pc' = [pc EXCEPT ![t] = "enqueue"],
             fds' = fds \cup {c}, UNCHANGED <<conn, conn_list>>
      PROVE  PlaceInv'
  <2>1. PlaceTypes'
    BY <1>1, <1>2, <1>3, <1>6, Zenon DEF PlaceInv, PlaceTypes, ThreadTypes
  <2>2. \A d \in Conn : <<d>> = <<c>> => d = c
    BY Zenon
  <2>3. Once'
    <3>1. \A u \in Thr : hand'[u] = IF u = t THEN <<c>> ELSE hand[u]
      BY <1>6, Zenon DEF PlaceInv, PlaceTypes
    <3>2. \A u \in Thr : hand[u] # <<c>>
      BY <1>3, Zenon DEF PlaceInv, Kept
    <3>3. \A u \in Thr : \A i \in DOMAIN newfd_list[u] : <<newfd_list[u][i]>> # <<c>>
      BY <1>3, <2>2, Zenon DEF PlaceInv, PlaceTypes, Kept
    <3> QED BY <1>2, <1>6, <3>1, <3>2, <3>3 DEF PlaceInv, Once
  <2>4. Kept'
    BY <1>1, <1>2, <1>3, <1>6, <2>2, Zenon DEF PlaceInv, PlaceTypes, Kept
  <2>5. Found'
    <3>1. \A u \in Thr : hand'[u] = IF u = t THEN <<c>> ELSE hand[u]
      BY <1>6 DEF PlaceInv, PlaceTypes
    <3>2. \A d \in Conn, u \in Thr : hand[u] = <<d>> => u # t
      BY <1>3
    <3>3. \A d \in Conn, u \in Thr : hand[u] = <<d>> => hand'[u] = <<d>>
      BY <3>1, <3>2, Zenon
    <3>4. hand'[t] = <<c>>
      BY <3>1, Zenon
    <3>5. ASSUME NEW d \in fds'
          PROVE  \/ conn'[d].open \/ \E u \in Thr : hand'[u] = <<d>>
                 \/ \E u \in Thr : \E i \in DOMAIN newfd_list'[u] : newfd_list'[u][i] = d
      <4>1. CASE d = c
        BY <3>4, <4>1, Zenon
      <4>2. CASE d \in fds
        <5>1. \/ conn[d].open \/ \E u \in Thr : hand[u] = <<d>>
              \/ \E u \in Thr : \E i \in DOMAIN newfd_list[u] : newfd_list[u][i] = d
          BY <4>2, Zenon DEF PlaceInv, Found
        <5>2. d \in Conn
          BY <4>2, Zenon DEF PlaceInv, PlaceTypes
        <5> QED BY <1>2, <1>6, <3>3, <5>1, <5>2, Zenon
      <4> QED BY <1>6, <4>1, <4>2, Zenon
    <3>6. /\ \A d \in Conn : conn'[d].open => d \in fds'
          /\ \A d \in Conn : conn'[d] \in Used => \E u \in Thr : d \in conn_list'[u]
      BY <1>6, Zenon DEF PlaceInv, Found
    <3> QED BY <3>5, <3>6, Zenon DEF Found
  <2> QED BY <2>1, <2>3, <2>4, <2>5 DEF PlaceInv
<1> QED BY <1>1, <1>3, <1>4, <1>5, <1>6, Setup, Zenon

-----------------------------------------------------------------------------
(* The other steps and where descriptors are. *)

\* A descriptor goes from a hand to the end of a list.
LEMMA InsertPlace == ASSUME PlaceInv, ThreadTypes, NEW t \in Thr, Insert(t) PROVE PlaceInv'
<1>1. /\ newfd_list' = [newfd_list EXCEPT ![dest[t]] = @ \o hand[t]]
      /\ hand' = [hand EXCEPT ![t] = <<>>] /\ pc' = [pc EXCEPT ![t] = "loop"]
  BY Zenon DEF Insert, Goes
<1>0. conn_list' = conn_list /\ conn' = conn /\ fds' = fds /\ backlog' = backlog
  BY Zenon DEF Insert, connVars
<1> DEFINE u == dest[t]
           n == Len(newfd_list[u])
<1>2. u \in Thr /\ newfd_list[u] \in Seq(Conn) /\ n \in Nat
  BY DEF PlaceInv, PlaceTypes, ThreadTypes
<1>3. \A v \in Thr : hand'[v] = IF v = t THEN <<>> ELSE hand[v]
  BY <1>1, Zenon DEF PlaceInv, PlaceTypes
<1>4. CASE hand[t] = <<>>
  <2>1. newfd_list[u] \o <<>> = newfd_list[u]
    BY <1>2
  <2>2. newfd_list' = newfd_list /\ hand' = hand
    BY <1>1, <1>2, <1>4, <2>1, Zenon DEF PlaceInv, PlaceTypes
  <2>3. PlaceTypes'
    BY <1>0, <1>1, <1>4, <2>2, Zenon DEF PlaceInv, PlaceTypes, ThreadTypes
  <2>4. Once' /\ Kept'
    BY <1>0, <2>2 DEF PlaceInv, Once, Kept
  <2>5. Found'
    BY <1>0, <2>2, Zenon DEF PlaceInv, Found
  <2> QED BY <2>3, <2>4, <2>5, Zenon DEF PlaceInv
<1>5. ASSUME NEW c \in Conn, hand[t] = <<c>> PROVE PlaceInv'
  <2>1. PICK l : l = newfd_list[u] \o <<c>>
    BY Zenon
  <2>2. /\ l \in Seq(Conn) /\ Len(l) = n + 1 /\ DOMAIN l = 1 .. n + 1 /\ l[n + 1] = c
        /\ \A i \in 1..n : l[i] = newfd_list[u][i]
    BY <1>2, <2>1
  <2>3. newfd_list' = [newfd_list EXCEPT ![u] = l]
    BY <1>1, <1>5, <2>1, Zenon
  <2>4. \A v \in Thr : newfd_list'[v] = IF v = u THEN l ELSE newfd_list[v]
    BY <1>2, <2>3, Zenon DEF PlaceInv, PlaceTypes
  <2>5. /\ DOMAIN newfd_list[u] = 1..n /\ \A i \in DOMAIN l : i \in 1..n \/ i = n + 1
        /\ \A i \in 1..n : i \in DOMAIN l
    BY <1>2, <2>2
  <2>6. \A v \in Thr : \A i \in DOMAIN newfd_list'[v] :
           \/ i \in DOMAIN newfd_list[v] /\ newfd_list'[v][i] = newfd_list[v][i]
           \/ v = u /\ i = n + 1 /\ newfd_list'[v][i] = c
    BY <2>2, <2>4, <2>5, Zenon
  <2>7. \A v \in Thr : \A i \in DOMAIN newfd_list[v] :
           i \in DOMAIN newfd_list'[v] /\ newfd_list'[v][i] = newfd_list[v][i]
    BY <2>2, <2>4, <2>5, Zenon
  <2>8. \A v \in Thr : \A i \in DOMAIN newfd_list[v] : newfd_list[v][i] # c
    BY <1>5 DEF PlaceInv, Once
  <2>9. PlaceTypes'
    <3>1. pc \in [Thr -> Where]
      BY Zenon DEF ThreadTypes
    <3>2. hand' \in [Thr -> {<<>>} \cup {<<d>> : d \in Conn}]
      BY <1>1, Zenon DEF PlaceInv, PlaceTypes
    <3>3. \A v \in Thr : hand'[v] # <<>> => pc'[v] \in {"enqueue", "insert"}
      BY <1>1, <1>3, <3>1, Zenon DEF PlaceInv, PlaceTypes
    <3>4. newfd_list' \in [Thr -> Seq(Conn)]
      BY <2>2, <2>3, Zenon DEF PlaceInv, PlaceTypes
    <3> QED BY <1>0, <3>2, <3>3, <3>4, Zenon DEF PlaceInv, PlaceTypes
  <2>10. Once'
    <3>1. \A v \in Thr : hand'[v] # <<>> => v # t /\ hand'[v] = hand[v] /\ hand'[v] # <<c>>
      BY <1>3, <1>5, Zenon DEF PlaceInv, Once
    <3>2. \A v, w \in Thr : \A i \in DOMAIN newfd_list'[v], j \in DOMAIN newfd_list'[w] :
             newfd_list'[v][i] = newfd_list'[w][j] => v = w /\ i = j
      BY <2>6, <2>8 DEF PlaceInv, Once
    <3>3. \A v, w \in Thr : \A i \in DOMAIN newfd_list'[w] : hand'[v] # <<newfd_list'[w][i]>>
      BY <2>6, <3>1 DEF PlaceInv, Once
    <3>4. \A v, w \in Thr : hand'[v] = hand'[w] /\ hand'[v] # <<>> => v = w
      BY <3>1, Zenon DEF PlaceInv, Once
    <3>5. \A v, w \in Thr : \A d \in conn_list'[v] : d \in conn_list'[w] => v = w
      BY <1>0, Zenon DEF PlaceInv, Once
    <3> QED BY <3>2, <3>3, <3>4, <3>5, Zenon DEF Once
  <2>11. Kept'
    BY <1>0, <1>3, <1>5, <2>6 DEF PlaceInv, Kept
  <2>12. Found'
    <3>1. ASSUME NEW d \in fds'
          PROVE  \/ conn'[d].open \/ \E v \in Thr : hand'[v] = <<d>>
                 \/ \E v \in Thr : \E i \in DOMAIN newfd_list'[v] : newfd_list'[v][i] = d
      <4>1. CASE d = c
        BY <1>2, <2>2, <2>4, <4>1
      <4>2. CASE d # c
        <5>1. <<d>> # <<c>>
          BY <4>2, Zenon
        <5>2. \A v \in Thr : hand[v] = <<d>> => hand'[v] = <<d>>
          BY <1>3, <1>5, <5>1, Zenon
        <5>3. \/ conn[d].open \/ \E v \in Thr : hand[v] = <<d>>
              \/ \E v \in Thr : \E i \in DOMAIN newfd_list[v] : newfd_list[v][i] = d
          BY <1>0, Zenon DEF PlaceInv, Found
        <5> QED BY <1>0, <2>7, <5>2, <5>3, Zenon
      <4> QED BY <4>1, <4>2, Zenon
    <3>2. /\ \A d \in Conn : conn'[d].open => d \in fds'
          /\ \A d \in Conn : conn'[d] \in Used => \E v \in Thr : d \in conn_list'[v]
      BY <1>0, Zenon DEF PlaceInv, Found
    <3> QED BY <3>1, <3>2, Zenon DEF Found
  <2> QED BY <2>9, <2>10, <2>11, <2>12, Zenon DEF PlaceInv
<1> QED BY <1>4, <1>5, Zenon DEF PlaceInv, PlaceTypes

\* The head of a list is served or closed.
LEMMA DrainPlace == ASSUME PlaceInv, ThreadTypes, NEW t \in Thr, Drain(t) PROVE PlaceInv'
<1>1. newfd_list[t] # <<>> /\ newfd_list' = [newfd_list EXCEPT ![t] = Tail(newfd_list[t])]
  BY Zenon DEF Drain
<1>2. pc' = pc /\ hand' = hand /\ backlog' = backlog
  BY Zenon DEF Drain, Goes, ThreadTypes
<1> DEFINE n == Len(newfd_list[t])
           c == newfd_list[t][1]
           Was(v, i) == IF v = t THEN i + 1 ELSE i
<1>3. newfd_list[t] \in Seq(Conn) /\ n \in Nat \ {0} /\ DOMAIN newfd_list[t] = 1..n
  BY <1>1 DEF PlaceInv, PlaceTypes
<1>4. thrsrv_finish_setup(t, c)
  <2>1. Head(newfd_list[t]) = c
    BY <1>1, <1>3
  <2> QED BY <2>1, Zenon DEF Drain
<1>5. PICK l : l = Tail(newfd_list[t])
  BY Zenon
<1>6. /\ l \in Seq(Conn) /\ DOMAIN l = 1 .. n - 1
      /\ \A i \in 1 .. n - 1 : l[i] = newfd_list[t][i + 1]
  BY <1>1, <1>3, <1>5
<1>7. \A v \in Thr : newfd_list'[v] = IF v = t THEN l ELSE newfd_list[v]
  BY <1>1, <1>5, Zenon DEF PlaceInv, PlaceTypes
<1>8. c \in Conn /\ c \in fds /\ conn[c] \in Unused /\ 1 \in DOMAIN newfd_list[t]
  <2>1. 1 \in DOMAIN newfd_list[t]
    BY <1>3
  <2> QED BY <1>3, <2>1 DEF PlaceInv, Kept
<1>9. \A v \in Thr : hand[v] # <<c>>
  BY <1>8 DEF PlaceInv, Once
<1>10. ASSUME NEW v \in Thr, NEW i \in DOMAIN newfd_list'[v]
       PROVE  /\ i \in Int /\ Was(v, i) \in DOMAIN newfd_list[v]
              /\ newfd_list'[v][i] = newfd_list[v][Was(v, i)] /\ newfd_list'[v][i] # c
  <2>1. /\ i \in Int /\ Was(v, i) \in DOMAIN newfd_list[v]
        /\ newfd_list'[v][i] = newfd_list[v][Was(v, i)] /\ (v = t => Was(v, i) # 1)
    <3>1. CASE v = t
      BY <1>3, <1>6, <1>7, <3>1
    <3>2. CASE v # t
      BY <1>7, <3>2 DEF PlaceInv, PlaceTypes
    <3> QED BY <3>1, <3>2, Zenon
  <2>2. newfd_list[v][Was(v, i)] # c
    BY <1>8, <2>1 DEF PlaceInv, Once
  <2> QED BY <2>1, <2>2, Zenon
<1>11. ASSUME NEW v \in Thr, NEW j \in DOMAIN newfd_list[v], newfd_list[v][j] # c
       PROVE  \E i \in DOMAIN newfd_list'[v] : newfd_list'[v][i] = newfd_list[v][j]
  <2>1. CASE v = t
    <3>1. j - 1 \in DOMAIN l /\ l[j - 1] = newfd_list[t][j]
      BY <1>3, <1>6, <1>11, <2>1
    <3> QED BY <1>7, <2>1, <3>1, Zenon
  <2>2. CASE v # t
    BY <1>7, <2>2, Zenon
  <2> QED BY <2>1, <2>2, Zenon
<1>12. \/ /\ conn' = [conn EXCEPT ![c] = Serving] /\ fds' = fds \cup {c}
          /\ conn_list' = [conn_list EXCEPT ![t] = conn_list[t] \cup {c}]
       \/ conn' = conn /\ fds' = fds \ {c} /\ conn_list' = conn_list
  BY <1>4, <1>8, Setup, Zenon
<1>13. /\ conn' \in [Conn -> Phases] /\ conn_list' \in [Thr -> SUBSET Conn] /\ fds' \subseteq Conn
       /\ \A d \in Conn : d # c => conn'[d] = conn[d] /\ (d \in fds' <=> d \in fds)
       /\ \A v \in Thr : \A d \in conn_list'[v] : d \in conn_list[v] \/ (d = c /\ v = t /\ conn'[c] = Serving)
       /\ \A v \in Thr : conn_list[v] \subseteq conn_list'[v]
       /\ \/ conn'[c] = Serving /\ c \in fds' /\ c \in conn_list'[t]
          \/ conn'[c] \in Unused /\ c \notin fds'
  <2>1. CASE conn' = conn /\ fds' = fds \ {c} /\ conn_list' = conn_list
    BY <1>8, <2>1, Zenon DEF PlaceInv, PlaceTypes
  <2>2. CASE /\ conn' = [conn EXCEPT ![c] = Serving] /\ fds' = fds \cup {c}
             /\ conn_list' = [conn_list EXCEPT ![t] = conn_list[t] \cup {c}]
    <3>1. conn' \in [Conn -> Phases] /\ \A d \in Conn : conn'[d] = IF d = c THEN Serving ELSE conn[d]
      BY <1>8, <2>2, OpenFacts, Zenon DEF PlaceInv, PlaceTypes
    <3>2. \A v \in Thr : conn_list'[v] = IF v = t THEN conn_list[t] \cup {c} ELSE conn_list[v]
      BY <2>2, Zenon DEF PlaceInv, PlaceTypes
    <3>3. conn_list' \in [Thr -> SUBSET Conn] /\ fds' \subseteq Conn
      BY <1>8, <2>2, Zenon DEF PlaceInv, PlaceTypes
    <3> QED BY <1>8, <2>2, <3>1, <3>2, <3>3, Zenon
  <2> QED BY <1>12, <2>1, <2>2, Zenon
<1>14. \A v \in Thr : c \notin conn_list[v]
  BY <1>8, OpenFacts, Zenon DEF PlaceInv, Kept
<1>15. PlaceTypes'
  <2>1. newfd_list' \in [Thr -> Seq(Conn)]
    BY <1>1, <1>5, <1>6, Zenon DEF PlaceInv, PlaceTypes
  <2> QED BY <1>2, <1>13, <2>1, Zenon DEF PlaceInv, PlaceTypes
<1>16. Once'
  <2>1. \A v, w \in Thr : \A i \in DOMAIN newfd_list'[v], j \in DOMAIN newfd_list'[w] :
           newfd_list'[v][i] = newfd_list'[w][j] => v = w /\ i = j
    <3> SUFFICES ASSUME NEW v \in Thr, NEW w \in Thr, NEW i \in DOMAIN newfd_list'[v],
                        NEW j \in DOMAIN newfd_list'[w], newfd_list'[v][i] = newfd_list'[w][j]
                 PROVE  v = w /\ i = j
      BY Zenon
    <3>1. v = w /\ Was(v, i) = Was(w, j)
      BY <1>10 DEF PlaceInv, Once
    <3>2. i \in Int /\ j \in Int
      BY <1>10, Zenon
    <3> QED BY <3>1, <3>2
  <2>2. \A v, w \in Thr : \A d \in conn_list'[v] : d \in conn_list'[w] => v = w
    BY <1>13, <1>14 DEF PlaceInv, Once
  <2>3. \A v, w \in Thr : \A i \in DOMAIN newfd_list'[w] : hand[v] # <<newfd_list'[w][i]>>
    BY <1>10 DEF PlaceInv, Once
  <2>4. \A v, w \in Thr : hand[v] = hand[w] /\ hand[v] # <<>> => v = w
    BY Zenon DEF PlaceInv, Once
  <2> QED BY <1>2, <2>1, <2>2, <2>3, <2>4 DEF Once
<1>17. Kept'
  <2>1. \A v \in Thr : \A d \in Conn : hand'[v] = <<d>> => d \in fds' /\ conn'[d] \in Unused
    BY <1>2, <1>9, <1>13, Zenon DEF PlaceInv, Kept
  <2>2. ASSUME NEW v \in Thr, NEW i \in DOMAIN newfd_list'[v]
        PROVE  newfd_list'[v][i] \in fds' /\ conn'[newfd_list'[v][i]] \in Unused
    <3>1. newfd_list'[v][i] \in fds /\ conn[newfd_list'[v][i]] \in Unused /\ newfd_list'[v][i] \in Conn
      <4>1. newfd_list[v][Was(v, i)] \in fds /\ conn[newfd_list[v][Was(v, i)]] \in Unused
        BY <1>10, Zenon DEF PlaceInv, Kept
      <4>2. fds \subseteq Conn
        BY Zenon DEF PlaceInv, PlaceTypes
      <4> QED BY <1>10, <4>1, <4>2, Zenon
    <3> QED BY <1>10, <1>13, <3>1, Zenon
  <2>3. \A d \in backlog' : d \notin fds' /\ conn'[d] \in Unused
    <3>1. \A d \in backlog : d \in Conn /\ d \notin fds /\ conn[d] \in Unused
      BY Zenon DEF PlaceInv, PlaceTypes, Kept
    <3> QED BY <1>2, <1>8, <1>13, <3>1, Zenon
  <2>4. \A v \in Thr : \A d \in conn_list'[v] : conn'[d] \in Used
    BY <1>13, <1>14, OpenFacts DEF PlaceInv, PlaceTypes, Kept
  <2> QED BY <2>1, <2>2, <2>3, <2>4, Zenon DEF Kept
<1>18. Found'
  <2>1. \A d \in Conn : conn'[d].open => d \in fds'
    BY <1>13, OpenFacts, Zenon DEF PlaceInv, Found
  <2>2. \A d \in Conn : conn'[d] \in Used => \E v \in Thr : d \in conn_list'[v]
    BY <1>13, OpenFacts DEF PlaceInv, Found
  <2>3. ASSUME NEW d \in fds'
        PROVE  \/ conn'[d].open \/ \E v \in Thr : hand'[v] = <<d>>
               \/ \E v \in Thr : \E i \in DOMAIN newfd_list'[v] : newfd_list'[v][i] = d
    <3>1. CASE d = c
      BY <1>13, <3>1, OpenFacts, Zenon
    <3>2. CASE d # c
      <4>1. d \in fds /\ conn'[d] = conn[d]
        BY <1>13, <3>2, Zenon
      <4>2. \/ conn[d].open \/ \E v \in Thr : hand[v] = <<d>>
            \/ \E v \in Thr : \E i \in DOMAIN newfd_list[v] : newfd_list[v][i] = d
        BY <4>1, Zenon DEF PlaceInv, Found
      <4> QED BY <1>2, <1>11, <3>2, <4>1, <4>2
    <3> QED BY <3>1, <3>2, Zenon
  <2> QED BY <2>1, <2>2, <2>3, Zenon DEF Found
<1> QED BY <1>15, <1>16, <1>17, <1>18, Zenon DEF PlaceInv

\* A handler changes the phase of one connection, and its descriptor is open
\* as long as its comm is.
LEMMA HandlerPlace ==
  ASSUME PlaceInv, NEW t \in Thr, NEW c \in Conn,
         Written(t, c) \/ CommClosed(t, c) \/ Freeing(t, c)
  PROVE  PlaceInv'
<1>1. hand' = hand /\ pc' = pc /\ newfd_list' = newfd_list /\ backlog' = backlog
  BY Zenon DEF Written, CommClosed, Freeing, handVars
<1>2. c \in conn_list[t] /\ conn[c] \in Used /\ conn[c] \in Phases /\ conn[c] \notin Unused
  <2>1. c \in conn_list[t]
    BY Zenon DEF Written, CommClosed, Freeing, InLoop
  <2> QED BY <2>1, PhaseFacts, Zenon DEF PlaceInv, PlaceTypes, Kept
<1>3. PICK k \in Phases :
        /\ conn' = [conn EXCEPT ![c] = k]
        /\ \/ /\ k \in Used /\ conn_list' = conn_list
              /\ \/ conn[c].open /\ k.open /\ fds' = fds
                 \/ ~k.open /\ fds' = fds \ {c}
           \/ /\ k \in Unused /\ ~k.open /\ ~conn[c].open /\ fds' = fds
              /\ conn_list' = [conn_list EXCEPT ![t] = conn_list[t] \ {c}]
  <2>1. CASE Written(t, c)
    <3>1. conn[c] = Serving
      BY <1>2, <2>1, PhaseFacts, Zenon DEF Written
    <3>2. PICK a \in WriteAnswers(Serving) : conn' = [conn EXCEPT ![c] = thrsrv_conn_update_cb(a)]
      BY <2>1, <3>1, Zenon DEF Written
    <3>3. PICK k : k = thrsrv_conn_update_cb(a)
      BY Zenon
    <3>4. k \in {Serving} \cup {Ending(w) : w \in Words}
      BY <3>3, AnswerPhase, Zenon
    <3>5. k \in Used /\ k \in Phases
      BY <3>4, Zenon DEF Used, Phases
    <3>6. k.open /\ Serving.open
      BY <3>4, <3>5, PhaseFacts, OpenFacts, Zenon
    <3> QED BY <2>1, <3>1, <3>2, <3>3, <3>5, <3>6, Zenon DEF Written
  <2>2. CASE CommClosed(t, c)
    <3>1. PICK w \in Words : conn[c] = Ending(w)
      BY <1>2, <2>2, PhaseFacts, Zenon DEF CommClosed
    <3>2. conn' = [conn EXCEPT ![c] = Ended(w)]
      BY <2>2, <3>1, EndPhase, Zenon DEF CommClosed
    <3>3. Ended(w) \in Used /\ Ended(w) \in Phases /\ ~Ended(w).open
      BY Zenon DEF Used, Phases, Ended, Phase
    <3> QED BY <2>2, <3>2, <3>3, Zenon DEF CommClosed
  <2>3. CASE Freeing(t, c)
    <3>1. PICK w \in Words : conn[c] = Ended(w)
      BY <1>2, <2>3, PhaseFacts, Zenon DEF Freeing
    <3>2. conn' = [conn EXCEPT ![c] = Released(w)]
      BY <2>3, <3>1, EndPhase, Zenon DEF Freeing
    <3>3. Released(w) \in Unused /\ Released(w) \in Phases /\ ~Released(w).open /\ ~Ended(w).open
      BY Zenon DEF Unused, Phases, Released, Ended, Phase
    <3> QED BY <2>3, <3>1, <3>2, <3>3, Zenon DEF Freeing
  <2> QED BY <2>1, <2>2, <2>3, Zenon
<1>4. \A d \in Conn : conn'[d] = IF d = c THEN k ELSE conn[d]
  BY <1>3, Zenon DEF PlaceInv, PlaceTypes
<1>5. \A v \in Thr : hand[v] # <<c>> /\ \A i \in DOMAIN newfd_list[v] : newfd_list[v][i] # c
  BY <1>2, Zenon DEF PlaceInv, Kept
<1>6. c \notin backlog
  BY <1>2, Zenon DEF PlaceInv, Kept
<1>7. \A v \in Thr : conn_list'[v] = IF k \in Unused /\ v = t THEN conn_list[v] \ {c} ELSE conn_list[v]
  BY <1>3, OpenFacts, Zenon DEF PlaceInv, PlaceTypes
<1>8. \A d \in Conn : d # c => (d \in fds' <=> d \in fds)
  BY <1>3, Zenon
<1>9. fds' \subseteq fds /\ (k.open <=> c \in fds')
  <2>1. conn[c].open <=> c \in fds
    BY <1>2, <1>5, Zenon DEF PlaceInv, Found
  <2> QED BY <1>3, <2>1, Zenon
<1>10. \A d \in fds : d \in Conn
  BY Zenon DEF PlaceInv, PlaceTypes
<1>11. PlaceTypes'
  BY <1>1, <1>3, <1>9, Zenon DEF PlaceInv, PlaceTypes
<1>12. Once'
  <2>1. \A v, w \in Thr : \A d \in conn_list'[v] : d \in conn_list'[w] => v = w
    BY <1>7, Zenon DEF PlaceInv, Once
  <2>2. hand' = hand /\ newfd_list' = newfd_list
    BY <1>1, Zenon
  <2> QED BY <2>1, <2>2, SMTT(30) DEF PlaceInv, Once
<1>13. Kept'
  <2>1. \A v \in Thr : \A d \in Conn : hand'[v] = <<d>> => d \in fds' /\ conn'[d] \in Unused
    BY <1>1, <1>4, <1>5, <1>8, Zenon DEF PlaceInv, Kept
  <2>2. ASSUME NEW v \in Thr, NEW i \in DOMAIN newfd_list'[v]
        PROVE  newfd_list'[v][i] \in fds' /\ conn'[newfd_list'[v][i]] \in Unused
    <3>1. /\ newfd_list[v][i] \in fds /\ conn[newfd_list[v][i]] \in Unused
          /\ newfd_list[v][i] # c /\ newfd_list'[v][i] = newfd_list[v][i]
      BY <1>1, <1>5, Zenon DEF PlaceInv, Kept
    <3> QED BY <1>4, <1>8, <1>10, <3>1, Zenon
  <2>3. \A d \in backlog' : d \notin fds' /\ conn'[d] \in Unused
    <3>1. \A d \in backlog : d \in Conn /\ d # c /\ d \notin fds /\ conn[d] \in Unused
      BY <1>6, Zenon DEF PlaceInv, PlaceTypes, Kept
    <3> QED BY <1>1, <1>4, <1>9, <3>1, Zenon
  <2>4. \A v \in Thr : \A d \in conn_list'[v] : conn'[d] \in Used
    <3>1. \A v \in Thr : c \in conn_list[v] => v = t
      BY <1>2, Zenon DEF PlaceInv, Once
    <3>2. k \in Unused \/ k \in Used
      BY <1>3, Zenon
    <3>3. \A v \in Thr : \A d \in conn_list[v] : d \in Conn /\ conn[d] \in Used
      BY Zenon DEF PlaceInv, PlaceTypes, Kept
    <3> QED BY <1>4, <1>7, <3>1, <3>2, <3>3, Zenon
  <2> QED BY <2>1, <2>2, <2>3, <2>4, Zenon DEF Kept
<1>14. Found'
  <2>1. \A d \in Conn : conn'[d].open => d \in fds'
    BY <1>4, <1>8, <1>9, Zenon DEF PlaceInv, Found
  <2>2. \A d \in Conn : conn'[d] \in Used => \E v \in Thr : d \in conn_list'[v]
    <3>1. \A d \in Conn : conn[d] \in Used => \E v \in Thr : d \in conn_list[v]
      BY Zenon DEF PlaceInv, Found
    <3> QED BY <1>2, <1>4, <1>7, <3>1, OpenFacts, Zenon
  <2>3. ASSUME NEW d \in fds'
        PROVE  \/ conn'[d].open \/ \E v \in Thr : hand'[v] = <<d>>
               \/ \E v \in Thr : \E i \in DOMAIN newfd_list'[v] : newfd_list'[v][i] = d
    <3>1. d \in fds /\ d \in Conn
      BY <1>9, <1>10, Zenon
    <3>2. \/ conn[d].open \/ \E v \in Thr : hand[v] = <<d>>
          \/ \E v \in Thr : \E i \in DOMAIN newfd_list[v] : newfd_list[v][i] = d
      BY <3>1, Zenon DEF PlaceInv, Found
    <3>3. CASE d = c
      BY <1>4, <1>9, <3>1, <3>3, Zenon
    <3>4. CASE d # c
      BY <1>1, <1>4, <3>1, <3>2, <3>4, Zenon
    <3> QED BY <3>3, <3>4, Zenon
  <2> QED BY <2>1, <2>2, <2>3, Zenon DEF Found
<1> QED BY <1>11, <1>12, <1>13, <1>14, Zenon DEF PlaceInv

\* Every step keeps every descriptor in one place.
LEMMA PlaceNext == ASSUME PlaceInv, ThreadTypes, [Next]_vars PROVE PlaceInv'
<1>1. ASSUME NEW c \in Conn, Arrive(c) PROVE PlaceInv'
  BY <1>1, ArrivePlace, Zenon
<1>2. ASSUME NEW t \in Thr, thrsrv_acceptfd(t) \/ Insert(t) \/ Drain(t) PROVE PlaceInv'
  BY <1>2, AcceptPlace, InsertPlace, DrainPlace, Zenon
<1>3. ASSUME NEW t \in Thr, NEW c \in Conn, Written(t, c) \/ CommClosed(t, c) \/ Freeing(t, c)
      PROVE  PlaceInv'
  BY <1>3, HandlerPlace, Zenon
<1>4. ASSUME UNCHANGED <<hand, newfd_list, connVars>>,
             \A t \in Thr : pc[t] \in {"enqueue", "insert"} => pc'[t] \in {"enqueue", "insert"}
      PROVE  PlaceInv'
  <2>1. /\ hand' = hand /\ newfd_list' = newfd_list /\ conn_list' = conn_list
        /\ conn' = conn /\ fds' = fds /\ backlog' = backlog
    BY <1>4, Zenon DEF connVars
  <2>2. PlaceTypes'
    BY <1>4, <2>1, Zenon DEF PlaceInv, PlaceTypes
  <2>3. Once'
    BY <2>1 DEF PlaceInv, Once
  <2>4. Kept'
    BY <2>1, Zenon DEF PlaceInv, Kept
  <2>5. Found'
    BY <2>1, Zenon DEF PlaceInv, Found
  <2> QED BY <2>2, <2>3, <2>4, <2>5, Zenon DEF PlaceInv
<1>5. CASE main
  <2>1. pc[started] = "unborn"
    BY <1>5 DEF main, ThreadTypes, ListReady, Thr
  <2>2. PICK w \in {"starting", "failed"} : pc' = [pc EXCEPT ![started] = w]
    BY <1>5, Zenon DEF main
  <2>3. \A t \in Thr : pc[t] \in {"enqueue", "insert"} => pc'[t] \in {"enqueue", "insert"}
    BY <2>1, <2>2, Zenon DEF ThreadTypes
  <2> QED BY <1>4, <1>5, <2>3, Zenon DEF main, handVars
<1>6. ASSUME NEW t \in Thr,
             \/ thrsrv_new(t) \/ EnqueueLock(t) \/ InsertCrashes(t)
             \/ DeferredRuns(t) \/ DeferredLock(t) \/ Drained(t)
      PROVE  PlaceInv'
  <2>1. \A u \in Thr : pc[u] \in {"enqueue", "insert"} => pc'[u] \in {"enqueue", "insert"}
    BY <1>6, Zenon DEF thrsrv_new, EnqueueLock, InsertCrashes, DeferredRuns, DeferredLock, Drained,
                Goes, ThreadTypes
  <2>2. UNCHANGED <<hand, newfd_list, connVars>>
    BY <1>6, Zenon DEF thrsrv_new, EnqueueLock, InsertCrashes, DeferredRuns, DeferredLock, Drained, handVars
  <2> QED BY <1>4, <2>1, <2>2, Zenon
<1>7. CASE UNCHANGED vars
  BY <1>4, <1>7, Zenon DEF vars, handVars
<1> QED BY <1>1, <1>2, <1>3, <1>5, <1>6, <1>7, Zenon DEF Next, Inside

\* What hangs on PlaceInv alone is one place per descriptor.
LEMMA OnePlace == ASSUME PlaceInv PROVE FdInOnePlace
<1> SUFFICES ASSUME NEW c \in Conn
             PROVE  Cardinality(Places(c)) = IF c \in fds THEN 1 ELSE 0
  BY Zenon DEF FdInOnePlace
<1>1. \A t \in Thr : c \in Range(hand[t]) <=> hand[t] = <<c>>
  <2> SUFFICES ASSUME NEW t \in Thr PROVE c \in Range(hand[t]) <=> hand[t] = <<c>>
    BY Zenon
  <2>1. CASE hand[t] = <<>>
    BY <2>1 DEF Range
  <2>2. ASSUME NEW d \in Conn, hand[t] = <<d>> PROVE c \in Range(hand[t]) <=> hand[t] = <<c>>
    <3>1. Range(<<d>>) = {d}
      BY DEF Range
    <3> QED BY <2>2, <3>1
  <2> QED BY <2>1, <2>2, Zenon DEF PlaceInv, PlaceTypes
<1>2. \A p : p \in Places(c) <=>
         \/ \E t \in Thr : hand[t] = <<c>> /\ p = <<"hand", t, 0>>
         \/ \E t \in Thr : c \in conn_list[t] /\ conn[c].open /\ p = <<"conn", t, 0>>
         \/ \E t \in Thr : \E i \in DOMAIN newfd_list[t] : newfd_list[t][i] = c /\ p = <<"list", t, i>>
  BY <1>1 DEF Places
<1>3. CASE c \notin fds
  <2>1. Places(c) = {}
    BY <1>2, <1>3 DEF PlaceInv, Kept, Found
  <2> QED BY <1>3, <2>1, FS_EmptySet, Zenon
<1>4. CASE c \in fds
  <2>1. \E p : Places(c) = {p}
    <3>1. CASE conn[c].open
      <4>1. conn[c] \in Used /\ conn[c] \notin Unused
        BY <3>1, OpenFacts, PhaseFacts, Zenon DEF PlaceInv, PlaceTypes, Phases
      <4>2. PICK t \in Thr : c \in conn_list[t]
        BY <4>1, Zenon DEF PlaceInv, Found
      <4>3. \A u \in Thr : c \in conn_list[u] => u = t
        BY <4>2, Zenon DEF PlaceInv, Once
      <4>4. \A u \in Thr : hand[u] # <<c>> /\ \A i \in DOMAIN newfd_list[u] : newfd_list[u][i] # c
        BY <4>1, Zenon DEF PlaceInv, Kept
      <4>5. Places(c) = {<<"conn", t, 0>>}
        BY <1>2, <3>1, <4>2, <4>3, <4>4, Zenon
      <4> QED BY <4>5, Zenon
    <3>2. ASSUME NEW t \in Thr, hand[t] = <<c>> PROVE \E p : Places(c) = {p}
      <4>1. ~conn[c].open
        BY <3>2, OpenFacts, Zenon DEF PlaceInv, Kept
      <4>2. \A u \in Thr : hand[u] = <<c>> => u = t
        BY <3>2 DEF PlaceInv, Once
      <4>3. \A u \in Thr : \A i \in DOMAIN newfd_list[u] : newfd_list[u][i] # c
        BY <3>2 DEF PlaceInv, Once
      <4>4. Places(c) = {<<"hand", t, 0>>}
        BY <1>2, <3>2, <4>1, <4>2, <4>3, Zenon
      <4> QED BY <4>4, Zenon
    <3>3. ASSUME NEW t \in Thr, NEW i \in DOMAIN newfd_list[t], newfd_list[t][i] = c
          PROVE  \E p : Places(c) = {p}
      <4>1. ~conn[c].open
        BY <3>3, OpenFacts, Zenon DEF PlaceInv, Kept
      <4>2. \A u \in Thr : hand[u] # <<c>>
        BY <3>3 DEF PlaceInv, Once
      <4>3. \A u \in Thr : \A j \in DOMAIN newfd_list[u] : newfd_list[u][j] = c => u = t /\ j = i
        BY <3>3 DEF PlaceInv, Once
      <4>4. Places(c) = {<<"list", t, i>>}
        BY <1>2, <3>3, <4>1, <4>2, <4>3
      <4> QED BY <4>4, Zenon
    <3> QED BY <1>4, <3>1, <3>2, <3>3, Zenon DEF PlaceInv, Found
  <2> QED BY <1>4, <2>1, FS_Singleton, Zenon
<1> QED BY <1>3, <1>4, Zenon

\* The two invariants hold together.
LEMMA ServerInv == Spec => [](LockInv /\ PlaceInv)
<1>1. LockInv => ThreadTypes
  BY Zenon DEF LockInv
<1> QED BY <1>1, LockInit, LockNext, PlaceInit, PlaceNext, PTL DEF Spec

\* A descriptor that srv.c accepts is in exactly one place until it is closed,
\* for any number of threads and connections and whatever fails on its way.
THEOREM DescriptorsInOnePlace == Spec => []FdInOnePlace
BY ServerInv, OnePlace, PTL

\* A connection of srv.c uses its comm as comm.h asks, and is heard of again.
THEOREM ConnsUseCommsRight == Spec => []CommUsedRight
<1>1. PlaceInv => CommUsedRight
  BY DEF PlaceInv, PlaceTypes, CommUsedRight, CloseReady, Phases, Used, Unused, NoConn, Serving,
         Ending, Ended, Released, Phase
<1> QED BY <1>1, ServerInv, PTL

\* The owner of a connection of srv.c is told of it in order.
THEOREM OwnersToldInOrder == Spec => []ToldInOrder
<1>1. PlaceInv => ToldInOrder
  <2> SUFFICES ASSUME PlaceInv, NEW c \in Conn
               PROVE  conn[c].told \in {<<>>, <<"ERROR", "CLOSING">>, <<"CLOSING">>,
                         <<"ERROR", "CLOSING", "FREEING">>, <<"CLOSING", "FREEING">>}
    BY Zenon DEF ToldInOrder
  <2>1. conn[c].told \in {<<>>} \cup Words \cup {Append(w, "FREEING") : w \in Words}
    BY DEF PlaceInv, PlaceTypes, Phases, Used, Unused, NoConn, Serving, Ending, Ended,
           Released, Phase
  <2> QED BY <2>1, LastTold, Zenon DEF Words
<1> QED BY <1>1, ServerInv, PTL

\* What a step may do to a connection: nothing; make it, when it was never used
\* or is freed; close its comm, once, when the comm has answered the last
\* write; take the close callback; or free it when the comm is gone.
LifeStep(k, l) ==
    \/ l = k
    \/ k.state \in {"NONE", "FREED"} /\ l = conn_new
    \/ /\ k.state = "RUNNING" /\ k.write /\ ~k.closing
       /\ l.state = "CLOSING" /\ ~l.write /\ l.closing /\ l.open
    \/ k.state = "CLOSING" /\ CloseReady(k) /\ l = client_ev_close_cb(k)
    \/ k.state = "CLOSING" /\ k.cleanup /\ ~k.open /\ l = client_ev_cleanup_cb(k)

\* A connection in use changes only by its handlers, one at a time.
LEMMA HandlerStep ==
  ASSUME PlaceInv, NEW t \in Thr, NEW c \in Conn,
         Written(t, c) \/ CommClosed(t, c) \/ Freeing(t, c)
  PROVE  \A d \in Conn : LifeStep(conn[d], conn'[d])
<1>1. conn \in [Conn -> Phases] /\ conn[c] \in Phases
  BY Zenon DEF PlaceInv, PlaceTypes
<1>2. PICK k : conn' = [conn EXCEPT ![c] = k] /\ LifeStep(conn[c], k)
  <2>1. CASE Written(t, c)
    <3>1. conn[c] = Serving
      BY <1>1, <2>1, PhaseFacts, Zenon DEF Written
    <3>2. PICK a \in WriteAnswers(Serving) : conn' = [conn EXCEPT ![c] = thrsrv_conn_update_cb(a)]
      BY <2>1, <3>1, Zenon DEF Written
    <3>3. PICK k : k = thrsrv_conn_update_cb(a)
      BY Zenon
    <3>4. k \in {Serving} \cup {Ending(w) : w \in Words}
      BY <3>3, AnswerPhase, Zenon
    <3>5. /\ Serving.state = "RUNNING" /\ Serving.write /\ ~Serving.closing
          /\ \A w \in Words : /\ Ending(w).state = "CLOSING" /\ ~Ending(w).write
                              /\ Ending(w).closing /\ Ending(w).open
      BY Zenon DEF Serving, Ending, Phase
    <3>6. LifeStep(Serving, k)
      BY <3>4, <3>5, Zenon DEF LifeStep
    <3> QED BY <3>1, <3>2, <3>3, <3>6, Zenon
  <2>2. CASE CommClosed(t, c)
    <3>1. PICK w \in Words : conn[c] = Ending(w)
      BY <1>1, <2>2, PhaseFacts, Zenon DEF CommClosed
    <3>2. conn[c].state = "CLOSING"
      BY <3>1 DEF Ending, Phase
    <3>3. CloseReady(conn[c]) /\ conn' = [conn EXCEPT ![c] = client_ev_close_cb(conn[c])]
      BY <2>2, Zenon DEF CommClosed
    <3>4. PICK k : k = client_ev_close_cb(conn[c])
      BY Zenon
    <3>5. LifeStep(conn[c], k)
      BY <3>2, <3>3, <3>4, Zenon DEF LifeStep
    <3> QED BY <3>3, <3>4, <3>5, Zenon
  <2>3. CASE Freeing(t, c)
    <3>1. PICK w \in Words : conn[c] = Ended(w)
      BY <1>1, <2>3, PhaseFacts, Zenon DEF Freeing
    <3>2. conn[c].state = "CLOSING" /\ ~conn[c].open
      BY <3>1 DEF Ended, Phase
    <3>3. conn[c].cleanup /\ conn' = [conn EXCEPT ![c] = client_ev_cleanup_cb(conn[c])]
      BY <2>3, Zenon DEF Freeing
    <3>4. PICK k : k = client_ev_cleanup_cb(conn[c])
      BY Zenon
    <3>5. LifeStep(conn[c], k)
      BY <3>2, <3>3, <3>4, Zenon DEF LifeStep
    <3> QED BY <3>3, <3>4, <3>5, Zenon
  <2> QED BY <2>1, <2>2, <2>3, Zenon
<1>3. \A d \in Conn : conn'[d] = IF d = c THEN k ELSE conn[d]
  BY <1>1, <1>2, Zenon
<1>4. \A d \in Conn : LifeStep(conn[d], conn[d])
  BY Zenon DEF LifeStep
<1> QED BY <1>2, <1>3, <1>4, Zenon

\* A connection of srv.c lives in order, whatever its comm answers and whatever
\* the threads do meanwhile: its comm is closed once and with no write
\* outstanding (where comm.c would free ev_write while it is active, comm.c:311),
\* it is freed after the comm, and only then used again.
THEOREM ConnsLiveInOrder == Spec => [][\A c \in Conn : LifeStep(conn[c], conn'[c])]_vars
<1>1. ASSUME PlaceInv, [Next]_vars
      PROVE  \A c \in Conn : LifeStep(conn[c], conn'[c])
  <2>1. CASE UNCHANGED conn
    BY <2>1, Zenon DEF LifeStep
  <2>2. ASSUME NEW t \in Thr, NEW c \in Conn, conn[c] \in Unused, thrsrv_finish_setup(t, c)
        PROVE  \A d \in Conn : LifeStep(conn[d], conn'[d])
    <3>1. conn \in [Conn -> Phases] /\ conn[c].state \in {"NONE", "FREED"}
      BY <1>1, <2>2, PhaseFacts, Zenon DEF PlaceInv, PlaceTypes
    <3>2. conn' = conn \/ conn' = [conn EXCEPT ![c] = conn_new]
      BY <2>2, Zenon DEF thrsrv_finish_setup
    <3> QED BY <3>1, <3>2, Zenon DEF LifeStep
  <2>3. ASSUME NEW t \in Thr, thrsrv_acceptfd(t)
        PROVE  \A d \in Conn : LifeStep(conn[d], conn'[d])
    <3>1. PICK c \in backlog : thrsrv_finish_setup(t, c) \/ UNCHANGED conn
      BY <2>3, Zenon DEF thrsrv_acceptfd
    <3>2. c \in Conn /\ conn[c] \in Unused
      BY <1>1, Zenon DEF PlaceInv, PlaceTypes, Kept
    <3> QED BY <2>1, <2>2, <3>1, <3>2, Zenon
  <2>4. ASSUME NEW t \in Thr, Drain(t)
        PROVE  \A d \in Conn : LifeStep(conn[d], conn'[d])
    <3>1. newfd_list[t] \in Seq(Conn) /\ newfd_list[t] # <<>>
      BY <1>1, <2>4, Zenon DEF PlaceInv, PlaceTypes, Drain
    <3>2. 1 \in DOMAIN newfd_list[t] /\ Head(newfd_list[t]) = newfd_list[t][1]
      BY <3>1, EmptySeq, LenProperties, HeadTailProperties
    <3>3. Head(newfd_list[t]) \in Conn /\ conn[Head(newfd_list[t])] \in Unused
      BY <1>1, <3>1, <3>2, HeadTailProperties, Zenon DEF PlaceInv, Kept
    <3>4. thrsrv_finish_setup(t, Head(newfd_list[t]))
      BY <2>4, Zenon DEF Drain
    <3> QED BY <2>2, <3>3, <3>4, Zenon
  <2>5. ASSUME NEW t \in Thr, NEW c \in Conn, Written(t, c) \/ CommClosed(t, c) \/ Freeing(t, c)
        PROVE  \A d \in Conn : LifeStep(conn[d], conn'[d])
    BY <1>1, <2>5, HandlerStep, Zenon
  <2>6. ASSUME NEW t \in Thr,
               \/ thrsrv_new(t) \/ EnqueueLock(t) \/ Insert(t) \/ InsertCrashes(t)
               \/ DeferredRuns(t) \/ DeferredLock(t) \/ Drained(t)
        PROVE  UNCHANGED conn
    BY <2>6, Zenon DEF thrsrv_new, EnqueueLock, Insert, InsertCrashes, DeferredRuns, DeferredLock,
                       Drained, connVars
  <2>7. ASSUME main \/ (\E c \in Conn : Arrive(c)) \/ UNCHANGED vars PROVE UNCHANGED conn
    BY <2>7, Zenon DEF main, Arrive, vars, connVars
  <2> QED BY <1>1, <2>1, <2>3, <2>4, <2>5, <2>6, <2>7, Zenon DEF Next, Inside
<1> QED BY <1>1, ServerInv, PTL DEF Spec

-----------------------------------------------------------------------------
(* The deferred handler. *)

\* A thread that serves its list has its timer active, once, except while the
\* timer's handler runs, which adds it again; and nothing is on the list of a
\* thread that main has not come to.
Deferred ==
    \A t \in Thr : /\ armed[t] <=> pc[t] \in {"loop", "enqueue", "insert"}
                   /\ newfd_list[t] # <<>> => pc[t] # "unborn"

DeferInv ==
    /\ Deferred
    /\ armed \in [Thr -> BOOLEAN]
    /\ \A t \in Thr : ListReady(t) => pc[t] # "unborn"

\* A step of one thread that moves its own timer with its pc.
LEMMA DeferStep ==
  ASSUME DeferInv, ThreadTypes, NEW t \in Thr, NEW to \in Where \ {"unborn"}, NEW b \in BOOLEAN,
         pc' = [pc EXCEPT ![t] = to], armed' = [armed EXCEPT ![t] = b],
         b <=> to \in {"loop", "enqueue", "insert"},
         newfd_list' = newfd_list, started' = started
  PROVE  DeferInv'
<1>1. Deferred'
  BY Zenon DEF DeferInv, Deferred, ThreadTypes
<1> QED BY <1>1, Zenon DEF DeferInv, ThreadTypes, ListReady

\* What comes on a list, and what leaves it, changes no timer.
LEMMA DeferLists ==
  ASSUME DeferInv, ThreadTypes, PlaceTypes, NEW t \in Thr, Insert(t) \/ Drain(t)
  PROVE  DeferInv'
<1>1. CASE Insert(t)
  <2>1. PICK u \in Thr : ListReady(u) /\ \E s : newfd_list' = [newfd_list EXCEPT ![u] = s]
    BY <1>1, Zenon DEF Insert, ThreadTypes
  <2>2. pc[t] = "insert" /\ pc' = [pc EXCEPT ![t] = "loop"] /\ UNCHANGED <<armed, started>>
    BY <1>1, Zenon DEF Insert, Goes, thrVars
  <2> QED BY <2>1, <2>2, Zenon DEF DeferInv, Deferred, ThreadTypes, PlaceTypes, ListReady
<1>2. CASE Drain(t)
  <2>1. pc[t] = "drain" /\ pc' = pc /\ UNCHANGED <<armed, started>>
    BY <1>2, Zenon DEF Drain, Goes, thrVars, ThreadTypes
  <2>2. newfd_list[t] # <<>> /\ newfd_list' = [newfd_list EXCEPT ![t] = Tail(newfd_list[t])]
    BY <1>2, Zenon DEF Drain, PlaceTypes
  <2> QED BY <2>1, <2>2, Zenon DEF DeferInv, Deferred, PlaceTypes, ListReady
<1> QED BY <1>1, <1>2, Zenon

\* Every step keeps a timer with the place of its thread.
LEMMA DeferNext == ASSUME DeferInv, ThreadTypes, PlaceTypes, [Next]_vars PROVE DeferInv'
<1>1. CASE UNCHANGED <<started, pc, newfd_list, armed>>
  BY <1>1, Zenon DEF DeferInv, Deferred, ListReady
<1>2. CASE main
  <2>1. PICK w \in {"starting", "failed"} : pc' = [pc EXCEPT ![started] = w]
    BY <1>2, Zenon DEF main
  <2>2. started \in Thr /\ started' = started + 1 /\ UNCHANGED <<newfd_list, armed>>
    BY <1>2, Zenon DEF main, handVars
  <2>3. pc[started] = "unborn" /\ \A t \in Thr : t < started' => t < started \/ t = started
    BY <2>2 DEF ThreadTypes, ListReady, Thr
  <2> QED BY <2>1, <2>2, <2>3, Zenon DEF DeferInv, Deferred, ThreadTypes, ListReady
<1>3. ASSUME NEW t \in Thr,
             \/ thrsrv_new(t) \/ thrsrv_acceptfd(t) \/ DeferredRuns(t)
             \/ EnqueueLock(t) \/ DeferredLock(t) \/ Drained(t)
      PROVE  DeferInv'
  <2>1. UNCHANGED <<newfd_list, started>>
    BY <1>3, Zenon DEF thrsrv_new, thrsrv_acceptfd, DeferredRuns, EnqueueLock, DeferredLock, Drained,
       thrVars, handVars
  <2>2. armed = [armed EXCEPT ![t] = armed[t]] /\ armed[t] \in BOOLEAN
    BY Zenon DEF DeferInv
  <2>3. \E to \in Where \ {"unborn"}, b \in BOOLEAN :
           /\ pc' = [pc EXCEPT ![t] = to] /\ armed' = [armed EXCEPT ![t] = b]
           /\ b <=> to \in {"loop", "enqueue", "insert"}
    <3>1. CASE thrsrv_new(t) \/ Drained(t)
      BY <3>1, Zenon DEF thrsrv_new, Drained, Goes, Armed, Where
    <3>2. CASE thrsrv_acceptfd(t)
      BY <2>2, <3>2, Zenon DEF thrsrv_acceptfd, Goes, DeferInv, Deferred, Where
    <3>3. CASE DeferredRuns(t) \/ DeferredLock(t)
      BY <2>2, <3>3, Zenon DEF DeferredRuns, DeferredLock, Goes, DeferInv, Deferred, Where
    <3>4. CASE EnqueueLock(t)
      BY <2>2, <3>4, Zenon DEF EnqueueLock, Goes, DeferInv, Deferred, Where
    <3> QED BY <1>3, <3>1, <3>2, <3>3, <3>4, Zenon
  <2> QED BY <2>1, <2>3, DeferStep, Zenon
<1>4. ASSUME NEW t \in Thr, InsertCrashes(t) PROVE UNCHANGED <<started, pc, newfd_list, armed>>
  BY <1>4, Zenon DEF InsertCrashes, thrVars, handVars
<1>5. ASSUME NEW c \in Conn, Arrive(c) PROVE UNCHANGED <<started, pc, newfd_list, armed>>
  BY <1>5, Zenon DEF Arrive, thrVars, handVars
<1>6. ASSUME NEW t \in Thr, NEW c \in Conn, Written(t, c) \/ CommClosed(t, c) \/ Freeing(t, c)
      PROVE  UNCHANGED <<started, pc, newfd_list, armed>>
  BY <1>6, Zenon DEF Written, CommClosed, Freeing, thrVars, handVars
<1>7. CASE UNCHANGED vars
  BY <1>1, <1>7, Zenon DEF vars, thrVars, handVars
<1> QED BY <1>1, <1>2, <1>3, <1>4, <1>5, <1>6, <1>7, DeferLists, Zenon DEF Next, Inside

\* No descriptor handed to a thread of srv.c is forgotten: the thread's list is
\* emptied by a timer that thrsrv_run_deferred and thrsrv_new keep active, never
\* adding it twice, for any number of threads.  Adopted rests on it.
THEOREM DeferredKept == Spec => []Deferred
<1>1. Init => DeferInv
  <2> SUFFICES ASSUME Init PROVE DeferInv
    OBVIOUS
  <2>1. armed \in [Thr -> BOOLEAN]
    BY DEF Init
  <2>2. \A t \in Thr : ~ListReady(t)
    BY SrvAssumption DEF Init, ListReady, Thr
  <2>3. Deferred
    BY Zenon DEF Init, Deferred
  <2> QED BY <2>1, <2>2, <2>3, Zenon DEF DeferInv
<1>2. DeferInv => Deferred
  BY Zenon DEF DeferInv
<1>3. LockInv /\ PlaceInv => ThreadTypes /\ PlaceTypes
  BY Zenon DEF LockInv, PlaceInv
<1> QED BY <1>1, <1>2, <1>3, ServerInv, DeferNext, PTL DEF Spec

-----------------------------------------------------------------------------
(* Counting. *)

CountInv ==
    /\ num_clients \in [Thr -> Int]
    /\ \A t \in Thr : IsFiniteSet(conn_list[t]) /\ num_clients[t] = Cardinality(conn_list[t])

\* A thread counts the connection it adopts.
LEMMA CountSetup ==
  ASSUME CountInv, PlaceInv, NEW t \in Thr, NEW c \in Conn, thrsrv_finish_setup(t, c),
         conn[c] \in Unused
  PROVE  CountInv'
<1>1. c \notin conn_list[t]
  BY OpenFacts, Zenon DEF PlaceInv, Kept
<1>2. /\ IsFiniteSet(conn_list[t] \cup {c})
      /\ Cardinality(conn_list[t] \cup {c}) = Cardinality(conn_list[t]) + 1
  BY <1>1, FS_AddElement, Zenon DEF CountInv
<1>3. CASE /\ conn_list' = [conn_list EXCEPT ![t] = conn_list[t] \cup {c}]
           /\ num_clients' = [num_clients EXCEPT ![t] = num_clients[t] + 1]
  BY <1>2, <1>3 DEF CountInv, PlaceInv, PlaceTypes
<1>4. CASE conn_list' = conn_list /\ num_clients' = [num_clients EXCEPT ![t] = num_clients[t]]
  <2>1. num_clients' = num_clients
    BY <1>4, Zenon DEF CountInv
  <2> QED BY <1>4, <2>1, Zenon DEF CountInv
<1> QED BY <1>3, <1>4, Setup, Zenon

\* Every step keeps the count.
LEMMA CountNext == ASSUME CountInv, PlaceInv, [Next]_vars PROVE CountInv'
<1>1. CASE UNCHANGED <<conn_list, num_clients>>
  BY <1>1, Zenon DEF CountInv
<1>2. ASSUME NEW t \in Thr, thrsrv_acceptfd(t) PROVE CountInv'
  <2>1. PICK c \in backlog : thrsrv_finish_setup(t, c) \/ UNCHANGED <<conn_list, num_clients>>
    BY <1>2, Zenon DEF thrsrv_acceptfd
  <2> QED BY <1>1, <2>1, CountSetup, Zenon DEF PlaceInv, PlaceTypes, Kept
<1>3. ASSUME NEW t \in Thr, Drain(t) PROVE CountInv'
  <2> DEFINE c == Head(newfd_list[t])
  <2>1. newfd_list[t] \in Seq(Conn) /\ newfd_list[t] # <<>>
    BY <1>3, Zenon DEF Drain, PlaceInv, PlaceTypes
  <2>2. 1 \in DOMAIN newfd_list[t] /\ c = newfd_list[t][1] /\ c \in Conn
    BY <2>1
  <2>3. conn[c] \in Unused
    BY <2>2, Zenon DEF PlaceInv, Kept
  <2> QED BY <1>3, <2>2, <2>3, CountSetup, Zenon DEF Drain
<1>4. ASSUME NEW t \in Thr, NEW c \in Conn, Freeing(t, c) PROVE CountInv'
  <2>1. c \in conn_list[t]
    BY <1>4, Zenon DEF Freeing, InLoop
  <2>2. /\ IsFiniteSet(conn_list[t] \ {c})
        /\ Cardinality(conn_list[t] \ {c}) = Cardinality(conn_list[t]) - 1
    BY <2>1, FS_RemoveElement, Zenon DEF CountInv
  <2> QED BY <1>4, <2>2 DEF Freeing, CountInv, PlaceInv, PlaceTypes
<1>5. CASE main \/ UNCHANGED vars
  BY <1>1, <1>5, Zenon DEF main, connVars, vars
<1>6. ASSUME NEW c \in Conn, Arrive(c) PROVE CountInv'
  BY <1>1, <1>6, Zenon DEF Arrive
<1>7. ASSUME NEW t \in Thr, NEW c \in Conn, Written(t, c) \/ CommClosed(t, c) PROVE CountInv'
  BY <1>1, <1>7, Zenon DEF Written, CommClosed
<1>8. ASSUME NEW t \in Thr,
             \/ thrsrv_new(t) \/ EnqueueLock(t) \/ Insert(t) \/ InsertCrashes(t)
             \/ DeferredRuns(t) \/ DeferredLock(t) \/ Drained(t)
      PROVE  CountInv'
  BY <1>1, <1>8, Zenon DEF thrsrv_new, EnqueueLock, Insert, InsertCrashes, DeferredRuns, DeferredLock,
                    Drained, connVars
<1> QED BY <1>2, <1>3, <1>4, <1>5, <1>6, <1>7, <1>8, Zenon DEF Next, Inside

\* num_clients of a thread of srv.c is the number of its connections that are
\* not freed.
THEOREM ThreadsCountClients == Spec => []ClientsCounted
<1>1. Init => CountInv
  BY FS_EmptySet DEF Init, CountInv
<1>2. PlaceInv /\ CountInv => ClientsCounted
  <2> SUFFICES ASSUME PlaceInv, CountInv, NEW t \in Thr, NEW c \in conn_list[t]
               PROVE  conn[c].state \notin {"NONE", "FREED"}
    BY Zenon DEF ClientsCounted, CountInv
  <2>1. conn[c] \in Phases /\ conn[c] \in Used
    BY Zenon DEF PlaceInv, PlaceTypes, Kept
  <2> QED BY <2>1, PhaseFacts, Zenon
<1> QED BY <1>1, <1>2, ServerInv, CountNext, PTL DEF Spec

\* The phases of a connection are records of the fields of struct conn.
LEMMA PhasesAreRecords == Phases \subseteq ConnRecord
<1> DEFINE N == {"ERROR", "CLOSING", "FREEING"}
<1>1. <<>> \in Seq(N) /\ Words \subseteq Seq(N)
  BY DEF Words
<1>2. \A w \in Words : Append(w, "FREEING") \in Seq(N)
  BY <1>1
<1>3. NoConn \in ConnRecord /\ Serving \in ConnRecord
  BY <1>1, Zenon DEF NoConn, Serving, Phase, ConnRecord
<1>4. ASSUME NEW w \in Words
      PROVE  Ending(w) \in ConnRecord /\ Ended(w) \in ConnRecord /\ Released(w) \in ConnRecord
  <2>1. w \in Seq(N) /\ Append(w, "FREEING") \in Seq(N)
    BY <1>1, <1>2, Zenon
  <2> QED BY <2>1, Zenon DEF Ending, Ended, Released, Phase, ConnRecord
<1> QED BY <1>3, <1>4, Zenon DEF Phases, Used, Unused

\* Every variable of the server keeps its type.
THEOREM ServerTypes == Spec => []TypeOK
<1> DEFINE FlagTypes == affinity \in BOOLEAN /\ armed \in [Thr -> BOOLEAN]
<1>1. Init => FlagTypes /\ CountInv
  BY FS_EmptySet DEF Init, CountInv
<1>2. FlagTypes /\ [Next]_vars => FlagTypes'
  <2>1. [Next]_vars => /\ UNCHANGED affinity
                       /\ \/ UNCHANGED armed
                          \/ \E t \in Thr, b \in BOOLEAN : armed' = [armed EXCEPT ![t] = b]
    BY Zenon DEF Next, Inside, main, Arrive, thrsrv_acceptfd, thrsrv_new, EnqueueLock, Insert,
           InsertCrashes, DeferredRuns, DeferredLock, Drain, Drained, Written, CommClosed,
           Freeing, Armed, vars, thrVars
  <2> QED BY <2>1, Zenon
<1>3. LockInv /\ PlaceInv /\ CountInv /\ FlagTypes => TypeOK
  <2> SUFFICES ASSUME LockInv, PlaceInv, CountInv, FlagTypes PROVE TypeOK
    BY Zenon
  <2>1. num_clients \in [Thr -> Nat]
    BY FS_CardinalityType, Zenon DEF CountInv
  <2>2. hand \in [Thr -> Seq(Conn)]
    <3>1. <<>> \in Seq(Conn) /\ \A c \in Conn : <<c>> \in Seq(Conn)
      OBVIOUS
    <3>2. {<<>>} \cup {<<c>> : c \in Conn} \subseteq Seq(Conn)
      BY <3>1, Zenon
    <3> QED BY <3>2, Zenon DEF PlaceInv, PlaceTypes
  <2>3. conn \in [Conn -> ConnRecord]
    BY PhasesAreRecords, Zenon DEF PlaceInv, PlaceTypes
  <2>4. /\ newfd_list \in [Thr -> Seq(Conn)] /\ conn_list \in [Thr -> SUBSET Conn]
        /\ fds \subseteq Conn /\ backlog \subseteq Conn
    BY Zenon DEF PlaceInv, PlaceTypes
  <2> QED BY <2>1, <2>2, <2>3, <2>4, Zenon DEF TypeOK, LockInv, ThreadTypes, Where
<1> HIDE DEF FlagTypes
<1> QED BY <1>1, <1>2, <1>3, ServerInv, CountNext, PTL DEF Spec
=============================================================================
