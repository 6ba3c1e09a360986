----------------------------- MODULE CltProofs ------------------------------
(***************************************************************************)
(* Proofs about Clt, for any number of connections, any rate, any length   *)
(* of a second and any period shorter than it: the timers are exact, the   *)
(* connections are counted and live in order, and comms are closed only    *)
(* when they are idle.                                                     *)
(***************************************************************************)
EXTENDS Clt, FiniteSetTheorems, TLAPS

-----------------------------------------------------------------------------
(* Time. *)

\* Where a timer is, relative to the present second, and how long it has to
\* wait: what TimerExact says without products.  Only a timer of this second
\* can have tv_usec = Million, and then the second has begun.
Placed(t, l) ==
    /\ t = [sec |-> t.sec, usec |-> t.usec]
    /\ t.sec \in Int /\ t.sec >= -MaxLate - 1 /\ t.sec <= 1
    /\ t.usec \in 0..Million /\ l \in 0..Million
    /\ t.sec < 0 => l = 0
    /\ t.sec = 0 => /\ l = IF t.usec > usec THEN t.usec - usec ELSE 0
                    /\ t.usec - usec < Million
    /\ t.sec = 1 => l = Million + t.usec - usec /\ t.usec < Million

TimeInv ==
    /\ usec \in 0 .. Million - 1
    /\ timer \in [Timer -> [sec : Int, usec : Int]]
    /\ left \in [Timer -> Int]
    /\ \A e \in Timer : Placed(timer[e], left[e])

\* The timers thrclt_new arms are where they should be.
LEMMA TimeInit == Init => TimeInv
<1> SUFFICES ASSUME Init PROVE TimeInv
  OBVIOUS
<1> USE TimevalAssumption, CltAssumption
<1>1. usec \in 0 .. Million - 1
  BY DEF Init
<1>2. timer["ev_stats"] = Timeval(1, usec) /\ left["ev_stats"] = Million
  BY DEF Init, Timer
<1>3. timer["ev_newconn"] = Timeval(0, usec) /\ left["ev_newconn"] = 0
  BY DEF Init, Timer, Now
<1>4. timer \in [Timer -> [sec : Int, usec : Int]] /\ left \in [Timer -> Int]
  BY <1>1 DEF Init, Now, Timeval
<1>5. \A e \in Timer : Placed(timer[e], left[e])
  BY <1>1, <1>2, <1>3 DEF Timer, Placed, Timeval
<1> QED BY <1>1, <1>4, <1>5 DEF TimeInv

\* A microsecond passes, and perhaps a second with it.
LEMMA TickTime ==
  ASSUME TimeInv, Tick
  PROVE  TimeInv'
<1> USE TimevalAssumption, CltAssumption
<1>1. usec' = IF usec + 1 < Million THEN usec + 1 ELSE 0
  <2>1. usec + 1 \in 1..Million
    BY DEF TimeInv
  <2>2. CASE usec + 1 < Million
    BY <2>1, <2>2 DEF Tick
  <2>3. CASE usec + 1 = Million
    BY <2>1, <2>3 DEF Tick
  <2> QED BY <2>1, <2>2, <2>3
<1>2. ASSUME NEW e \in Timer
      PROVE  /\ Placed(timer[e], left[e])'
             /\ timer'[e] \in [sec : Int, usec : Int] /\ left'[e] \in Int
  <2>1. Placed(timer[e], left[e]) /\ timer[e].sec >= -MaxLate
    BY DEF TimeInv, Tick
  <2>2. left'[e] = IF left[e] > 0 THEN left[e] - 1 ELSE 0
    BY DEF Tick
  <2>3. CASE usec + 1 < Million
    <3>1. timer'[e] = timer[e] /\ usec' = usec + 1
      BY <2>3, <1>1 DEF Tick
    <3> QED BY <3>1, <2>1, <2>2, <2>3 DEF Placed, TimeInv
  <2>4. CASE ~(usec + 1 < Million)
    <3>1. timer'[e] = [sec |-> timer[e].sec - 1, usec |-> timer[e].usec] /\ usec' = 0
      BY <2>4, <1>1, <2>1 DEF Tick, Placed
    <3>2. usec = Million - 1
      BY <2>4 DEF TimeInv
    <3> QED BY <3>1, <3>2, <2>1, <2>2, <2>4 DEF Placed, TimeInv
  <2> QED BY <2>3, <2>4
<1>3. usec' \in 0 .. Million - 1
  BY <1>1 DEF TimeInv
<1>4. timer' = [e \in Timer |-> timer'[e]] /\ left' = [e \in Timer |-> left'[e]]
  BY DEF Tick, TimeInv
<1>5. timer' \in [Timer -> [sec : Int, usec : Int]] /\ left' \in [Timer -> Int]
  BY <1>2, <1>4
<1> QED BY <1>2, <1>3, <1>5 DEF TimeInv

\* A timer that is armed again is where it should be if the new time is.
LEMMA RearmTime ==
  ASSUME TimeInv, NEW e \in Timer, NEW t \in [sec : Int, usec : Int], NEW l \in Int,
         Rearm(e, t, l), Placed(t, l)
  PROVE  TimeInv'
<1>1. /\ timer' = [timer EXCEPT ![e] = t] /\ left' = [left EXCEPT ![e] = l]
      /\ usec' = usec
  BY DEF Rearm
<1>2. timer' \in [Timer -> [sec : Int, usec : Int]] /\ left' \in [Timer -> Int]
  BY <1>1 DEF TimeInv
<1>3. ASSUME NEW f \in Timer PROVE Placed(timer[f], left[f])'
  <2>1. CASE f = e
    BY <1>1, <2>1 DEF TimeInv, Placed
  <2>2. CASE f # e
    BY <1>1, <2>2 DEF TimeInv, Placed
  <2> QED BY <2>1, <2>2
<1> QED BY <1>1, <1>2, <1>3 DEF TimeInv

\* thrclt_stat_print arms its timer a second ahead.
LEMMA StatsTime ==
  ASSUME TimeInv, Rearm("ev_stats", Timeval(1, usec), Million)
  PROVE  TimeInv'
<1> USE TimevalAssumption, CltAssumption
<1>1. usec \in 0 .. Million - 1
  BY DEF TimeInv
<1>2. Placed(Timeval(1, usec), Million) /\ Timeval(1, usec) \in [sec : Int, usec : Int]
  BY <1>1 DEF Placed, Timeval
<1> QED BY <1>2, RearmTime DEF Timer

\* thrclt_ev_newconn_cb arms its timer a period ahead, carry or not.
LEMMA NewconnTime ==
  ASSUME TimeInv, Rearm("ev_newconn", NextTick, Delay)
  PROVE  TimeInv'
<1> USE TimevalAssumption, CltAssumption
<1>1. usec \in 0 .. Million - 1
  BY DEF TimeInv
<1>2. NextTick = IF usec + Delay > Million THEN Timeval(1, usec + Delay - Million)
                                           ELSE Timeval(0, usec + Delay)
  BY <1>1 DEF NextTick, Ahead, Now, Timeval
<1>3. Placed(NextTick, Delay) /\ NextTick \in [sec : Int, usec : Int]
  BY <1>1, <1>2 DEF Placed, Timeval
<1> QED BY <1>3, RearmTime DEF Timer

\* Every step keeps the timers where they should be.
LEMMA NextTime ==
  ASSUME TimeInv, [Next]_vars
  PROVE  TimeInv'
<1>1. CASE Tick
  BY <1>1, TickTime
<1>2. CASE \/ Rearm("ev_stats", Timeval(1, usec), Million)
           \/ Rearm("ev_newconn", NextTick, Delay)
  BY <1>2, StatsTime, NewconnTime
<1>3. CASE UNCHANGED timeVars
  BY <1>3 DEF TimeInv, timeVars, Placed
<1>4. \/ Tick \/ UNCHANGED timeVars
      \/ Rearm("ev_stats", Timeval(1, usec), Million)
      \/ Rearm("ev_newconn", NextTick, Delay)
  BY DEF Next, Step, vars, thrclt_stat_print, thrclt_ev_newconn_cb, SocketFails, Handler,
         conn_connect_cb, conn_read_cb, conn_close_cb, conn_ev_cleanup_cb, Answer
<1> QED BY <1>1, <1>2, <1>3, <1>4

\* A timer that is where it should be is compared and slept for exactly.
LEMMA PlacedExact == TimeInv => TimerExact
<1> SUFFICES ASSUME TimeInv, NEW e \in Timer
             PROVE  LET s == Sleep(Now, timer[e])
                    IN  /\ Due(e) <=> left[e] = 0
                        /\ Instant(s) = left[e]
                        /\ s.sec >= 0 /\ s.usec \in 0 .. Million - 1
  BY DEF TimerExact
<1> USE TimevalAssumption
<1> DEFINE t == timer[e]
<1>1. Placed(t, left[e]) /\ usec \in 0 .. Million - 1
  BY DEF TimeInv
<1>2. Now.sec = 0 /\ Now.usec = usec
  BY DEF Now, Timeval
<1>3. CASE t.sec < 0
  <2>1. timeval_cmp(Now, t) = 1
    BY <1>1, <1>2, <1>3 DEF timeval_cmp, Placed
  <2>2. Sleep(Now, t) = Timeval(0, 0)
    BY <2>1 DEF Sleep
  <2> QED BY <2>1, <2>2, <1>1, <1>3 DEF Due, Instant, Timeval, Placed
<1>4. CASE t.sec = 0 /\ t.usec <= usec
  <2>1. timeval_cmp(Now, t) \in {0, 1}
    BY <1>1, <1>2, <1>4 DEF timeval_cmp, Placed
  <2>2. Sleep(Now, t) = Timeval(0, 0)
    BY <2>1 DEF Sleep
  <2> QED BY <2>1, <2>2, <1>1, <1>4 DEF Due, Instant, Timeval, Placed
<1>5. CASE t.sec = 0 /\ t.usec > usec
  <2>1. timeval_cmp(Now, t) = -1
    BY <1>1, <1>2, <1>5 DEF timeval_cmp, Placed
  <2>2. Sleep(Now, t) = Timeval(0, t.usec - usec)
    BY <2>1, <1>1, <1>2, <1>5 DEF Sleep, Placed
  <2> QED BY <2>1, <2>2, <1>1, <1>5 DEF Due, Instant, Timeval, Placed
<1>6. CASE t.sec = 1
  <2>1. timeval_cmp(Now, t) = -1
    BY <1>1, <1>2, <1>6 DEF timeval_cmp, Placed
  <2>2. left[e] = Million + t.usec - usec /\ left[e] > 0 /\ t.usec \in 0 .. Million - 1
    BY <1>1, <1>6 DEF Placed
  <2>3. CASE usec > t.usec
    <3>1. Sleep(Now, t) = Timeval(0, t.usec + Million - usec)
      BY <2>1, <2>2, <2>3, <1>1, <1>2, <1>6 DEF Sleep
    <3> QED BY <3>1, <2>1, <2>2, <2>3, <1>1 DEF Due, Instant, Timeval
  <2>4. CASE ~(usec > t.usec)
    <3>1. Sleep(Now, t) = Timeval(1, t.usec - usec)
      BY <2>1, <2>2, <2>4, <1>1, <1>2, <1>6 DEF Sleep
    <3> QED BY <3>1, <2>1, <2>2, <2>4, <1>1 DEF Due, Instant, Timeval
  <2> QED BY <2>3, <2>4
<1> QED BY <1>1, <1>3, <1>4, <1>5, <1>6 DEF Placed

\* A timer of clt.c is due exactly when its time has come and is slept for
\* exactly, however long a second is and whenever the timer was armed, the
\* microsecond included at which the sum is a whole second.
THEOREM TimersAreExact == Spec => []TimerExact
<1>1. Init => TimeInv
  BY TimeInit
<1>2. TimeInv /\ [Next]_vars => TimeInv'
  BY NextTime
<1>3. TimeInv => TimerExact
  BY PlacedExact
<1> QED BY <1>1, <1>2, <1>3, PTL DEF Spec

-----------------------------------------------------------------------------
(* Connections.  One is in one of six phases, and the handlers take it from *)
(* each to the next: this is the inductive invariant.                       *)

Phase(state, comm, open, closing, out, cleanup) ==
    [state |-> state, comm |-> comm, open |-> open, closing |-> closing,
     out |-> out, cleanup |-> cleanup]

Opening  == Phase("CONNECTING", TRUE, TRUE, FALSE, "connect", FALSE)
Reading  == Phase("RUNNING", TRUE, TRUE, FALSE, "read", FALSE)
Ending   == Phase("CLOSING", FALSE, TRUE, TRUE, "none", FALSE)
Ended    == Phase("CLOSING", FALSE, FALSE, TRUE, "none", TRUE)
Released == Phase("FREED", FALSE, FALSE, TRUE, "none", FALSE)

Phases == {NoConn, Opening, Reading, Ending, Ended, Released}

LifeInv ==
    /\ conn \in [Conn -> Phases]
    /\ conn_list = {c \in Conn : conn[c] \in {Opening, Reading, Ending, Ended}}
    /\ num_clients = Cardinality(conn_list) /\ num_clients \in 0..nconns

\* What the handlers compute, phase by phase.
LEMMA Handlers ==
    /\ Connecting = Opening
    /\ Connected([Opening EXCEPT !.out = "none"]) = Reading
    /\ OnError([[Opening EXCEPT !.out = "none"] EXCEPT !.state = "ERROR"]) = Ending
    /\ conn_close([Reading EXCEPT !.out = "none"]) = Ending
    /\ [Ending EXCEPT !.open = FALSE, !.cleanup = TRUE] = Ended
    /\ [Ended EXCEPT !.cleanup = FALSE, !.state = "FREED"] = Released
<1>1. Connecting = Opening
  <2>1. PICK k : k = Connecting
    OBVIOUS
  <2>2. k = Opening
    BY <2>1 DEF Connecting, conn_new, NoConn, Opening, Phase
  <2> QED BY <2>1, <2>2
<1>2. Connected([Opening EXCEPT !.out = "none"]) = Reading
  <2>1. PICK k : k = Connected([Opening EXCEPT !.out = "none"])
    OBVIOUS
  <2>2. k = Reading
    BY <2>1 DEF Connected, Opening, Reading, Phase
  <2> QED BY <2>1, <2>2
<1>3. OnError([[Opening EXCEPT !.out = "none"] EXCEPT !.state = "ERROR"]) = Ending
  BY DEF OnError, conn_close, Opening, Ending, Phase
<1>4. conn_close([Reading EXCEPT !.out = "none"]) = Ending
  BY DEF conn_close, Reading, Ending, Phase
<1>5. [Ending EXCEPT !.open = FALSE, !.cleanup = TRUE] = Ended
  <2>1. PICK k : k = [Ending EXCEPT !.open = FALSE, !.cleanup = TRUE]
    OBVIOUS
  <2>2. k = Ended
    BY <2>1 DEF Ending, Ended, Phase
  <2> QED BY <2>1, <2>2
<1>6. [Ended EXCEPT !.cleanup = FALSE, !.state = "FREED"] = Released
  <2>1. PICK k : k = [Ended EXCEPT !.cleanup = FALSE, !.state = "FREED"]
    OBVIOUS
  <2>2. k = Released
    BY <2>1 DEF Ended, Released, Phase
  <2> QED BY <2>1, <2>2
<1> QED BY <1>1, <1>2, <1>3, <1>4, <1>5, <1>6

\* The phases a handler can find, and the ones in which nothing is used.
LEMMA PhaseFacts ==
  ASSUME NEW k \in Phases
  PROVE  /\ k.out = "connect" => k = Opening
         /\ k.out = "read" => k = Reading
         /\ k.closing /\ k.open => k = Ending
         /\ k.cleanup => k = Ended
         /\ k.state \in {"NONE", "FREED"} <=> k \notin {Opening, Reading, Ending, Ended}
BY DEF Phases, NoConn, Opening, Reading, Ending, Ended, Released, Phase

\* The connections in use are never more than there are.
LEMMA ListFinite == ASSUME LifeInv PROVE IsFiniteSet(conn_list)
BY CltAssumption, FS_Subset DEF LifeInv

\* A handler takes one connection from a phase to the next and counts nothing.
LEMMA AnswerLife ==
  ASSUME LifeInv, NEW c \in Conn, NEW k \in {Reading, Ending, Ended},
         conn[c] \in {Opening, Reading, Ending}, Answer(c, k)
  PROVE  LifeInv'
<1>1. conn' = [conn EXCEPT ![c] = k] /\ conn_list' = conn_list /\ num_clients' = num_clients
  BY DEF Answer
<1>2. conn' \in [Conn -> Phases]
  BY <1>1 DEF LifeInv, Phases
<1>3. conn_list' = {d \in Conn : conn'[d] \in {Opening, Reading, Ending, Ended}}
  BY <1>1 DEF LifeInv
<1> QED BY <1>1, <1>2, <1>3 DEF LifeInv

\* The handlers that answer.
LEMMA HandlerLife ==
  ASSUME LifeInv, NEW c \in Conn, conn_connect_cb(c) \/ conn_read_cb(c) \/ conn_close_cb(c)
  PROVE  LifeInv'
<1>1. conn[c] \in Phases
  BY DEF LifeInv
<1>2. CASE conn_connect_cb(c)
  <2>1. conn[c] = Opening
    BY <1>1, <1>2, PhaseFacts DEF conn_connect_cb
  <2>2. Answer(c, Reading) \/ Answer(c, Ending)
    BY <1>2, <2>1, Handlers DEF conn_connect_cb
  <2> QED BY <2>1, <2>2, AnswerLife
<1>3. CASE conn_read_cb(c)
  <2>1. conn[c] = Reading
    BY <1>1, <1>3, PhaseFacts DEF conn_read_cb
  <2>2. Answer(c, Reading) \/ Answer(c, Ending)
    BY <1>3, <2>1, Handlers DEF conn_read_cb
  <2> QED BY <2>1, <2>2, AnswerLife
<1>4. CASE conn_close_cb(c)
  <2>1. conn[c] = Ending
    BY <1>1, <1>4, PhaseFacts DEF conn_close_cb
  <2>2. Answer(c, Ended)
    BY <1>4, <2>1, Handlers DEF conn_close_cb
  <2> QED BY <2>1, <2>2, AnswerLife
<1> QED BY <1>2, <1>3, <1>4

\* A connection that is freed was counted, so that the count does not pass 0.
LEMMA CleanupLife ==
  ASSUME LifeInv, NEW c \in Conn, conn_ev_cleanup_cb(c)
  PROVE  LifeInv'
<1> USE CltAssumption
<1>1. conn[c] = Ended
  BY PhaseFacts DEF LifeInv, conn_ev_cleanup_cb
<1>2. conn' = [conn EXCEPT ![c] = Released]
  BY <1>1, Handlers DEF conn_ev_cleanup_cb
<1>3. conn' \in [Conn -> Phases]
  BY <1>2 DEF LifeInv, Phases
<1>4. Released \notin {Opening, Reading, Ending, Ended}
  BY DEF Released, Opening, Reading, Ending, Ended, Phase
<1>5. conn_list' = conn_list \ {c} /\ num_clients' = Uncounted
  BY DEF conn_ev_cleanup_cb
<1>6. conn_list' = {d \in Conn : conn'[d] \in {Opening, Reading, Ending, Ended}}
  BY <1>2, <1>4, <1>5 DEF LifeInv
<1>7. c \in conn_list
  BY <1>1 DEF LifeInv
<1>8. Cardinality(conn_list \ {c}) = Cardinality(conn_list) - 1 /\ Cardinality(conn_list) # 0
  BY <1>7, ListFinite, FS_RemoveElement, FS_EmptySet
<1>9. num_clients' = Cardinality(conn_list') /\ num_clients' \in 0..nconns
  BY <1>5, <1>8 DEF LifeInv, Uncounted
<1> QED BY <1>3, <1>6, <1>9 DEF LifeInv

\* The connections that are opened were not in use, and there is room for them.
LEMMA OpenLife ==
  ASSUME LifeInv, NEW new \in SUBSET Unused, thrclt_ev_newconn_cb(new)
  PROVE  LifeInv'
<1> USE CltAssumption
<1>1. conn' = [c \in Conn |-> IF c \in new THEN Opening ELSE conn[c]]
  BY Handlers DEF thrclt_ev_newconn_cb
<1>2. conn' \in [Conn -> Phases]
  BY <1>1 DEF LifeInv, Phases
<1>3. new \subseteq Conn /\ new \cap conn_list = {}
  BY PhaseFacts DEF Unused, LifeInv
<1>4. conn_list' = conn_list \cup new
  BY DEF thrclt_ev_newconn_cb
<1>5. conn_list' = {d \in Conn : conn'[d] \in {Opening, Reading, Ending, Ended}}
  BY <1>1, <1>3, <1>4 DEF LifeInv
<1>6. IsFiniteSet(new)
  BY <1>3, FS_Subset
<1>7. Cardinality(new) \in Nat
  BY <1>6, FS_CardinalityType
<1>8. Cardinality(conn_list \cup new) = Cardinality(conn_list) + Cardinality(new)
  <2>1. /\ Cardinality(conn_list \cup new)
              = Cardinality(conn_list) + Cardinality(new) - Cardinality(conn_list \cap new)
    BY <1>6, ListFinite, FS_Union
  <2>2. Cardinality(conn_list \cap new) = 0
    BY <1>3, FS_EmptySet
  <2>3. Cardinality(conn_list) \in Nat
    BY ListFinite, FS_CardinalityType
  <2> QED BY <2>1, <2>2, <2>3, <1>7
<1>9. num_clients' = num_clients + Cardinality(new) /\ Cardinality(new) <= nconns - num_clients
  BY <1>7 DEF thrclt_ev_newconn_cb, Room, LifeInv
<1>10. num_clients' = Cardinality(conn_list') /\ num_clients' \in 0..nconns
  BY <1>4, <1>7, <1>8, <1>9 DEF LifeInv
<1> QED BY <1>2, <1>5, <1>10 DEF LifeInv

\* No connection is in use when thrclt_new enters its loop.
LEMMA LifeInit == Init => LifeInv
<1> SUFFICES ASSUME Init PROVE LifeInv
  OBVIOUS
<1>1. conn \in [Conn -> Phases] /\ \A c \in Conn : conn[c] = NoConn
  BY DEF Init, Phases
<1>2. NoConn \notin {Opening, Reading, Ending, Ended}
  BY DEF NoConn, Opening, Reading, Ending, Ended, Phase
<1>3. conn_list = {} /\ num_clients = 0
  BY DEF Init
<1>4. conn_list = {c \in Conn : conn[c] \in {Opening, Reading, Ending, Ended}}
  BY <1>1, <1>2, <1>3
<1>5. num_clients = Cardinality(conn_list) /\ num_clients \in 0..nconns
  BY <1>3, FS_EmptySet, CltAssumption
<1> QED BY <1>1, <1>4, <1>5 DEF LifeInv

\* Every step keeps connections in their phases and counted.
LEMMA NextLife ==
  ASSUME LifeInv, [Next]_vars
  PROVE  LifeInv'
<1>1. CASE UNCHANGED connVars
  BY <1>1 DEF connVars, LifeInv
<1>2. ASSUME NEW c \in Conn, conn_connect_cb(c) \/ conn_read_cb(c) \/ conn_close_cb(c)
      PROVE  LifeInv'
  BY <1>2, HandlerLife
<1>3. ASSUME NEW c \in Conn, conn_ev_cleanup_cb(c)
      PROVE  LifeInv'
  BY <1>3, CleanupLife
<1>4. ASSUME NEW new \in SUBSET Unused, thrclt_ev_newconn_cb(new)
      PROVE  LifeInv'
  BY <1>4, OpenLife
<1>5. \/ UNCHANGED connVars
      \/ \E new \in SUBSET Unused : thrclt_ev_newconn_cb(new)
      \/ \E c \in Conn : \/ conn_connect_cb(c) \/ conn_read_cb(c) \/ conn_close_cb(c)
                         \/ conn_ev_cleanup_cb(c)
  BY DEF Next, Step, vars, Tick, thrclt_stat_print, SocketFails, Handler
<1> QED BY <1>1, <1>2, <1>3, <1>4, <1>5

\* num_clients of clt.c is the number of connections that are not freed and
\* never more than nconns, for any nconns, rate and number of connections.
THEOREM ClientsAreCounted == Spec => []ClientsCounted
<1>1. LifeInv => ClientsCounted
  <2> SUFFICES ASSUME LifeInv PROVE ClientsCounted
    OBVIOUS
  <2>1. conn_list = Conn \ Unused
    BY PhaseFacts DEF LifeInv, Unused
  <2>2. num_clients <= nconns
    BY CltAssumption DEF LifeInv
  <2> QED BY <2>1, <2>2 DEF LifeInv, ClientsCounted
<1> QED BY <1>1, LifeInit, NextLife, PTL DEF Spec

\* clt.c closes a comm only when nothing is outstanding on it, and has one
\* while it connects or reads.
THEOREM CommsAreUsedRight == Spec => []CommUsedRight
<1>1. LifeInv => CommUsedRight
  BY DEF LifeInv, CommUsedRight, Phases, NoConn, Opening, Reading, Ending, Ended, Released, Phase
<1> QED BY <1>1, LifeInit, NextLife, PTL DEF Spec

\* What a step may do to a connection: nothing; open it, when it was never used
\* or is freed; start reading when the connect is answered; close its comm,
\* once, when the last operation is answered; take the close callback; or free
\* it when the comm is gone.
LifeStep(k, l) ==
    \/ l = k
    \/ k.state \in {"NONE", "FREED"} /\ l = Connecting
    \/ k.out = "connect" /\ l.state = "RUNNING" /\ l.out = "read" /\ ~l.closing
    \/ /\ k.out \in {"connect", "read"} /\ ~k.closing
       /\ l.state = "CLOSING" /\ l.out = "none" /\ l.closing /\ l.open
    \/ k.closing /\ k.open /\ k.out = "none" /\ l.state = "CLOSING" /\ ~l.open /\ l.cleanup
    \/ k.state = "CLOSING" /\ k.cleanup /\ ~k.open /\ l.state = "FREED" /\ ~l.cleanup

\* A connection of clt.c lives in order, whatever its comm answers: it reads
\* only when it is connected, its comm is closed once and never with a connect
\* or read outstanding (where comm.c would not clean it up, comm.c:512), it is
\* freed after the comm, and only then opened again.
THEOREM ConnsLiveInOrder == Spec => [][\A c \in Conn : LifeStep(conn[c], conn'[c])]_vars
<1>1. ASSUME LifeInv, [Next]_vars
      PROVE  \A c \in Conn : LifeStep(conn[c], conn'[c])
  <2>a. conn \in [Conn -> Phases]
    BY <1>1, Zenon DEF LifeInv
  <2>b. /\ LifeStep(Opening, Reading) /\ LifeStep(Opening, Ending) /\ LifeStep(Reading, Reading)
        /\ LifeStep(Reading, Ending) /\ LifeStep(Ending, Ended) /\ LifeStep(Ended, Released)
    BY Zenon DEF LifeStep, Opening, Reading, Ending, Ended, Released, Phase
  <2>1. CASE UNCHANGED connVars
    BY <2>1, Zenon DEF connVars, LifeStep
  <2>2. ASSUME NEW new \in SUBSET Unused, thrclt_ev_newconn_cb(new), NEW c \in Conn
        PROVE  LifeStep(conn[c], conn'[c])
    <3>1. conn'[c] = IF c \in new THEN Connecting ELSE conn[c]
      BY <2>2, Zenon DEF thrclt_ev_newconn_cb
    <3>2. c \in new => conn[c].state \in {"NONE", "FREED"}
      BY Zenon DEF Unused
    <3> QED BY <3>1, <3>2, Zenon DEF LifeStep
  <2>3. ASSUME NEW c \in Conn,
               \/ conn_connect_cb(c) \/ conn_read_cb(c) \/ conn_close_cb(c) \/ conn_ev_cleanup_cb(c)
        PROVE  \A d \in Conn : LifeStep(conn[d], conn'[d])
    <3>0. conn[c] \in Phases
      BY <2>a, Zenon
    <3>1. PICK k : conn' = [conn EXCEPT ![c] = k] /\ LifeStep(conn[c], k)
      <4>1. CASE conn_connect_cb(c)
        <5>1. conn[c] = Opening
          BY <3>0, <4>1, PhaseFacts, Zenon DEF conn_connect_cb
        <5>2. Answer(c, Reading) \/ Answer(c, Ending)
          BY <4>1, <5>1, Handlers DEF conn_connect_cb
        <5> QED BY <2>b, <5>1, <5>2, Zenon DEF Answer
      <4>2. CASE conn_read_cb(c)
        <5>1. conn[c] = Reading
          BY <3>0, <4>2, PhaseFacts, Zenon DEF conn_read_cb
        <5>2. Answer(c, Reading) \/ Answer(c, Ending)
          BY <4>2, <5>1, Handlers DEF conn_read_cb
        <5> QED BY <2>b, <5>1, <5>2, Zenon DEF Answer
      <4>3. CASE conn_close_cb(c)
        <5>1. conn[c] = Ending
          BY <3>0, <4>3, PhaseFacts, Zenon DEF conn_close_cb
        <5>2. Answer(c, Ended)
          BY <4>3, <5>1, Handlers DEF conn_close_cb
        <5> QED BY <2>b, <5>1, <5>2, Zenon DEF Answer
      <4>4. CASE conn_ev_cleanup_cb(c)
        <5>1. conn[c] = Ended
          BY <3>0, <4>4, PhaseFacts, Zenon DEF conn_ev_cleanup_cb
        <5>2. conn' = [conn EXCEPT ![c] = Released]
          BY <4>4, <5>1, Handlers DEF conn_ev_cleanup_cb
        <5> QED BY <2>b, <5>1, <5>2, Zenon
      <4> QED BY <2>3, <4>1, <4>2, <4>3, <4>4, Zenon
    <3>2. \A d \in Conn : conn'[d] = IF d = c THEN k ELSE conn[d]
      BY <2>a, <3>1, Zenon
    <3>3. \A d \in Conn : LifeStep(conn[d], conn[d])
      BY Zenon DEF LifeStep
    <3> QED BY <3>1, <3>2, <3>3, Zenon
  <2>4. \/ UNCHANGED connVars
        \/ \E new \in SUBSET Unused : thrclt_ev_newconn_cb(new)
        \/ \E c \in Conn : \/ conn_connect_cb(c) \/ conn_read_cb(c) \/ conn_close_cb(c)
                           \/ conn_ev_cleanup_cb(c)
    BY <1>1 DEF Next, Step, vars, Tick, thrclt_stat_print, SocketFails, Handler
  <2> QED BY <2>1, <2>2, <2>3, <2>4, Zenon
<1> QED BY <1>1, LifeInit, NextLife, PTL DEF Spec

\* Every variable of Clt keeps its type: tv_usec may be a whole second, but
\* no timer is more than a second ahead.
THEOREM TypeCorrect == Spec => []TypeOK
<1> DEFINE Flag == crashed \in BOOLEAN
<1>1. Init => Flag
  BY DEF Init
<1>2. Flag /\ [Next]_vars => Flag'
  BY DEF Next, Step, SocketFails, vars
<1>3. TimeInv /\ LifeInv /\ Flag => TypeOK
  <2> SUFFICES ASSUME TimeInv, LifeInv, Flag PROVE TypeOK
    OBVIOUS
  <2>1. /\ usec \in 0 .. Million - 1 /\ left \in [Timer -> 0..Million]
        /\ timer \in [Timer -> [sec : -MaxLate - 1 .. 1, usec : 0..Million]]
    <3>1. ASSUME NEW e \in Timer
          PROVE  left[e] \in 0..Million /\ timer[e] \in [sec : -MaxLate - 1 .. 1, usec : 0..Million]
      BY CltAssumption, TimevalAssumption DEF TimeInv, Placed
    <3> QED BY <3>1 DEF TimeInv
  <2>2. Phases \subseteq [state : {"NONE", "CONNECTING", "RUNNING", "ERROR", "CLOSING", "FREED"},
                          comm : BOOLEAN, open : BOOLEAN, closing : BOOLEAN,
                          out : {"none", "connect", "read"}, cleanup : BOOLEAN]
    BY DEF Phases, NoConn, Opening, Reading, Ending, Ended, Released, Phase
  <2>3. conn_list \subseteq Conn /\ num_clients \in 0..nconns /\ conn \in [Conn -> Phases]
    BY DEF LifeInv
  <2> QED BY <2>1, <2>2, <2>3 DEF TypeOK
<1> QED BY <1>1, <1>2, <1>3, TimeInit, NextTime, LifeInit, NextLife, PTL DEF Spec
=============================================================================
