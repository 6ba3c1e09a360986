-------------------------------- MODULE Thr ---------------------------------
(***************************************************************************)
(* A group of worker threads (thr.c) and the program that starts, stops    *)
(* and joins it (as src/thr/main.c does), above the debug log, to which    *)
(* every worker writes each time around its loop.  A worker's events are   *)
(* left out: fde_runloop returns after the timeout of a second.  No wakeup *)
(* ends it sooner: f_wakeup is never added to the kqueue.                  *)
(***************************************************************************)
EXTENDS Debug

CONSTANT NThreads

ASSUME ThrAssumption == NThreads \in Nat /\ Thread = 1..NThreads

VARIABLES
    phase,      \* what the main thread does
    i,          \* its loop counter
    active,     \* t->active
    at,         \* where a worker is
    overtaken   \* workers that were to flush a message when the file was closed

thrVars == <<phase, i, active, at>>
vars == <<debugVars, thrVars, overtaken>>

Init ==
    /\ DebugInit
    /\ phase = "setup" /\ i = 1
    /\ active = [t \in Thread |-> FALSE]
    /\ at = [t \in Thread |-> "none"]
    /\ overtaken = {}

-----------------------------------------------------------------------------
(* The main thread. *)

Alive == crashed = "no"
Main(from) == phase = from /\ Alive /\ ~locked

\* Workers are made, or not all of them, and those that are are destroyed
\* again: src/thr/main.c then goes on with NULL, and does not get far.
libiapp_thr_group_create ==
    /\ Main("setup")
    /\ \/ /\ phase' = "start"
          /\ active' = [t \in Thread |-> TRUE]
       \/ phase' = "failed" /\ UNCHANGED active
    /\ i' = 1
    /\ UNCHANGED <<debugVars, at, overtaken>>

\* Once around the loop: pthread_create succeeds, or fails and ends it.
libiapp_thr_group_start ==
    /\ Main("start")
    /\ \/ /\ i \in Thread
          /\ at' = [at EXCEPT ![i] = "created"]
          /\ i' = i + 1
          /\ UNCHANGED phase
       \/ phase' = "running" /\ UNCHANGED <<i, at>>
    /\ UNCHANGED <<debugVars, active, overtaken>>

\* The main thread may stop the workers before it joins them.
EnterLoop(from, loop) ==
    /\ Main(from)
    /\ phase' = loop /\ i' = 1
    /\ UNCHANGED <<debugVars, active, at, overtaken>>

\* The workers that are told, and a slip: not the last.
Told_short(t) == t < NThreads
Told(t) == t <= NThreads

libiapp_thr_group_stop ==
    /\ Main("stop")
    /\ IF Told(i)
       THEN /\ active' = [active EXCEPT ![i] = FALSE]
            /\ i' = i + 1
            /\ UNCHANGED phase
       ELSE phase' = "stopped" /\ UNCHANGED <<active, i>>
    /\ UNCHANGED <<debugVars, at, overtaken>>

\* The workers that are joined, and a slip: not the last.
Awaited_short(t) == t < NThreads
Awaited(t) == t <= NThreads

\* pthread_join returns: the thread has ended, or was never started and its
\* thr_id is zero.
Joinable(t) == at[t] \in {"none", "exited"}

libiapp_thr_group_join ==
    /\ Main("join")
    /\ IF Awaited(i)
       THEN Joinable(i) /\ i' = i + 1 /\ UNCHANGED phase
       ELSE phase' = "joined" /\ UNCHANGED i
    /\ UNCHANGED <<debugVars, active, at, overtaken>>

\* Calls of debug.h.  The main thread makes them between those of thr.h, and
\* has registered its sections and named its log file before it has workers.
Home == phase \in {"setup", "running", "stopped", "joined"} /\ Alive /\ ~locked

Configures ==
    /\ Home
    /\ \/ phase = "setup" /\ \E name \in Name : debug_register(name)
       \/ phase = "setup" /\ debug_set_filename
       \/ \E name \in Name, set \in Setting :
             \/ debug_setmask_str(name, set[1], set[2])
             \/ debug_setmask_str2(name, set[1], set[2])
    /\ UNCHANGED <<thrVars, overtaken>>

SwitchesFile ==
    /\ Alive
    /\ \/ /\ Home /\ \E again \in BOOLEAN : FileClose(again)
          /\ overtaken' = overtaken \cup {t \in Thread : call[t] \in {"flush", "fflush"}}
       \/ (FileNull \/ FileOpen) /\ UNCHANGED overtaken
    /\ UNCHANGED thrVars

ShutsDown ==
    /\ Main("joined")
    /\ debug_shutdown
    /\ phase' = "down"
    /\ UNCHANGED <<i, active, at, overtaken>>

-----------------------------------------------------------------------------
(* A worker: libiapp_thr_start. *)

Worker(t, from) == at[t] = from /\ call[t] = "none" /\ Alive

Goes(t, where) ==
    /\ at' = [at EXCEPT ![t] = where]
    /\ UNCHANGED <<phase, i, active, overtaken>>

Starts(t) == Worker(t, "created") /\ DEBUG(t) /\ Goes(t, "loop")

\* while (t->active == true)
Loops(t) == Worker(t, "loop") /\ active[t] /\ DEBUG(t) /\ Goes(t, "runloop")
Exits(t) == Worker(t, "loop") /\ ~active[t] /\ Goes(t, "exited") /\ UNCHANGED debugVars

\* fde_runloop returns.
RunloopReturns(t) == Worker(t, "runloop") /\ Goes(t, "loop") /\ UNCHANGED debugVars

Logs(t) ==
    /\ Alive /\ Logging(t)
    /\ overtaken' = IF call[t] = "fflush" THEN overtaken \ {t} ELSE overtaken
    /\ UNCHANGED thrVars

Runs(t) == Starts(t) \/ Loops(t) \/ Exits(t) \/ RunloopReturns(t) \/ Logs(t)

-----------------------------------------------------------------------------
Next == \/ libiapp_thr_group_create \/ libiapp_thr_group_start
        \/ libiapp_thr_group_stop \/ libiapp_thr_group_join
        \/ EnterLoop("running", "stop") \/ EnterLoop("running", "join")
        \/ EnterLoop("stopped", "join")
        \/ Configures \/ SwitchesFile \/ ShutsDown
        \/ \E t \in Thread : Runs(t)

Spec == Init /\ [][Next]_vars

\* The main thread goes on with a call it has made, and joins the workers it
\* has stopped.  The workers go on, and get debug_lock in the end because
\* the others sleep a second between two messages.
FairSpec ==
    /\ Spec
    /\ WF_vars(libiapp_thr_group_start \/ libiapp_thr_group_stop \/ libiapp_thr_group_join)
    /\ WF_vars(SwitchesFile /\ locked) /\ SF_vars(EnterLoop("stopped", "join"))
    /\ \A t \in Thread : SF_vars(Runs(t))

-----------------------------------------------------------------------------
(* Properties. *)

\* Every variable holds a value of the C type it models; in particular no
\* mask is stored beyond the table of sections.
TypeOK ==
    /\ DebugTypeOK
    /\ phase \in {"setup", "failed", "start", "running", "stop", "stopped", "join",
                  "joined", "down"}
    /\ i \in 1 .. NThreads + 1
    /\ active \in [Thread -> BOOLEAN]
    /\ at \in [Thread -> {"none", "created", "loop", "runloop", "exited"}]
    /\ overtaken \subseteq Thread

\* Workers write to no closed file and use no destroyed lock, whenever the
\* main thread opens, closes and reopens the log.  A worker flushes a closed
\* file only when it had written a message, and not flushed it, at the moment
\* the file was closed: do_debug reads debug_file, and flushes, unlocked.
LogSafe ==
    /\ crashed \in {"no", "flush"}
    /\ \A t \in Thread :
          call[t] = "fflush" /\ ptr[t] \notin open \cup {NULL} => t \in overtaken

\* Every message written to the log file is flushed, also when the file is
\* closed or replaced between the message and its flush.
LogFlushed == \A f \in File : f \in dirty ~> f \notin dirty \/ ~Alive

\* A group that has been stopped can be joined, although a worker learns of
\* the stop only when its loop turns, and also when not all of its threads
\* could be started.
GroupEnds == phase = "stopped" ~> phase = "joined" \/ ~Alive
=============================================================================
