----------------------------- MODULE ThrProofs ------------------------------
(***************************************************************************)
(* Proofs about Thr and the debug log below it, for any number of threads, *)
(* files, names and sections: no mask is stored beyond the table, and no   *)
(* thread uses a closed file or a destroyed lock, unless it was about to   *)
(* flush the file at the moment it was closed.  No message stays           *)
(* unflushed.                                                              *)
(***************************************************************************)
EXTENDS Thr, SequenceTheorems, WellFoundedInduction, TLAPS

-----------------------------------------------------------------------------
(* The table of sections. *)

Less == {p \in Nat \X Nat : p[1] < p[2]}

\* A set of numbers that is not empty has a least one.
LEMMA LeastNumber ==
  ASSUME NEW T, T \subseteq Nat, T # {}
  PROVE  \E x \in T : \A y \in T : x <= y
<1>1. IsWellFoundedOn(Less, Nat)
  BY NatLessThanWellFounded DEF Less, OpToRel
<1>2. PICK x \in T : \A y \in T : ~ (<<y, x>> \in Less)
  BY <1>1, WFMin
<1>3. ASSUME NEW y \in T PROVE x <= y
  <2>1. x \in Nat /\ y \in Nat /\ <<y, x>> \notin Less
    BY <1>2
  <2>2. ~(y < x)
    BY <2>1 DEF Less
  <2> QED BY <2>1, <2>2
<1> QED BY <1>3

\* A section is found in the table, or is the one after the last.
LEMMA SectionFound ==
  ASSUME DebugTypeOK, NEW name
  PROVE  Section(name) \in 1 .. Len(sections) + 1
<1> DEFINE named == {n \in DOMAIN sections : sections[n] = name}
<1>1. DOMAIN sections = 1..Len(sections) /\ Len(sections) \in Nat
  BY DEF DebugTypeOK
<1>2. CASE named = {}
  BY <1>1, <1>2 DEF Section
<1>3. CASE named # {}
  <2>1. named \subseteq Nat
    BY <1>1
  <2>2. \E n \in named : \A m \in named : n <= m
    BY <1>3, <2>1, LeastNumber
  <2>3. (CHOOSE n \in named : \A m \in named : n <= m) \in named
    BY <2>2
  <2>4. Section(name) = CHOOSE n \in named : \A m \in named : n <= m
    BY <1>3, Zenon DEF Section
  <2>5. Section(name) \in DOMAIN sections
    BY <2>3, <2>4, Zenon
  <2> QED BY <1>1, <2>5
<1> QED BY <1>2, <1>3

-----------------------------------------------------------------------------
(* The inductive invariant. *)

\* A worker writes a message only between its start and its end; there is none
\* before the group starts or when it is joined.
Workers ==
    /\ \A t \in Thread : call[t] # "none" => at[t] \in {"loop", "runloop"}
    /\ phase \in {"setup", "failed"} => \A t \in Thread : at[t] = "none"
    /\ phase = "start" => \A t \in Thread : t >= i => at[t] = "none"
    /\ phase = "join" => \A t \in Thread : t < i => Joinable(t)
    /\ phase \in {"joined", "down"} => \A t \in Thread : Joinable(t)

\* debug_file is open or NULL except while the main thread has the lock.  What
\* a worker is to flush is open, too, and no close is under way, unless the
\* file was closed meanwhile.
Files ==
    /\ ~locked => file \in open \cup {NULL}
    /\ \A t \in Thread \ overtaken : call[t] \in {"flush", "fflush"} => ~locked
    /\ \A t \in Thread \ overtaken : call[t] = "fflush" => ptr[t] \in open \cup {NULL}

Inv == TypeOK /\ LogSafe /\ Workers /\ Files

LEMMA InitInv == Init => Inv
<1> SUFFICES ASSUME Init PROVE Inv
  OBVIOUS
<1> USE DebugAssumption, ThrAssumption DEF Init, DebugInit
<1>1. DebugTypeOK
  <2>1. sections \in Seq(Name) /\ Len(sections) <= SectionMax
    OBVIOUS
  <2>2. levels \subseteq Type \X (1..SectionMax)
    BY DEF Type
  <2>3. file \in File \cup {NULL} /\ ptr \in [Thread -> File \cup {NULL}]
    OBVIOUS
  <2> QED BY <2>1, <2>2, <2>3 DEF DebugTypeOK
<1>2. TypeOK
  <2>1. i \in 1 .. NThreads + 1
    OBVIOUS
  <2>2. /\ overtaken \subseteq Thread
        /\ active \in [Thread -> BOOLEAN]
        /\ at \in [Thread -> {"none", "created", "loop", "runloop", "exited"}]
    OBVIOUS
  <2> QED BY <1>1, <2>1, <2>2 DEF TypeOK
<1> QED BY <1>2 DEF Inv, LogSafe, Workers, Files

-----------------------------------------------------------------------------
(* The main thread. *)

\* The calls of thr.h leave the log alone; a thread is joined when it has ended.
LEMMA GroupInv ==
  ASSUME Inv, \/ libiapp_thr_group_create \/ libiapp_thr_group_start
              \/ libiapp_thr_group_stop \/ libiapp_thr_group_join
              \/ EnterLoop("running", "stop") \/ EnterLoop("running", "join")
              \/ EnterLoop("stopped", "join")
  PROVE  Inv'
<1> USE ThrAssumption DEF Main, Alive
<1> USE DEF libiapp_thr_group_create, libiapp_thr_group_start, libiapp_thr_group_stop,
            libiapp_thr_group_join, EnterLoop, Told, Awaited
<1>1. UNCHANGED <<debugVars, overtaken>> /\ ~locked
  OBVIOUS
<1>2. DebugTypeOK' /\ LogSafe'
  BY <1>1 DEF Inv, TypeOK, DebugTypeOK, LogSafe, debugVars, tableVars, fileVars, threadVars
<1>3. TypeOK'
  <2>1. i' \in 1 .. NThreads + 1
    BY DEF Inv, TypeOK
  <2>2. active' \in [Thread -> BOOLEAN]
    BY DEF Inv, TypeOK
  <2>3. at' \in [Thread -> {"none", "created", "loop", "runloop", "exited"}]
    BY DEF Inv, TypeOK
  <2>4. phase' \in {"setup", "failed", "start", "running", "stop", "stopped", "join",
                    "joined", "down"}
    BY DEF Inv, TypeOK
  <2> QED BY <1>1, <1>2, <2>1, <2>2, <2>3, <2>4 DEF Inv, TypeOK
<1>4. Files'
  BY <1>1 DEF Inv, Files, debugVars, fileVars, threadVars
<1>5. call' = call
  BY <1>1 DEF debugVars, threadVars
<1>6. Workers'
  <2>1. CASE libiapp_thr_group_create \/ libiapp_thr_group_stop
    BY <2>1, <1>5 DEF Inv, TypeOK, Workers, Joinable
  <2>2. CASE libiapp_thr_group_start
    <3>1. phase' \in {"start", "running"}
      BY <2>2
    <3>2. at' = at \/ at' = [at EXCEPT ![i] = "created"]
      BY <2>2
    <3> QED BY <1>5, <3>1, <3>2 DEF Inv, TypeOK, Workers, Joinable
  <2>3. CASE libiapp_thr_group_join
    BY <2>3, <1>5 DEF Inv, TypeOK, Workers, Joinable
  <2>4. CASE \/ EnterLoop("running", "stop") \/ EnterLoop("running", "join")
             \/ EnterLoop("stopped", "join")
    BY <2>4, <1>5 DEF Inv, TypeOK, Workers, Joinable
  <2> QED BY <2>1, <2>2, <2>3, <2>4
<1> QED BY <1>2, <1>3, <1>4, <1>6 DEF Inv

\* Masks are stored within the table, names are registered while there is room.
LEMMA ConfiguresInv == ASSUME Inv, Configures PROVE Inv'
<1> USE DebugAssumption DEF debug_register, debug_set_filename, debug_setmask_str,
        debug_setmask_str2, debug_setmask, Beyond
<1>1. UNCHANGED <<locked, file, open, reopening, threadVars, thrVars, overtaken>>
  BY DEF Configures, fileVars
<1>2. filename' \in BOOLEAN
  BY DEF Configures, fileVars, Inv, TypeOK, DebugTypeOK
<1>3. /\ sections' \in Seq(Name) /\ Len(sections') <= SectionMax
      /\ levels' \subseteq Type \X (1..SectionMax)
  <2>0. DebugTypeOK /\ sections \in Seq(Name) /\ Len(sections) \in Nat
    BY DEF Inv, TypeOK, DebugTypeOK
  <2>1. ASSUME NEW name \in Name, debug_register(name)
        PROVE  /\ sections' \in Seq(Name) /\ Len(sections') <= SectionMax
               /\ levels' \subseteq Type \X (1..SectionMax)
    <3>1. sections' \in Seq(Name) /\ Len(sections') <= SectionMax
      BY <2>0, <2>1
    <3>2. levels' \subseteq levels
      BY <2>1, Zenon
    <3> QED BY <2>0, <3>1, <3>2, Zenon DEF DebugTypeOK
  <2>2. ASSUME NEW name \in Name, NEW set \in Setting,
               \/ debug_setmask_str(name, set[1], set[2])
               \/ debug_setmask_str2(name, set[1], set[2])
        PROVE  /\ sections' \in Seq(Name) /\ Len(sections') <= SectionMax
               /\ levels' \subseteq Type \X (1..SectionMax)
    <3>1. /\ set[1] \in Type /\ sections' = sections
          /\ levels' \subseteq levels \cup {<<set[1], Section(name)>>}
      BY <2>2, Zenon
    <3>2. Section(name) \in 1..SectionMax
      BY <2>0, <2>2, SectionFound DEF DebugTypeOK
    <3>3. <<set[1], Section(name)>> \in Type \X (1..SectionMax)
      BY <3>1, <3>2, Zenon
    <3> QED BY <2>0, <3>1, <3>3, Zenon DEF DebugTypeOK
  <2>3. CASE debug_set_filename
    BY <2>0, <2>3 DEF DebugTypeOK, tableVars
  <2> QED BY <2>1, <2>2, <2>3 DEF Configures
<1>4. TypeOK'
  BY <1>1, <1>2, <1>3 DEF Inv, TypeOK, DebugTypeOK, threadVars, thrVars
<1> QED BY <1>1, <1>4 DEF Inv, LogSafe, Workers, Files, Joinable, threadVars, thrVars

\* The file is closed under the lock: who is to flush it is overtaken, ...
LEMMA CloseInv == ASSUME Inv, SwitchesFile, \E again \in BOOLEAN : FileClose(again) PROVE Inv'
<1>1. /\ ~locked /\ locked' /\ open' = open \ {file} /\ dirty' = dirty \ {file}
      /\ reopening' \in BOOLEAN
      /\ UNCHANGED <<tableVars, filename, file, call, ptr, crashed, thrVars>>
  BY DEF FileClose, LockFree, SwitchesFile
<1>2. overtaken' = overtaken \cup {t \in Thread : call[t] \in {"flush", "fflush"}}
  BY <1>1 DEF SwitchesFile, FileNull, FileOpen
<1>3. TypeOK'
  <2>1. locked' \in BOOLEAN
    BY DEF FileClose
  <2>2. DebugTypeOK'
    BY <1>1, <2>1 DEF Inv, TypeOK, DebugTypeOK, tableVars
  <2> QED BY <1>1, <1>2, <2>2 DEF Inv, TypeOK, thrVars
<1>4. Workers'
  BY <1>1 DEF Inv, Workers, Joinable, thrVars
<1>5. \A t \in Thread \ overtaken' : call'[t] \notin {"flush", "fflush"}
  BY <1>1, <1>2, Zenon
<1>6. Files'
  BY <1>1, <1>5, Zenon DEF Files
<1>7. LogSafe'
  BY <1>1, <1>5, Zenon DEF Inv, LogSafe
<1> QED BY <1>3, <1>4, <1>6, <1>7 DEF Inv

\* ... and when the lock is given back, debug_file is open or NULL.
LEMMA SwitchInv == ASSUME Inv, SwitchesFile, FileNull \/ FileOpen PROVE Inv'
<1>1. /\ locked /\ file' \in File \cup {NULL} /\ open \subseteq open'
      /\ open' \subseteq File /\ file' \in open' \cup {NULL}
      /\ UNCHANGED <<tableVars, filename, threadVars, thrVars>>
  BY DEF FileNull, FileOpen, SwitchesFile, Inv, TypeOK, DebugTypeOK
<1>2. overtaken' = overtaken
  BY <1>1 DEF SwitchesFile, FileClose, LockFree
<1>3. TypeOK'
  <2>1. reopening' \in BOOLEAN /\ locked' \in BOOLEAN
    BY DEF FileNull, FileOpen, Inv, TypeOK, DebugTypeOK
  <2>2. DebugTypeOK'
    BY <1>1, <2>1 DEF Inv, TypeOK, DebugTypeOK, tableVars, threadVars
  <2> QED BY <1>1, <1>2, <2>1, <2>2 DEF Inv, TypeOK, thrVars
<1>4. Workers'
  BY <1>1 DEF Inv, Workers, Joinable, threadVars, thrVars
<1>5. \A t \in Thread \ overtaken' : call'[t] \notin {"flush", "fflush"}
  BY <1>1, <1>2, Zenon DEF Inv, Files, threadVars
<1>6. Files'
  BY <1>1, <1>5, Zenon DEF Files
<1>7. LogSafe'
  BY <1>1, <1>5, Zenon DEF Inv, LogSafe, threadVars
<1> QED BY <1>3, <1>4, <1>6, <1>7 DEF Inv

\* The lock is destroyed when the group is joined: no worker uses it.
LEMMA ShutsDownInv == ASSUME Inv, ShutsDown PROVE Inv'
<1>1. phase = "joined" /\ phase' = "down" /\ ~locked
  BY DEF ShutsDown, Main
<1>2. \A t \in Thread : call[t] = "none"
  BY <1>1 DEF Inv, Workers, Joinable
<1>3. crashed' = "no" /\ UNCHANGED <<fileVars, dirty, call, ptr, i, active, at, overtaken>>
  BY <1>2 DEF ShutsDown, debug_shutdown
<1>4. /\ sections' \in Seq(Name) /\ Len(sections') <= SectionMax
      /\ levels' \subseteq Type \X (1..SectionMax)
  BY DebugAssumption DEF ShutsDown, debug_shutdown, Inv, TypeOK, DebugTypeOK
<1>5. TypeOK'
  BY <1>1, <1>3, <1>4 DEF Inv, TypeOK, DebugTypeOK, fileVars
<1> QED BY <1>1, <1>3, <1>5 DEF Inv, LogSafe, Workers, Files, Joinable, fileVars

-----------------------------------------------------------------------------
(* The workers. *)

\* A worker goes on in its loop; it ends only with no message under way.
LEMMA WorkerInv ==
  ASSUME Inv, NEW t \in Thread, Starts(t) \/ Loops(t) \/ Exits(t) \/ RunloopReturns(t)
  PROVE  Inv'
<1> USE DEF Starts, Loops, Exits, RunloopReturns, Worker, Goes, DEBUG, At, Alive
<1>1. /\ UNCHANGED <<tableVars, fileVars, dirty, ptr, crashed, phase, i, active, overtaken>>
      /\ at[t] \in {"created", "loop", "runloop"} /\ call[t] = "none"
  BY DEF debugVars, threadVars
<1>2. PICK where \in {"loop", "runloop", "exited"} : at' = [at EXCEPT ![t] = where]
  OBVIOUS
<1>3. call' = call \/ (at'[t] # "exited" /\ call' = [call EXCEPT ![t] = "do_debug"])
  BY <1>2 DEF debugVars, threadVars, Inv, TypeOK
<1>4. TypeOK'
  <2>1. call' \in [Thread -> {"none", "do_debug", "flush", "fflush"}]
    BY <1>3 DEF Inv, TypeOK, DebugTypeOK
  <2>2. DebugTypeOK'
    BY <1>1, <2>1 DEF Inv, TypeOK, DebugTypeOK, tableVars, fileVars
  <2> QED BY <1>1, <1>2, <2>2 DEF Inv, TypeOK
<1>5. Workers'
  <2>1. phase \notin {"setup", "failed", "joined", "down"}
    BY <1>1 DEF Inv, Workers, Joinable
  <2>2. phase = "join" => ~(t < i)
    BY <1>1 DEF Inv, Workers, Joinable
  <2>3. phase = "start" => ~(t >= i)
    BY <1>1 DEF Inv, Workers
  <2>4. \A u \in Thread : call'[u] # "none" => at'[u] \in {"loop", "runloop"}
    BY <1>1, <1>2, <1>3 DEF Inv, TypeOK, DebugTypeOK, Workers
  <2>5. \A u \in Thread : u # t => at'[u] = at[u]
    BY <1>2 DEF Inv, TypeOK
  <2> QED BY <1>1, <2>1, <2>2, <2>3, <2>4, <2>5 DEF Inv, Workers, Joinable
<1>6. Files'
  <2>1. \A u \in Thread : call'[u] \in {"flush", "fflush"} => call'[u] = call[u]
    BY <1>3 DEF Inv, TypeOK, DebugTypeOK
  <2> QED BY <1>1, <2>1 DEF Inv, Files, fileVars
<1>7. LogSafe'
  BY <1>1, <1>6, Zenon DEF Inv, LogSafe, Files
<1> QED BY <1>4, <1>5, <1>6, <1>7 DEF Inv

\* A message is written under the lock to a file that is open then, and flushed
\* after it to the file that is debug_file then.
LEMMA LogsInv == ASSUME Inv, NEW t \in Thread, Logs(t) PROVE Inv'
<1> USE DEF Logs, Logging, At, ThenFlush, LockFree, Alive
<1>1. /\ UNCHANGED <<tableVars, fileVars, thrVars>> /\ crashed = "no"
      /\ call[t] # "none"
  BY DEF do_debug, Reload, Flush
<1>2. /\ UNCHANGED <<sections, levels, locked, filename, file, open, reopening>>
      /\ UNCHANGED <<phase, i, active, at>>
  BY <1>1 DEF tableVars, fileVars, thrVars
<1>3. PICK where \in {"none", "flush", "fflush"} : call' = [call EXCEPT ![t] = where]
  BY DEF do_debug, Reload, Flush
<1>4. PICK f \in File \cup {NULL} : ptr' = ptr \/ ptr' = [ptr EXCEPT ![t] = f]
  BY DEF do_debug, Reload, Flush, Inv, TypeOK, DebugTypeOK
<1>5. dirty' \subseteq open
  BY DEF do_debug, Reload, Flush, Inv, TypeOK, DebugTypeOK
<1>6. crashed' \in {"no", "flush"}
  BY <1>1 DEF do_debug, Reload, Flush, Inv, Files
<1>7. TypeOK'
  <2>1. call' \in [Thread -> {"none", "do_debug", "flush", "fflush"}]
    BY <1>3 DEF Inv, TypeOK, DebugTypeOK
  <2>2. ptr' \in [Thread -> File \cup {NULL}]
    BY <1>4 DEF Inv, TypeOK, DebugTypeOK
  <2>3. DebugTypeOK'
    BY <1>2, <1>5, <1>6, <2>1, <2>2 DEF Inv, TypeOK, DebugTypeOK
  <2>4. overtaken' \subseteq Thread
    BY DEF Inv, TypeOK
  <2> QED BY <1>1, <1>2, <2>3, <2>4 DEF Inv, TypeOK
<1>8. Workers'
  <2>1. \A u \in Thread : call'[u] # "none" => call[u] # "none"
    BY <1>1, <1>3 DEF Inv, TypeOK, DebugTypeOK
  <2> QED BY <1>2, <2>1 DEF Inv, Workers, Joinable
<1>9. Files'
  <2>1. (locked' <=> locked) /\ file' = file /\ open' = open
    BY <1>2
  <2>2. ASSUME NEW u \in Thread \ overtaken', call'[u] \in {"flush", "fflush"}
        PROVE  /\ ~locked
               /\ call'[u] = "fflush" => ptr'[u] \in open \cup {NULL}
    <3>1. CASE u # t
      <4>1. u \notin overtaken /\ call'[u] = call[u] /\ ptr'[u] = ptr[u]
        BY <1>3, <1>4, <2>2, <3>1 DEF Inv, TypeOK, DebugTypeOK
      <4> QED BY <2>2, <4>1, Zenon DEF Inv, Files
    <3>2. CASE u = t /\ do_debug(t)
      <4>1. ~locked /\ call'[t] # "fflush"
        BY <3>2 DEF do_debug, Inv, TypeOK, DebugTypeOK
      <4> QED BY <3>2, <4>1, Zenon
    <3>3. CASE u = t /\ Reload(t)
      <4>1. call[t] = "flush" /\ t \notin overtaken /\ ptr'[t] = file
        BY <2>2, <3>3 DEF Reload, Inv, TypeOK, DebugTypeOK
      <4> QED BY <3>3, <4>1, Zenon DEF Inv, Files
    <3>4. CASE u = t /\ Flush(t)
      BY <2>2, <3>4 DEF Flush, Inv, TypeOK, DebugTypeOK
    <3> QED BY <3>1, <3>2, <3>3, <3>4
  <2>3. ~locked' => file' \in open' \cup {NULL}
    BY <2>1, Zenon DEF Inv, Files
  <2> QED BY <2>1, <2>2, <2>3, Zenon DEF Files
<1>10. LogSafe'
  BY <1>6, <1>9, Zenon DEF LogSafe, Files
<1> QED BY <1>7, <1>8, <1>9, <1>10 DEF Inv

-----------------------------------------------------------------------------
(* The theorems. *)

LEMMA NextInv == ASSUME Inv, [Next]_vars PROVE Inv'
<1>1. CASE UNCHANGED vars
  BY <1>1 DEF vars, debugVars, tableVars, fileVars, threadVars, thrVars, Inv, TypeOK,
              DebugTypeOK, LogSafe, Workers, Files, Joinable
<1>2. CASE SwitchesFile
  BY <1>2, CloseInv, SwitchInv DEF SwitchesFile
<1>3. CASE \E t \in Thread : Runs(t)
  BY <1>3, WorkerInv, LogsInv DEF Runs
<1>4. CASE Next /\ ~SwitchesFile /\ ~(\E t \in Thread : Runs(t))
  BY <1>4, GroupInv, ConfiguresInv, ShutsDownInv DEF Next
<1> QED BY <1>1, <1>2, <1>3, <1>4

\* The inductive invariant, for any number of threads.
THEOREM ThrInvariant == Spec => []Inv
<1>1. Inv /\ [Next]_vars => Inv'
  BY NextInv
<1> QED BY <1>1, InitInv, PTL DEF Spec

\* Every variable holds a value of the C type it models: debug_setmask_str and
\* debug_register never write beyond debug_levels, whatever the names.
THEOREM TypeCorrect == Spec => []TypeOK
<1>1. Inv => TypeOK
  BY DEF Inv
<1> QED BY <1>1, ThrInvariant, PTL

\* No worker writes to a closed file or uses a destroyed lock, and none flushes
\* a closed file but one that was to flush it when it was closed, for any
\* number of workers and files.
THEOREM LogIsSafe == Spec => []LogSafe
<1>1. Inv => LogSafe
  BY DEF Inv
<1> QED BY <1>1, ThrInvariant, PTL

-----------------------------------------------------------------------------
(* Every message is flushed. *)

\* t is between a message and a flush that reaches f.
Flushes(t, f) == call[t] = "flush" \/ (call[t] = "fflush" /\ ptr[t] \in {f, NULL})

\* A file with messages that are not flushed is debug_file, is not being closed,
\* and some worker is on the way to flush it.
FlushOwed ==
    \A f \in dirty : f = file /\ ~locked /\ (Alive => \E t \in Thread : Flushes(t, f))

\* A step that leaves the files, and every worker on its way to a flush, alone.
LEMMA OwedSame ==
  ASSUME FlushOwed, UNCHANGED <<file, locked, ptr, dirty>>, Alive' => Alive,
         \A t \in Thread : call'[t] = call[t] \/ call[t] \in {"none", "do_debug"}
  PROVE  FlushOwed'
<1> SUFFICES ASSUME NEW f \in dirty
             PROVE  f = file /\ ~locked' /\ (Alive' => \E t \in Thread : Flushes(t, f)')
  BY Zenon DEF FlushOwed
<1>1. f = file /\ ~locked' /\ (Alive => \E t \in Thread : Flushes(t, f))
  BY Zenon DEF FlushOwed
<1>2. \A t \in Thread : Flushes(t, f) => Flushes(t, f)'
  BY Zenon DEF Flushes
<1> QED BY <1>1, <1>2, Zenon

\* A message is written with the lock, so to debug_file, and its writer flushes
\* what is debug_file afterwards: that file, as long as it has not been closed.
LEMMA LogsOwed == ASSUME Inv, FlushOwed, NEW t \in Thread, Logs(t) PROVE FlushOwed'
<1>1. /\ UNCHANGED <<file, locked>> /\ Alive
      /\ call \in [Thread -> {"none", "do_debug", "flush", "fflush"}]
      /\ ptr \in [Thread -> File \cup {NULL}]
  <2>1. UNCHANGED <<file, locked>>
    BY Zenon DEF Logs, Logging, do_debug, Reload, Flush, fileVars
  <2>2. Alive
    BY Zenon DEF Logs
  <2> QED BY <2>1, <2>2, Zenon DEF Inv, TypeOK, DebugTypeOK
<1>2. CASE do_debug(t)
  <2>1. CASE call' = [call EXCEPT ![t] = "none"] /\ UNCHANGED <<dirty, ptr>>
    <3>1. \A u \in Thread : call'[u] = call[u] \/ call[u] \in {"none", "do_debug"}
      BY <1>1, <1>2, <2>1, Zenon DEF do_debug
    <3> QED BY <1>1, <2>1, <3>1, OwedSame, Zenon
  <2>2. CASE /\ call' = [call EXCEPT ![t] = "flush"]
             /\ dirty' = dirty \cup ({file} \cap open) /\ UNCHANGED ptr
    <3>1. \A f \in dirty' : f = file
      BY <2>2, Zenon DEF FlushOwed
    <3>2. ~locked' /\ \A f : Flushes(t, f)'
      BY <1>1, <1>2, <2>2, Zenon DEF do_debug, LockFree, Flushes
    <3>3. \A f : \E u \in Thread : Flushes(u, f)'
      BY <3>2, Zenon
    <3> QED BY <1>1, <3>1, <3>2, <3>3, Zenon DEF FlushOwed
  <2> QED BY <1>2, <2>1, <2>2, Zenon DEF do_debug, At, ThenFlush
<1>3. CASE Reload(t)
  <2>1. /\ call' = [call EXCEPT ![t] = "fflush"] /\ ptr' = [ptr EXCEPT ![t] = file]
        /\ dirty' = dirty
    BY <1>3, Zenon DEF Reload, At
  <2>2. Flushes(t, file)'
    BY <1>1, <2>1, Zenon DEF Flushes
  <2> QED BY <1>1, <2>1, <2>2, Zenon DEF FlushOwed
<1>4. CASE Flush(t)
  <2>1. /\ call' = [call EXCEPT ![t] = "none"] /\ ptr' = [ptr EXCEPT ![t] = NULL]
        /\ dirty' = IF ptr[t] = NULL THEN {} ELSE dirty \ {ptr[t]}
        /\ call[t] = "fflush"
    BY <1>4, Zenon DEF Flush, At
  <2>2. ASSUME NEW f \in dirty'
        PROVE  f = file /\ ~locked /\ \E u \in Thread : Flushes(u, f)'
    <3>1. f \in dirty /\ ptr[t] \notin {f, NULL}
      BY <2>1, <2>2, Zenon
    <3>2. PICK u \in Thread : Flushes(u, f)
      BY <1>1, <3>1, Zenon DEF FlushOwed
    <3>3. u # t
      BY <2>1, <3>1, <3>2, Zenon DEF Flushes
    <3>4. Flushes(u, f)'
      BY <1>1, <2>1, <3>2, <3>3, Zenon DEF Flushes
    <3> QED BY <3>1, <3>4, Zenon DEF FlushOwed
  <2> QED BY <1>1, <2>2, Zenon DEF FlushOwed
<1> QED BY <1>2, <1>3, <1>4, Zenon DEF Logs, Logging

\* No step strands a message: a file is closed with the lock, after which it has
\* none, and the workers' own steps are those of LogsOwed.
LEMMA OwedNext == ASSUME Inv, FlushOwed, [Next]_vars PROVE FlushOwed'
<1>1. CASE UNCHANGED debugVars
  BY <1>1, OwedSame, Zenon DEF debugVars, fileVars, threadVars, Alive
<1>2. CASE Configures
  <2>1. UNCHANGED <<file, locked, ptr, dirty, call, crashed>>
    BY <1>2, Zenon DEF Configures, debug_register, debug_set_filename, debug_setmask_str,
       debug_setmask_str2, debug_setmask, fileVars, threadVars
  <2> QED BY <2>1, OwedSame, Zenon DEF Alive
<1>3. CASE SwitchesFile
  <2>1. CASE \E again \in BOOLEAN : FileClose(again)
    <3>1. dirty' = dirty \ {file}
      BY <2>1, Zenon DEF FileClose
    <3>2. dirty' = {}
      BY <3>1, Zenon DEF FlushOwed
    <3> QED BY <3>2, Zenon DEF FlushOwed
  <2>2. CASE FileNull \/ FileOpen
    <3>1. locked /\ dirty' = dirty
      BY <2>2, Zenon DEF FileNull, FileOpen, threadVars
    <3> QED BY <3>1, Zenon DEF FlushOwed
  <2> QED BY <1>3, <2>1, <2>2, Zenon DEF SwitchesFile
<1>4. CASE ShutsDown
  <2>1. UNCHANGED <<file, locked, ptr, dirty, call>> /\ Alive
    BY <1>4, Zenon DEF ShutsDown, debug_shutdown, fileVars, Main
  <2> QED BY <2>1, OwedSame, Zenon
<1>5. ASSUME NEW t \in Thread, Starts(t) \/ Loops(t) \/ Exits(t) \/ RunloopReturns(t)
      PROVE  FlushOwed'
  <2>1. UNCHANGED <<file, locked, ptr, dirty, crashed>> /\ call[t] = "none"
    BY <1>5, Zenon DEF Starts, Loops, Exits, RunloopReturns, Worker, DEBUG, debugVars, fileVars,
       threadVars
  <2>2. \A u \in Thread : u = t \/ call'[u] = call[u]
    BY <1>5, Zenon DEF Starts, Loops, Exits, RunloopReturns, DEBUG, At, debugVars, threadVars,
       Inv, TypeOK, DebugTypeOK
  <2> QED BY <2>1, <2>2, OwedSame, Zenon DEF Alive
<1>6. CASE \/ libiapp_thr_group_create \/ libiapp_thr_group_start
          \/ libiapp_thr_group_stop \/ libiapp_thr_group_join
          \/ EnterLoop("running", "stop") \/ EnterLoop("running", "join")
          \/ EnterLoop("stopped", "join")
  BY <1>1, <1>6, Zenon DEF libiapp_thr_group_create, libiapp_thr_group_start,
     libiapp_thr_group_stop, libiapp_thr_group_join, EnterLoop
<1>7. CASE UNCHANGED vars
  BY <1>1, <1>7, Zenon DEF vars
<1> QED BY <1>2, <1>3, <1>4, <1>5, <1>6, <1>7, LogsOwed, Zenon DEF Next, Runs

\* When the group is joined the log is complete.
LogComplete == phase \in {"joined", "down"} /\ Alive => dirty = {}

\* No message stays unflushed because its file was closed or replaced between
\* the message and its flush, which is done without the lock: whoever wrote
\* last is on the way to flush debug_file (LogFlushed rests on it), and when
\* the workers are joined nothing is left to flush.
THEOREM LogIsFlushed == Spec => [](FlushOwed /\ LogComplete)
<1>1. Init => FlushOwed
  BY Zenon DEF Init, DebugInit, FlushOwed
<1>2. Inv /\ FlushOwed /\ [Next]_vars => FlushOwed'
  BY OwedNext, Zenon
<1>3. Inv /\ FlushOwed => LogComplete
  <2> SUFFICES ASSUME Inv, FlushOwed, phase \in {"joined", "down"}, Alive, NEW f \in dirty
               PROVE  FALSE
    BY Zenon DEF LogComplete
  <2>1. PICK t \in Thread : Flushes(t, f)
    BY Zenon DEF FlushOwed
  <2>2. at[t] \in {"loop", "runloop"}
    BY <2>1, Zenon DEF Flushes, Inv, Workers
  <2> QED BY <2>2, Zenon DEF Inv, Workers, Joinable
<1> QED BY <1>1, <1>2, <1>3, ThrInvariant, PTL DEF Spec
=============================================================================
