--------------------------- MODULE FdeWaitProofs ----------------------------
(* What holds while a thread waits in kevent and depends on how the loop is *)
(* used, for any callbacks and descriptors: no timer is due and it wakes in *)
(* time, if it has at most three timers; the kernel knows the active events *)
(* and no freed one, if their owners are careful and registrations do not   *)
(* fail.                                                                    *)
EXTENDS FdeProofs, FiniteSetTheorems

-----------------------------------------------------------------------------
(* Timers. *)

FewTimers == IsFiniteSet(Timer) /\ Cardinality(Timer) <= 3

\* f_t_head is in the order of the times.
InOrder == \A i, j \in DOMAIN tq : i < j => tv[tq[i]] <= tv[tq[j]]

\* Of three timers at most two are queued while the third is not.
LEMMA TwoQueued ==
  ASSUME FewTimers, TypeOK, QueuesAgree, NEW f \in Timer, f \notin Range(tq)
  PROVE  Len(tq) <= 2
<1>1. tq \in Seq(Timer) /\ DOMAIN tq = 1..Len(tq) /\ Len(tq) \in Nat
  BY LenProperties, Zenon DEF TypeOK
<1>2. IsFiniteSet(Timer \ {f}) /\ Cardinality(Timer \ {f}) = Cardinality(Timer) - 1
  BY FS_RemoveElement, Zenon DEF FewTimers
<1>3. tq \in Injection(1..Len(tq), Timer \ {f})
  <2>1. tq \in [1..Len(tq) -> Timer \ {f}]
    BY <1>1, ElementOfSeq DEF Range
  <2>2. IsInjective(tq)
    BY Zenon DEF QueuesAgree, Once, IsInjective
  <2> QED BY <2>1, <2>2, Zenon DEF Injection
<1>4. Cardinality(1..Len(tq)) = Len(tq)
  BY <1>1, FS_Interval
<1>5. Cardinality(1..Len(tq)) <= Cardinality(Timer \ {f})
  BY <1>2, <1>3, FS_Injection, Zenon
<1>6. Cardinality(Timer) \in Nat
  BY FS_CardinalityType, Zenon DEF FewTimers
<1> QED BY <1>1, <1>2, <1>4, <1>5, <1>6 DEF FewTimers

\* fde_add_timeout keeps the order of a list of at most two: the walk that
\* stops at the first entry due earlier stops at the only one there is.
LEMMA LinkedInOrder ==
  ASSUME FewTimers, TypeOK, QueuesAgree, InOrder, NEW f \in Timer,
         NEW t \in (clock + MinDelay)..MaxClock, fde_add_timeout(f, t)
  PROVE  InOrder'
<1> DEFINE n == TimersBefore(tq, t)
<1>1. t \in Time
  BY BoundAssumption DEF TypeOK, Time
<1>2. f \notin Range(tq)
  BY Zenon DEF QueuesAgree, fde_add_timeout
<1>3. n \in 0..Len(tq) /\ Len(tq) \in Nat /\ Len(tq) <= 2 /\ DOMAIN tq = 1..Len(tq)
  BY <1>1, <1>2, TimersBeforeProps, TwoQueued, LenProperties, Zenon DEF TypeOK
<1>4. /\ DOMAIN tq' = 1..(Len(tq) + 1)
      /\ \A j \in 1..(Len(tq) + 1) :
            tq'[j] = IF j <= n THEN tq[j] ELSE IF j = n + 1 THEN f ELSE tq[j - 1]
  <2>1. tq \in Seq(Timer) /\ Once(tq) /\ tq' = InsertAt(tq, n + 1, f)
    BY Zenon DEF TypeOK, QueuesAgree, fde_add_timeout, TimerLink
  <2> HIDE DEF n
  <2>2. /\ DOMAIN InsertAt(tq, n + 1, f) = 1..(Len(tq) + 1)
        /\ \A j \in 1..(Len(tq) + 1) : InsertAt(tq, n + 1, f)[j] =
              IF j <= n THEN tq[j] ELSE IF j = n + 1 THEN f ELSE tq[j - 1]
    BY <1>2, <1>3, <2>1, InsertAtProps
  <2> QED BY <2>1, <2>2, Zenon
<1>5. \A j \in DOMAIN tq : tq[j] \in Timer /\ tq[j] # f /\ tv[tq[j]] \in Int
  BY <1>2, ElementOfSeq DEF TypeOK, Range, Event, Time
<1>6. tv'[f] = t /\ t \in Int /\ \A j \in DOMAIN tq : tv'[tq[j]] = tv[tq[j]]
  BY <1>1, <1>5 DEF TypeOK, fde_add_timeout, Event, Time
<1>7. /\ \A j \in 1..n : tv[tq[j]] <= t
      /\ \A j \in (n + 1)..Len(tq) : t <= tv[tq[j]]
  <2>1. CASE tq = <<>>
    BY <1>3, <2>1
  <2>2. CASE tq # <<>>
    <3>1. Len(tq) \in {1, 2} /\ Head(tq) = tq[1] /\ Last(tq) = tq[Len(tq)]
      BY <1>3, <2>2, EmptySeq DEF TypeOK, Last
    <3>2. 1 \in DOMAIN tq /\ Len(tq) \in DOMAIN tq
      BY <1>3, <3>1
    <3>3. CASE t <= tv[tq[1]]
      <4>1. n = 0
        BY <3>1, <3>3, Zenon DEF TimersBefore
      <4>2. \A j \in 1..Len(tq) : tv[tq[1]] <= tv[tq[j]]
        BY <1>3, <1>5, <3>2 DEF InOrder
      <4> HIDE DEF n
      <4> QED BY <1>3, <1>5, <1>6, <3>2, <3>3, <4>1, <4>2
    <3>4. CASE t > tv[tq[1]] /\ t >= tv[tq[Len(tq)]]
      <4>1. n = Len(tq)
        BY <1>5, <1>6, <2>2, <3>1, <3>2, <3>4 DEF TimersBefore
      <4>2. \A j \in 1..Len(tq) : tv[tq[j]] <= tv[tq[Len(tq)]]
        BY <1>3, <1>5, <3>2 DEF InOrder
      <4> HIDE DEF n
      <4> QED BY <1>3, <1>5, <1>6, <3>2, <3>4, <4>1, <4>2, SMTT(30)
    <3>5. CASE t > tv[tq[1]] /\ t < tv[tq[Len(tq)]]
      <4>1. Len(tq) = 2 /\ DOMAIN tq = {1, 2}
        BY <1>3, <1>5, <1>6, <3>1, <3>2, <3>5
      <4>2. n = CHOOSE i \in DOMAIN tq : /\ t > tv[tq[i]]
                                         /\ \A j \in 1..(i-1) : t <= tv[tq[j]]
        BY <1>5, <1>6, <2>2, <3>1, <3>2, <3>5, SMTT(30) DEF TimersBefore
      <4>3. \A i \in DOMAIN tq : t > tv[tq[i]] => i = 1
        BY <1>5, <1>6, <3>5, <4>1
      <4>4. t > tv[tq[1]] /\ \A j \in 1..(1 - 1) : t <= tv[tq[j]]
        BY <3>5
      <4> HIDE DEF n
      <4>5. n = 1
        BY <3>2, <4>2, <4>3, <4>4, Zenon
      <4> QED BY <1>5, <1>6, <3>5, <4>1, <4>5
    <3> QED BY <1>5, <1>6, <3>2, <3>3, <3>4, <3>5
  <2> QED BY <2>1, <2>2, Zenon
<1> HIDE DEF n
<1>8. ASSUME NEW i \in DOMAIN tq', NEW j \in DOMAIN tq', i < j
      PROVE tv'[tq'[i]] <= tv'[tq'[j]]
  <2>1. CASE j <= n
    BY <1>3, <1>4, <1>6, <1>8, <2>1, SMTT(30) DEF InOrder
  <2>2. CASE j = n + 1
    BY <1>3, <1>4, <1>6, <1>7, <1>8, <2>2, SMTT(30)
  <2>3. CASE j > n + 1 /\ i <= n
    BY <1>3, <1>4, <1>6, <1>8, <2>3, SMTT(30) DEF InOrder
  <2>4. CASE j > n + 1 /\ i = n + 1
    BY <1>3, <1>4, <1>6, <1>7, <1>8, <2>4, SMTT(30)
  <2>5. CASE j > n + 1 /\ i > n + 1
    BY <1>3, <1>4, <1>6, <1>8, <2>5, SMTT(30) DEF InOrder
  <2> QED BY <1>3, <1>4, <1>8, <2>1, <2>2, <2>3, <2>4, <2>5, SMTT(30)
<1> QED BY <1>8, Zenon DEF InOrder

\* With the list in order its first entry speaks for all of them.
TimersInv == InOrder /\ DueTimersRan /\ NoOversleep

\* The step that ends fde_t_runloop: the head is not due, so none is, and the
\* sleep ends when the head is due.
LEMMA SleepInTime ==
  ASSUME TypeOK, InOrder, fde_t_runloop, ~TimerReady
  PROVE  TimersInv'
<1>1. /\ UNCHANGED <<tq, tv, now, clock, cbq>>
      /\ wake' = clock + (IF cbq # <<>> THEN 0 ELSE fde_t_get_timeout)
  BY Zenon DEF fde_t_runloop, cbVars
<1>2. /\ DOMAIN tq = 1..Len(tq) /\ Len(tq) \in Nat
      /\ now \in Int /\ clock \in Int /\ MaxTimeout \in Int
      /\ \A i \in DOMAIN tq : tq[i] \in Timer /\ tv[tq[i]] \in Int
  BY LenProperties, ElementOfSeq, BoundAssumption DEF TypeOK, Event, Time
<1>3. ASSUME NEW i \in DOMAIN tq
      PROVE  tv[tq[i]] > now /\ wake' - tv[tq[i]] <= clock - now
  <2>1. 1 \in DOMAIN tq /\ tq # <<>> /\ Head(tq) = tq[1]
    BY <1>2, EmptySeq DEF TypeOK
  <2>2. now < tv[tq[1]] /\ tv[tq[1]] <= tv[tq[i]]
    BY <1>2, <2>1 DEF TimerReady, InOrder
  <2>3. fde_t_get_timeout = tv[tq[1]] - now
    BY <1>2, <2>1, <2>2 DEF fde_t_get_timeout
  <2>4. wake' = clock \/ wake' = clock + (tv[tq[1]] - now)
    BY <1>1, <1>2, <2>3
  <2>5. tv[tq[1]] \in Int /\ tv[tq[i]] \in Int
    BY <1>2, <2>1, Zenon
  <2> QED BY <1>2, <2>2, <2>4, <2>5
<1>4. cbq # <<>> => wake' <= clock
  BY <1>1, <1>2
<1>5. InOrder'
  BY <1>1, Zenon DEF InOrder
<1>6. DueTimersRan'
  BY <1>1, <1>3, Zenon DEF DueTimersRan
<1>7. NoOversleep'
  BY <1>1, <1>3, <1>4, Zenon DEF NoOversleep
<1> QED BY <1>5, <1>6, <1>7, Zenon DEF TimersInv

\* Every step keeps the timers in order and on time.
LEMMA TimersNext ==
  ASSUME FewTimers, TypeOK, Control, QueuesAgree, TimersInv, [Next]_vars
  PROVE  TimersInv'
<1>a. InHandler \/ running # None => phase \notin {"change", "scan"}
  BY Zenon DEF Control, InHandler
<1>b. /\ DOMAIN tq = 1..Len(tq) /\ Len(tq) \in Nat /\ now \in Int /\ clock \in Int
      /\ wake \in Int /\ \A i \in DOMAIN tq : tq[i] \in Timer /\ tv[tq[i]] \in Int
  BY LenProperties, ElementOfSeq DEF TypeOK, Event, Time
<1>1. ASSUME phase' \notin {"change", "scan"}, InOrder' PROVE TimersInv'
  BY <1>1, Zenon DEF TimersInv, DueTimersRan, NoOversleep
<1>2. CASE UNCHANGED <<tq, tv>> /\ phase' \notin {"change", "scan"}
  BY <1>1, <1>2, Zenon DEF TimersInv, InOrder
<1>3. CASE UNCHANGED <<tq, tv, now, wake, cbq, clock>>
           /\ (phase' \in {"change", "scan"} => phase \in {"change", "scan"})
  BY <1>3, Zenon DEF TimersInv, InOrder, DueTimersRan, NoOversleep
<1>4. ASSUME NEW f \in Event, fde_create(f) PROVE TimersInv'
  <2>1. \A i \in DOMAIN tq : tv'[tq[i]] = tv[tq[i]]
    BY <1>4, <1>b, Zenon DEF TypeOK, QueuesAgree, fde_create, Range
  <2>2. InOrder'
    BY <1>4, <2>1 DEF TimersInv, InOrder, fde_create
  <2> QED BY <1>a, <1>1, <1>4, <2>2, Zenon DEF fde_create
<1>5. ASSUME NEW f \in Event, free(f) PROVE TimersInv'
  BY <1>a, <1>2, <1>5, Zenon DEF free, timeVars
<1>6. ASSUME NEW f \in Cb, NEW gone \in {{}, {f}}, fde_cb_add(f) \/ fde_cb_delete(f, gone)
      PROVE TimersInv'
  BY <1>a, <1>2, <1>6, Zenon DEF fde_cb_add, fde_cb_delete, timeVars
<1>7. ASSUME NEW f \in Timer, NEW t \in (clock + MinDelay)..MaxClock, fde_add_timeout(f, t)
      PROVE TimersInv'
  BY <1>a, <1>1, <1>7, LinkedInOrder, Zenon DEF TimersInv, fde_add_timeout
<1>8. ASSUME NEW f \in Timer, NEW gone \in {{}, {f}}, fde_t_delete(f, gone) PROVE TimersInv'
  <2>1. \A i, j \in DOMAIN tq' : i < j =>
           \E m, n \in DOMAIN tq : m < n /\ tq'[i] = tq[m] /\ tq'[j] = tq[n]
    BY <1>8, UnlinkedProps DEF TypeOK, QueuesAgree, fde_t_delete
  <2>2. InOrder'
    BY <1>8, <2>1 DEF TimersInv, InOrder, fde_t_delete
  <2> QED BY <1>a, <1>1, <1>8, <2>2, Zenon DEF fde_t_delete
<1>9. ASSUME NEW f \in Io, NEW gone \in {{}, {f}}, fde_rw_add(f) \/ fde_rw_delete(f, gone)
      PROVE TimersInv'
  BY <1>a, <1>2, <1>9, Zenon DEF fde_rw_add, fde_rw_delete, timeVars
<1>10. ASSUME NEW d \in Fd, CloseFd(d) \/ OpenFd(d) PROVE TimersInv'
  BY <1>a, <1>2, <1>10, Zenon DEF CloseFd, OpenFd, timeVars
<1>11. CASE SetupDone \/ RunloopStart \/ fde_cb_runloop \/ KqReturn \/ fde_rw_runloop
  BY <1>2, <1>11, Zenon DEF SetupDone, RunloopStart, fde_cb_runloop, KqReturn, fde_rw_runloop, timeVars
<1>12. CASE Return \/ fde_kq_flush \/ KqChange \/ UNCHANGED vars
  BY <1>3, <1>12, Zenon DEF Return, fde_kq_flush, KqChange, vars, timeVars, cbVars
<1>13. CASE fde_t_runloop
  <2>1. CASE TimerReady
    <3>1. \A j \in DOMAIN Tail(tq) : j + 1 \in DOMAIN tq /\ Tail(tq)[j] = tq[j + 1]
      BY <2>1, TailProps, Zenon DEF TypeOK, QueuesAgree, TimerReady
    <3>2. DOMAIN Tail(tq) \subseteq Nat
      BY <2>1, <1>b, HeadTailProperties, LenProperties DEF TypeOK, TimerReady
    <3>3. tq' = Tail(tq) /\ tv' = tv /\ phase' = phase /\ phase = "timer"
      BY <1>13, <2>1, Zenon DEF fde_t_runloop
    <3>4. InOrder'
      BY <3>1, <3>2, <3>3 DEF TimersInv, InOrder
    <3> QED BY <1>1, <3>3, <3>4, Zenon
  <2>2. CASE ~TimerReady
    BY <1>13, <2>2, SleepInTime, Zenon DEF TimersInv
  <2> QED BY <2>1, <2>2, Zenon
<1>14. CASE Tick
  <2>1. clock' = clock + 1 /\ UNCHANGED <<tq, tv, now, wake, cbq, phase>>
    BY <1>14, Zenon DEF Tick, timeVars, cbVars
  <2>2. InOrder' /\ DueTimersRan'
    BY <2>1, Zenon DEF TimersInv, InOrder, DueTimersRan
  <2>3. NoOversleep'
    BY <1>b, <2>1 DEF TimersInv, NoOversleep
  <2> QED BY <2>2, <2>3, Zenon DEF TimersInv
<1>15. ASSUME NEW k \in Keys, KqEvent(k) PROVE TimersInv'
  BY <1>3, <1>15, Zenon DEF KqEvent, timeVars, cbVars
<1>16. ASSUME NEW f \in Io, fde_ue_push(f) PROVE TimersInv'
  BY <1>3, <1>16, Zenon DEF fde_ue_push, timeVars, cbVars
<1> QED
  BY <1>4, <1>5, <1>6, <1>7, <1>8, <1>9, <1>10, <1>11, <1>12, <1>13, <1>14,
     <1>15, <1>16, Zenon, Zenon DEF Next, Call, Step

\* A thread with at most three timers keeps them in order and on time.
LEMMA TimersKept == ASSUME FewTimers PROVE Spec => []TimersInv
<1>1. Init => TimersInv
  BY DEF Init, TimersInv, InOrder, DueTimersRan, NoOversleep
<1>2. Inv /\ TimersInv /\ [Next]_vars => TimersInv'
  BY TimersNext, Zenon DEF Inv
<1> QED BY <1>1, <1>2, Invariant, PTL DEF Spec

\* When fde_t_runloop stops no timer is due, in a thread with at most three
\* timers: the walk of fde_add_timeout keeps lists of that length in order.
\* With a fourth timer it does not (run fde_timers), so the bound is exact.
THEOREM NoTimerLeftDue == ASSUME FewTimers PROVE Spec => []DueTimersRan
BY TimersKept, PTL DEF TimersInv

\* In such a thread the kevent call does not sleep past the time of any
\* timer, but for the time the callbacks took, and not at all while a
\* callback is queued.
THEOREM SleepsInTime == ASSUME FewTimers PROVE Spec => []NoOversleep
BY TimersKept, PTL DEF TimersInv

-----------------------------------------------------------------------------
(* Registrations. *)

\* That no descriptor is reopened while a change names it need not be asked:
\* none is closed then.
CarefulOwners == Lax \subseteq {"reuse_pending"} /\ AddErrors = {}

\* What the kqueue, the change list and the event list hold, when owners
\* are careful.  No two active events share a key; descriptors with an active
\* event or a queued change are open; the change list is empty while the
\* thread waits; an entry of the event list is no error, names an event that
\* is not freed and, if one-shot, still active, and no other entry has its
\* key.
Lists ==
    /\ \A f, g \in active \cap Io : Key(f) = Key(g) => f = g
    /\ \A f \in active \cap Io : Filter[f] # "USER" => Ident[f] \in open
    /\ \A j \in DOMAIN pending : pending[j].key[2] # "USER" => pending[j].key[1] \in open
    /\ phase = "scan" => pending = <<>>
    /\ batch # <<>> => phase \in {"scan", "io"}

EventList ==
    /\ \A i \in DOMAIN batch :
         /\ batch[i].err = "OK" /\ batch[i].key = Key(batch[i].udata)
         /\ batch[i].udata \in alive
         /\ batch[i].udata \notin Persist => batch[i].udata \in active
    /\ \A i, j \in DOMAIN batch : batch[i].key = batch[j].key => i = j

\* reg[n] is what the kqueue will hold after the first n queued changes: each
\* of them drops the knote of its key or, when there is none, makes one.
\* kev.flags keeps the bits of earlier calls, so a change alone does not tell
\* which of the two it is.
Replays(reg) ==
    /\ reg \in [0..Len(pending) -> [Keys -> Io \cup {None}]]
    /\ reg[0] = knote
    /\ \A j \in DOMAIN pending :
         /\ reg[j - 1][pending[j].key] = None => "ADD" \in pending[j].flags
         /\ reg[j - 1][pending[j].key] # None => "DELETE" \in pending[j].flags
         /\ reg[j] = [reg[j - 1] EXCEPT ![pending[j].key] =
                         IF reg[j - 1][pending[j].key] = None THEN pending[j].udata ELSE None]

\* What kn, the kqueue after all queued changes, holds: every active event but
\* the one-shot ones in the event list, whose knotes are gone, and no other.
Settled(kn) ==
    /\ \A f \in active \cap Io :
         kn[Key(f)] = f \/ (f \notin Persist /\ \E i \in DOMAIN batch : batch[i].udata = f)
    /\ \A k \in Keys : kn[k] # None => kn[k] \in active \cap Io /\ Key(kn[k]) = k
    /\ \A i \in DOMAIN batch : batch[i].udata \notin Persist => kn[batch[i].key] = None

KqInv == /\ Lists /\ EventList
         /\ \E reg : Replays(reg) /\ Settled(reg[Len(pending)])

\* What a step has to leave alone to leave the invariant alone.
LEMMA KqUnmoved ==
  ASSUME KqInv, UNCHANGED <<pending, batch, knote>>, open \subseteq open',
         active' \cap Io = active \cap Io,
         \A i \in DOMAIN batch : batch[i].udata \in Io /\ batch[i].udata \in alive',
         phase' = "scan" => pending = <<>>,
         batch # <<>> => phase' \in {"scan", "io"}
  PROVE  KqInv'
<1>1. Lists'
  BY Zenon DEF KqInv, Lists
<1>2. EventList'
  BY Zenon DEF KqInv, EventList
<1>3. PICK reg : Replays(reg) /\ Settled(reg[Len(pending)])
  BY Zenon DEF KqInv
<1>4. Replays(reg)'
  BY <1>3, Zenon DEF Replays
<1>5. Settled(reg[Len(pending)])'
  BY <1>3, Zenon DEF Settled
<1> QED BY <1>1, <1>2, <1>4, <1>5, Zenon DEF KqInv

\* fde_kq_push adds one change to what will happen to the kqueue.
LEMMA PushReplays ==
  ASSUME TypeOK, NEW reg, Replays(reg), NEW f \in Io, NEW bits \in SUBSET {"ADD", "DELETE"},
         fde_kq_push(f, bits), knote' = knote,
         reg[Len(pending)][Key(f)] = None => "ADD" \in bits,
         reg[Len(pending)][Key(f)] # None => "DELETE" \in bits
  PROVE  \E reg2 : /\ Replays(reg2)'
                   /\ reg2[Len(pending')] = [reg[Len(pending)] EXCEPT ![Key(f)] =
                         IF reg[Len(pending)][Key(f)] = None THEN f ELSE None]
<1> DEFINE n == Len(pending)
           last == [reg[n] EXCEPT ![Key(f)] = IF reg[n][Key(f)] = None THEN f ELSE None]
           ch == [key |-> Key(f), udata |-> f, flags |-> kev[f] \cup bits]
           longer == [j \in 0..(n + 1) |-> IF j = n + 1 THEN last ELSE reg[j]]
<1>1. n \in Nat /\ DOMAIN pending = 1..n /\ pending \in Seq(Changes)
  BY LenProperties, Zenon DEF TypeOK
<1>2. ch \in Changes /\ pending' = Append(pending, ch)
  BY KeyProps, Zenon DEF TypeOK, Changes, fde_kq_push
<1>3. ch.key = Key(f) /\ ch.udata = f /\ bits \subseteq ch.flags
  BY Zenon
<1>4. last \in [Keys -> Io \cup {None}] /\ reg[n] \in [Keys -> Io \cup {None}]
  BY <1>1, KeyProps DEF Replays
<1> HIDE DEF ch, last, n
<1>5. /\ Len(pending') = n + 1 /\ DOMAIN pending' = 1..(n + 1)
      /\ pending'[n + 1] = ch /\ \A j \in 1..n : pending'[j] = pending[j]
  BY <1>1, <1>2, AppendProperties, LenProperties, SMTT(30) DEF n
<1>6. PICK reg2 : /\ reg2 \in [0..(n + 1) -> [Keys -> Io \cup {None}]]
                  /\ reg2[0] = reg[0] /\ reg2[n + 1] = last
                  /\ \A j \in 0..n : reg2[j] = reg[j]
  <2>1. /\ longer \in [0..(n + 1) -> [Keys -> Io \cup {None}]]
        /\ longer[0] = reg[0] /\ longer[n + 1] = last
        /\ \A j \in 0..n : longer[j] = reg[j]
    BY <1>1, <1>4 DEF Replays, n
  <2> QED BY <2>1, Zenon
<1>7. ASSUME NEW j \in 1..n
      PROVE  /\ reg2[j - 1][pending'[j].key] = None => "ADD" \in pending'[j].flags
             /\ reg2[j - 1][pending'[j].key] # None => "DELETE" \in pending'[j].flags
             /\ reg2[j] = [reg2[j - 1] EXCEPT ![pending'[j].key] =
                   IF reg2[j - 1][pending'[j].key] = None THEN pending'[j].udata ELSE None]
  <2>1. reg2[j] = reg[j] /\ reg2[j - 1] = reg[j - 1] /\ pending'[j] = pending[j]
    BY <1>1, <1>5, <1>6, SMTT(30)
  <2> QED BY <1>1, <2>1, Zenon DEF Replays
<1>8. /\ reg2[n][ch.key] = None => "ADD" \in ch.flags
      /\ reg2[n][ch.key] # None => "DELETE" \in ch.flags
      /\ reg2[n + 1] = [reg2[n] EXCEPT ![ch.key] = IF reg2[n][ch.key] = None THEN ch.udata ELSE None]
  BY <1>1, <1>3, <1>6 DEF last, n
<1>9. Replays(reg2)'
  <2>1. \A j \in 1..(n + 1) : j \in 1..n \/ (j = n + 1 /\ j - 1 = n)
    BY <1>1
  <2>2. ASSUME NEW j \in 1..(n + 1)
        PROVE  /\ reg2[j - 1][pending'[j].key] = None => "ADD" \in pending'[j].flags
               /\ reg2[j - 1][pending'[j].key] # None => "DELETE" \in pending'[j].flags
               /\ reg2[j] = [reg2[j - 1] EXCEPT ![pending'[j].key] =
                     IF reg2[j - 1][pending'[j].key] = None THEN pending'[j].udata ELSE None]
    BY <1>5, <1>7, <1>8, <2>1, Zenon
  <2>3. reg2[0] = knote'
    BY <1>6, Zenon DEF Replays
  <2> QED BY <1>5, <1>6, <2>2, <2>3, Zenon DEF Replays
<1> QED BY <1>5, <1>6, <1>9, Zenon DEF last, n

\* No change fails, and the kernel applying the first one leaves what will
\* happen after it.
LEMMA ChangeReplays ==
  ASSUME CarefulOwners, TypeOK, Lists, NEW reg, Replays(reg), pending # <<>>
  PROVE  /\ Answers(Head(pending)) = {"OK"}
         /\ Apply(Head(pending)) /\ pending' = Tail(pending) =>
               \E reg2 : Replays(reg2)' /\ reg2[Len(pending')] = reg[Len(pending)]
<1> DEFINE n == Len(pending)
           ch == Head(pending)
<1>1. n \in Nat \ {0} /\ DOMAIN pending = 1..n /\ pending \in Seq(Changes)
  BY LenProperties, EmptySeq, Zenon DEF TypeOK
<1>2. ch = pending[1] /\ ch \in Changes /\ 1 \in DOMAIN pending /\ 1 - 1 = 0
  BY <1>1, HeadTailProperties
<1> HIDE DEF n, ch
<1>3. /\ knote[ch.key] = None => "ADD" \in ch.flags
      /\ knote[ch.key] # None => "DELETE" \in ch.flags
      /\ reg[1] = [knote EXCEPT ![ch.key] = IF knote[ch.key] = None THEN ch.udata ELSE None]
  BY <1>2, Zenon DEF Replays
<1>4. Answers(ch) = {"OK"}
  BY <1>2, <1>3, Zenon DEF Answers, Lists, CarefulOwners
<1>5. ASSUME Apply(ch), pending' = Tail(pending)
      PROVE \E reg2 : Replays(reg2)' /\ reg2[Len(pending')] = reg[n]
  <2> DEFINE shorter == [j \in 0..(n - 1) |-> reg[j + 1]]
  <2>1. knote' = reg[1]
    BY <1>3, <1>5, Zenon DEF Apply
  <2>2. /\ Len(pending') = n - 1 /\ DOMAIN pending' = 1..(n - 1)
        /\ \A j \in 1..(n - 1) : pending'[j] = pending[j + 1]
    BY <1>1, <1>5, HeadTailProperties, LenProperties, Zenon DEF n
  <2>3. PICK reg2 : /\ reg2 \in [0..(n - 1) -> [Keys -> Io \cup {None}]]
                    /\ \A j \in 0..(n - 1) : reg2[j] = reg[j + 1]
    <3>1. /\ shorter \in [0..(n - 1) -> [Keys -> Io \cup {None}]]
          /\ \A j \in 0..(n - 1) : shorter[j] = reg[j + 1]
      BY <1>1 DEF Replays, n
    <3> QED BY <3>1, Zenon
  <2>4. ASSUME NEW j \in 1..(n - 1)
        PROVE  /\ reg2[j - 1][pending'[j].key] = None => "ADD" \in pending'[j].flags
               /\ reg2[j - 1][pending'[j].key] # None => "DELETE" \in pending'[j].flags
               /\ reg2[j] = [reg2[j - 1] EXCEPT ![pending'[j].key] =
                     IF reg2[j - 1][pending'[j].key] = None THEN pending'[j].udata ELSE None]
    <3>1. /\ reg2[j] = reg[j + 1] /\ reg2[j - 1] = reg[(j + 1) - 1]
          /\ pending'[j] = pending[j + 1] /\ j + 1 \in DOMAIN pending
      BY <1>1, <2>2, <2>3, SMTT(30)
    <3> QED BY <3>1, Zenon DEF Replays
  <2>5. reg2[0] = knote' /\ reg2[n - 1] = reg[n]
    BY <1>1, <2>1, <2>3
  <2>6. Replays(reg2)'
    BY <2>2, <2>3, <2>4, <2>5, Zenon DEF Replays
  <2> QED BY <2>2, <2>5, <2>6, Zenon
<1> QED BY <1>4, <1>5, Zenon DEF ch, n

\* Types the proofs below keep needing.
LEMMA BatchTypes ==
  ASSUME TypeOK PROVE \A i \in DOMAIN batch : batch[i].udata \in Io /\ batch[i].key \in Keys
<1>1. \A i \in DOMAIN batch : batch[i] \in Events
  BY LenProperties, ElementOfSeq, Zenon DEF TypeOK
<1> QED BY <1>1, Zenon DEF Events

LEMMA LastReplay ==
  ASSUME TypeOK, NEW reg, Replays(reg)
  PROVE  reg[Len(pending)] \in [Keys -> Io \cup {None}]
<1>1. Len(pending) \in 0..Len(pending)
  BY LenProperties DEF TypeOK
<1> QED BY <1>1, Zenon DEF Replays

\* The event list is empty where callbacks may delete or free any event.
LEMMA EmptyBatch ==
  ASSUME Control, KqInv, InHandler, phase # "io" PROVE batch = <<>> /\ phase # "scan"
BY Zenon DEF Control, KqInv, Lists, InHandler

\* What fde_kq_push does to the descriptors named by the change list.
LEMMA PushLists ==
  ASSUME TypeOK, Lists, NEW f \in Io, NEW bits \in SUBSET {"ADD", "DELETE"},
         fde_kq_push(f, bits), Filter[f] # "USER" => Ident[f] \in open
  PROVE  \A j \in DOMAIN pending' : pending'[j].key[2] # "USER" => pending'[j].key[1] \in open
<1> DEFINE ch == [key |-> Key(f), udata |-> f, flags |-> kev[f] \cup bits]
<1>1. ch \in Changes /\ pending' = Append(pending, ch)
  BY KeyProps, Zenon DEF TypeOK, Changes, fde_kq_push
<1>2. ch.key[2] # "USER" => ch.key[1] \in open
  BY Zenon DEF Key
<1> HIDE DEF ch
<1>3. \A j \in DOMAIN pending' : pending'[j] = ch \/ (j \in DOMAIN pending /\ pending'[j] = pending[j])
  BY <1>1, AppendProperties, LenProperties, SMTT(30) DEF TypeOK
<1> QED BY <1>2, <1>3, Zenon DEF Lists

\* fde_rw_add keeps the invariant: its key has no active event, so the change
\* makes a knote.
LEMMA KqAdd ==
  ASSUME TypeOK, Control, KqInv, NEW f \in Io, fde_rw_add(f)
  PROVE  KqInv'
<1>1. PICK reg : Replays(reg) /\ Settled(reg[Len(pending)])
  BY Zenon DEF KqInv
<1>a. PICK kn : kn = reg[Len(pending)]
  BY Zenon
<1>2. /\ InHandler /\ f \notin active /\ (Filter[f] # "USER" => Ident[f] \in open)
      /\ \A g \in (active \cap Io) \ {f} : Key(g) # Key(f)
      /\ active' = active \cup {f} /\ UNCHANGED <<alive, phase, batch, open, knote>>
      /\ fde_kq_push(f, {"ADD"}) /\ {"ADD"} \in SUBSET {"ADD", "DELETE"}
  BY Zenon DEF fde_rw_add
<1>3. kn \in [Keys -> Io \cup {None}] /\ Settled(kn)
  BY <1>1, <1>a, LastReplay, Zenon
<1>4. kn[Key(f)] = None
  BY <1>2, <1>3, KeyProps, Zenon DEF Settled
<1>5. PICK reg2 : Replays(reg2)' /\ reg2[Len(pending')] = [kn EXCEPT ![Key(f)] = f]
  <2>1. PICK r2 : /\ Replays(r2)'
                  /\ r2[Len(pending')] = [reg[Len(pending)] EXCEPT ![Key(f)] =
                        IF reg[Len(pending)][Key(f)] = None THEN f ELSE None]
    BY <1>1, <1>a, <1>2, <1>4, PushReplays, Zenon
  <2> QED BY <1>a, <1>4, <2>1, Zenon
<1>6. Lists'
  <2>1. \A j \in DOMAIN pending' : pending'[j].key[2] # "USER" => pending'[j].key[1] \in open'
    BY <1>2, PushLists, Zenon DEF KqInv
  <2>2. phase # "scan"
    BY <1>2, Zenon DEF Control, InHandler
  <2>3. \A g, h \in active' \cap Io : Key(g) = Key(h) => g = h
    BY <1>2, Zenon DEF KqInv, Lists
  <2>4. \A g \in active' \cap Io : Filter[g] # "USER" => Ident[g] \in open'
    BY <1>2, Zenon DEF KqInv, Lists
  <2> QED BY <1>2, <2>1, <2>2, <2>3, <2>4, Zenon DEF KqInv, Lists
<1>7. EventList'
  BY <1>2, Zenon DEF KqInv, EventList
<1>8. Settled([kn EXCEPT ![Key(f)] = f])'
  <2> DEFINE k2 == [kn EXCEPT ![Key(f)] = f]
  <2>1. k2[Key(f)] = f /\ \A k \in Keys \ {Key(f)} : k2[k] = kn[k]
    BY <1>3, KeyProps, Zenon
  <2> HIDE DEF k2
  <2>2. \A g \in active' \cap Io : g = f \/ (g \in active \cap Io /\ k2[Key(g)] = kn[Key(g)])
    BY <1>2, <2>1, KeyProps, SMTT(30)
  <2>3. ASSUME NEW g \in active' \cap Io
        PROVE  k2[Key(g)] = g \/ (g \notin Persist /\ \E i \in DOMAIN batch' : batch'[i].udata = g)
    BY <1>2, <1>3, <2>1, <2>2, Zenon DEF Settled
  <2>4. ASSUME NEW k \in Keys, k2[k] # None
        PROVE  k2[k] \in active' \cap Io /\ Key(k2[k]) = k
    BY <1>2, <1>3, <2>1, <2>4 DEF Settled
  <2>5. ASSUME NEW i \in DOMAIN batch, batch[i].udata \notin Persist PROVE k2[batch[i].key] = None
    <3>1. batch[i].udata \in Io
      BY BatchTypes, Zenon
    <3>2. batch[i].udata \in active /\ batch[i].key = Key(batch[i].udata)
      BY <2>5, Zenon DEF KqInv, EventList
    <3>3. k2[batch[i].key] = kn[batch[i].key]
      BY <1>2, <2>1, <3>1, <3>2, KeyProps, Zenon
    <3> QED BY <1>3, <2>5, <3>3, Zenon DEF Settled
  <2>6. Settled(kn) /\ batch' = batch
    BY <1>2, <1>3, Zenon
  <2> QED BY <2>3, <2>4, <2>5, <2>6, Zenon DEF Settled, k2
<1> QED BY <1>5, <1>6, <1>7, <1>8, Zenon DEF KqInv

\* fde_rw_delete keeps it: the event is registered, or will be by then, so
\* the change drops its knote.
LEMMA KqDelete ==
  ASSUME CarefulOwners, TypeOK, Control, KqInv, NEW f \in Io, NEW gone \in {{}, {f}},
         fde_rw_delete(f, gone), phase # "io" \/ (f \in Persist /\ gone = {})
  PROVE  KqInv'
<1>1. PICK reg : Replays(reg) /\ Settled(reg[Len(pending)])
  BY Zenon DEF KqInv
<1>a. PICK kn : kn = reg[Len(pending)]
  BY Zenon
<1>2. /\ InHandler /\ f \in active /\ f \in alive
      /\ active' = active \ {f} /\ alive' = alive \ gone
      /\ UNCHANGED <<phase, batch, open, knote>>
      /\ fde_kq_push(f, {"DELETE"}) /\ {"DELETE"} \in SUBSET {"ADD", "DELETE"}
  BY Zenon DEF fde_rw_delete, push_delete
<1>3. kn \in [Keys -> Io \cup {None}] /\ Settled(kn)
  BY <1>1, <1>a, LastReplay, Zenon
<1>4. batch = <<>> \/ (f \in Persist /\ gone = {})
  BY <1>2, EmptyBatch, Zenon
<1>5. kn[Key(f)] = f /\ kn[Key(f)] # None
  BY <1>2, <1>3, <1>4, KeyProps, SMTT(30) DEF Settled
<1>6. PICK reg2 : Replays(reg2)' /\ reg2[Len(pending')] = [kn EXCEPT ![Key(f)] = None]
  <2>1. PICK r2 : /\ Replays(r2)'
                  /\ r2[Len(pending')] = [reg[Len(pending)] EXCEPT ![Key(f)] =
                        IF reg[Len(pending)][Key(f)] = None THEN f ELSE None]
    BY <1>1, <1>a, <1>2, <1>5, PushReplays, Zenon
  <2> QED BY <1>a, <1>5, <2>1, Zenon
<1>7. Lists'
  <2>1. \A j \in DOMAIN pending' : pending'[j].key[2] # "USER" => pending'[j].key[1] \in open'
    BY <1>2, PushLists, Zenon DEF KqInv, Lists
  <2>2. phase # "scan"
    BY <1>2, Zenon DEF Control, InHandler
  <2> QED BY <1>2, <2>1, <2>2, Zenon DEF KqInv, Lists
<1>8. EventList'
  BY <1>2, <1>4, SMTT(30) DEF KqInv, EventList
<1>9. Settled([kn EXCEPT ![Key(f)] = None])'
  <2> DEFINE k2 == [kn EXCEPT ![Key(f)] = None]
  <2>1. k2[Key(f)] = None /\ \A k \in Keys \ {Key(f)} : k2[k] = kn[k]
    BY <1>3, KeyProps, Zenon
  <2> HIDE DEF k2
  <2>2. ASSUME NEW g \in active' \cap Io PROVE g \in active \cap Io /\ k2[Key(g)] = kn[Key(g)]
    <3>1. Key(g) # Key(f)
      BY <1>2, Zenon DEF KqInv, Lists
    <3> QED BY <1>2, <2>1, <3>1, KeyProps, Zenon
  <2>3. ASSUME NEW g \in active' \cap Io
        PROVE  k2[Key(g)] = g \/ (g \notin Persist /\ \E i \in DOMAIN batch' : batch'[i].udata = g)
    BY <1>2, <1>3, <2>2, Zenon DEF Settled
  <2>4. ASSUME NEW k \in Keys, k2[k] # None
        PROVE  k2[k] \in active' \cap Io /\ Key(k2[k]) = k
    BY <1>2, <1>3, <2>1, <2>4, Zenon DEF Settled
  <2>5. ASSUME NEW i \in DOMAIN batch, batch[i].udata \notin Persist PROVE k2[batch[i].key] = None
    <3>1. batch[i].udata \in Io /\ batch[i].key \in Keys
      BY BatchTypes, Zenon
    <3>2. kn[batch[i].key] = None
      BY <1>3, <2>5, Zenon DEF Settled
    <3> QED BY <2>1, <3>1, <3>2, Zenon
  <2> QED BY <1>2, <2>3, <2>4, <2>5, Zenon DEF Settled, k2
<1> QED BY <1>6, <1>7, <1>8, <1>9, Zenon DEF KqInv

\* The kernel applies the first queued change.
LEMMA KqApplied ==
  ASSUME CarefulOwners, TypeOK, KqInv, pending # <<>>, Apply(Head(pending)),
         pending' = Tail(pending), UNCHANGED <<alive, active, batch, open, phase>>
  PROVE  KqInv'
<1>1. PICK reg : Replays(reg) /\ Settled(reg[Len(pending)])
  BY Zenon DEF KqInv
<1>2. PICK reg2 : Replays(reg2)' /\ reg2[Len(pending')] = reg[Len(pending)]
  BY <1>1, ChangeReplays, Zenon DEF KqInv
<1>3. Settled(reg2[Len(pending)])'
  BY <1>1, <1>2, Zenon DEF Settled
<1>4. \A j \in DOMAIN pending' : j + 1 \in DOMAIN pending /\ pending'[j] = pending[j + 1]
  BY HeadTailProperties, LenProperties, EmptySeq, SMTT(30) DEF TypeOK
<1>5. Lists'
  BY <1>4 DEF KqInv, Lists
<1>6. EventList'
  BY Zenon DEF KqInv, EventList
<1> QED BY <1>2, <1>3, <1>5, <1>6, Zenon DEF KqInv

\* Closing a descriptor no active event and no queued change names.
LEMMA KqClose ==
  ASSUME CarefulOwners, TypeOK, KqInv, NEW d \in Fd, CloseFd(d)
  PROVE  KqInv'
<1>1. PICK reg : Replays(reg) /\ Settled(reg[Len(pending)])
  BY Zenon DEF KqInv
<1> DEFINE n == Len(pending)
           Closed(kn) == [k \in Keys |-> IF k[1] = d /\ k[2] # "USER" THEN None ELSE kn[k]]
           closed == [j \in 0..n |-> Closed(reg[j])]
<1>2. /\ \A f \in active \cap Io : Ident[f] # d
      /\ \A i \in DOMAIN pending : pending[i].key[1] # d
      /\ open' = open \ {d} /\ knote' = Closed(knote)
      /\ UNCHANGED <<alive, active, phase, pending, batch>>
  BY Zenon DEF CloseFd, CarefulOwners
<1>3. n \in Nat /\ DOMAIN pending = 1..n /\ n \in 0..n
  BY LenProperties DEF TypeOK
<1>4. \A j \in 1..n : j - 1 \in 0..n /\ j \in 0..n /\ pending[j] \in Changes
  BY <1>3, ElementOfSeq DEF TypeOK
<1>5. \A j \in 0..n : reg[j] \in [Keys -> Io \cup {None}]
  BY <1>1, Zenon DEF Replays
<1> HIDE DEF n
<1>6. PICK reg2 : reg2 \in [0..n -> [Keys -> Io \cup {None}]] /\ \A j \in 0..n : reg2[j] = Closed(reg[j])
  <2>1. closed \in [0..n -> [Keys -> Io \cup {None}]] /\ \A j \in 0..n : closed[j] = Closed(reg[j])
    BY <1>5, Zenon
  <2> QED BY <2>1, Zenon
<1> HIDE DEF closed
<1>7. Replays(reg2)'
  <2>1. reg2[0] = knote'
    BY <1>1, <1>2, <1>3, <1>6 DEF Replays
  <2>2. ASSUME NEW j \in 1..n
        PROVE  /\ reg2[j - 1][pending[j].key] = None => "ADD" \in pending[j].flags
               /\ reg2[j - 1][pending[j].key] # None => "DELETE" \in pending[j].flags
               /\ reg2[j] = [reg2[j - 1] EXCEPT ![pending[j].key] =
                     IF reg2[j - 1][pending[j].key] = None THEN pending[j].udata ELSE None]
    <3> DEFINE key == pending[j].key
               old == reg[j - 1]
    <3>1. /\ key \in Keys /\ key[1] # d /\ old \in [Keys -> Io \cup {None}]
          /\ reg2[j - 1] = Closed(old) /\ reg2[j] = Closed(reg[j])
      BY <1>2, <1>3, <1>4, <1>5, <1>6, Zenon DEF Changes
    <3>2. /\ old[key] = None => "ADD" \in pending[j].flags
          /\ old[key] # None => "DELETE" \in pending[j].flags
          /\ reg[j] = [old EXCEPT ![key] = IF old[key] = None THEN pending[j].udata ELSE None]
      BY <1>1, <1>3, Zenon DEF Replays
    <3> HIDE DEF key, old
    <3>3. Closed(old)[key] = old[key]
      BY <3>1, Zenon
    <3>4. Closed(reg[j]) = [Closed(old) EXCEPT ![key] =
             IF Closed(old)[key] = None THEN pending[j].udata ELSE None]
      BY <3>1, <3>2, <3>3, Zenon
    <3> QED BY <3>1, <3>2, <3>3, <3>4, Zenon DEF key
  <2> QED BY <1>2, <1>3, <1>6, <2>1, <2>2, ZenonT(30) DEF Replays, n
<1>8. Settled(reg2[n])'
  <2> DEFINE kn == reg[n]
  <2>1. /\ \A k \in Keys : reg2[n][k] = IF k[1] = d /\ k[2] # "USER" THEN None ELSE kn[k]
        /\ Settled(kn)
    BY <1>1, <1>3, <1>6 DEF n
  <2> HIDE DEF kn
  <2>2. \A f \in active \cap Io : Key(f) \in Keys /\ Key(f)[1] # d
    BY <1>2, KeyProps, Zenon DEF Key
  <2>3. \A i \in DOMAIN batch : batch[i].key \in Keys
    BY BatchTypes, Zenon
  <2>4. n' = n
    BY <1>2, Zenon DEF n
  <2> QED BY <1>2, <2>1, <2>2, <2>3, <2>4, Zenon DEF Settled
<1>9. Lists'
  <2>1. \A f \in active \cap Io : Filter[f] # "USER" => Ident[f] \in open'
    BY <1>2, Zenon DEF KqInv, Lists
  <2>2. \A j \in DOMAIN pending : pending[j].key[2] # "USER" => pending[j].key[1] \in open'
    BY <1>2, Zenon DEF KqInv, Lists
  <2> QED BY <1>2, <2>1, <2>2, Zenon DEF KqInv, Lists
<1>10. EventList'
  BY <1>2, Zenon DEF KqInv, EventList
<1>11. n' = Len(pending')
  BY Zenon DEF n
<1> QED BY <1>7, <1>8, <1>9, <1>10, <1>11, Zenon DEF KqInv

\* The kernel collects an event; a one-shot knote goes.
LEMMA KqCollect ==
  ASSUME TypeOK, QueuesAgree, KqInv, NEW k \in Keys, KqEvent(k)
  PROVE  KqInv'
<1> DEFINE f == knote[k]
           e == [key |-> k, err |-> "OK", udata |-> f]
           m == Len(batch)
<1>1. /\ phase = "scan" /\ f # None /\ batch' = Append(batch, e)
      /\ \A i \in DOMAIN batch : batch[i].err = "OK" => batch[i].key # k
      /\ knote' = IF f \in Persist THEN knote ELSE [knote EXCEPT ![k] = None]
      /\ UNCHANGED <<alive, active, phase, pending, open>>
  BY Zenon DEF KqEvent
<1>2. pending = <<>> /\ Len(pending) = 0
  BY <1>1, Zenon DEF KqInv, Lists
<1>3. Settled(knote)
  BY <1>2, Zenon DEF KqInv, Replays
<1>4. f \in active \cap Io /\ Key(f) = k /\ f \in alive
  BY <1>1, <1>3, Zenon DEF Settled, QueuesAgree
<1>5. e \in Events /\ e.key = k /\ e.err = "OK" /\ e.udata = f
  BY <1>4, Zenon DEF Events
<1> HIDE DEF e, f
<1>6. /\ m \in Nat /\ DOMAIN batch = 1..m /\ DOMAIN batch' = 1..(m + 1)
      /\ batch'[m + 1] = e /\ \A i \in 1..m : batch'[i] = batch[i]
  <2>1. batch \in Seq(Events) /\ e \in Events /\ batch' = Append(batch, e)
    BY <1>1, <1>5, Zenon DEF TypeOK
  <2>2. m \in Nat /\ DOMAIN batch = 1..m
    BY <2>1, LenProperties, Zenon DEF m
  <2> QED BY <2>1, <2>2, AppendProperties DEF m
<1> HIDE DEF m
<1>7. \A i \in DOMAIN batch' : (i \in DOMAIN batch /\ batch'[i] = batch[i]) \/ (i = m + 1 /\ batch'[i] = e)
  BY <1>6
<1>8. Lists'
  BY <1>1, <1>2, Zenon DEF KqInv, Lists
<1>9. EventList'
  <2>1. \A i \in DOMAIN batch' :
          /\ batch'[i].err = "OK" /\ batch'[i].key = Key(batch'[i].udata)
          /\ batch'[i].udata \in alive
          /\ batch'[i].udata \notin Persist => batch'[i].udata \in active
    BY <1>4, <1>5, <1>7, Zenon DEF KqInv, EventList
  <2>2. \A i \in DOMAIN batch : batch[i].key # k
    BY <1>1, Zenon DEF KqInv, EventList
  <2>3. \A i, j \in DOMAIN batch' : batch'[i].key = batch'[j].key => i = j
    BY <1>5, <1>7, <2>2, Zenon DEF KqInv, EventList
  <2> QED BY <1>1, <2>1, <2>3, Zenon DEF EventList
<1>10. PICK kn : kn = knote'
  BY Zenon
<1>11. kn \in [Keys -> Io \cup {None}] /\ (\A q \in Keys \ {k} : kn[q] = knote[q])
       /\ (f \in Persist => kn[k] = f) /\ (f \notin Persist => kn[k] = None)
  BY <1>1, <1>10, ZenonT(30) DEF TypeOK, f
<1>12. Settled(kn)'
  <2>1. ASSUME NEW g \in active \cap Io
        PROVE  kn[Key(g)] = g \/ (g \notin Persist /\ \E i \in DOMAIN batch' : batch'[i].udata = g)
    <3>1. CASE g = f
      BY <1>4, <1>5, <1>6, <1>11, <3>1, SMTT(30)
    <3>2. CASE g # f
      <4>1. Key(g) \in Keys /\ Key(g) # k
        BY <1>4, <3>2, KeyProps, Zenon DEF KqInv, Lists
      <4>2. \A i \in DOMAIN batch : i \in DOMAIN batch' /\ batch'[i] = batch[i]
        BY <1>6
      <4>3. kn[Key(g)] = knote[Key(g)]
        BY <1>11, <4>1, Zenon
      <4> QED BY <1>3, <4>2, <4>3, Zenon DEF Settled
    <3> QED BY <3>1, <3>2, Zenon
  <2>2. ASSUME NEW q \in Keys, kn[q] # None PROVE kn[q] \in active \cap Io /\ Key(kn[q]) = q
    BY <1>3, <1>4, <1>11, <2>2, Zenon DEF Settled
  <2>3. ASSUME NEW i \in DOMAIN batch', batch'[i].udata \notin Persist
        PROVE  kn[batch'[i].key] = None
    <3>1. CASE i = m + 1 /\ batch'[i] = e
      BY <1>5, <1>11, <2>3, <3>1, Zenon
    <3>2. CASE i \in DOMAIN batch /\ batch'[i] = batch[i]
      <4>1. batch[i].key \in Keys /\ knote[batch[i].key] = None
        BY <1>3, <2>3, <3>2, BatchTypes, Zenon DEF Settled
      <4>2. batch[i].key # k
        BY <1>1, <4>1, Zenon DEF f
      <4> QED BY <1>11, <3>2, <4>1, <4>2, Zenon
    <3> QED BY <1>7, <3>1, <3>2, Zenon
  <2> QED BY <1>1, <2>1, <2>2, <2>3, Zenon DEF Settled
<1>13. PICK reg2 : reg2 = [j \in 0..0 |-> kn]
  BY Zenon
<1>14. Replays(reg2)' /\ reg2[Len(pending')] = kn
  BY <1>1, <1>2, <1>10, <1>11, <1>13 DEF Replays
<1> QED BY <1>8, <1>9, <1>12, <1>14, Zenon DEF KqInv

\* The dispatch loop takes an entry: a one-shot event stops being active, and
\* its knote is gone already.
LEMMA KqDispatch ==
  ASSUME TypeOK, KqInv, fde_rw_runloop, batch # <<>>
  PROVE  KqInv'
<1> DEFINE e == Head(batch)
           f == e.udata
<1>1. PICK reg : Replays(reg) /\ Settled(reg[Len(pending)])
  BY Zenon DEF KqInv
<1>2. PICK kn : kn = reg[Len(pending)]
  BY Zenon
<1>3. /\ 1 \in DOMAIN batch /\ e = batch[1] /\ f \in Io /\ e.key \in Keys
      /\ \A i \in DOMAIN batch' : i + 1 \in DOMAIN batch /\ i + 1 # 1 /\ batch'[i] = batch[i + 1]
      /\ \A i \in DOMAIN batch : i = 1 \/ (i - 1 \in DOMAIN batch' /\ batch'[i - 1] = batch[i])
  <2>1. batch' = Tail(batch) /\ DOMAIN batch = 1..Len(batch) /\ Len(batch) \in Nat \ {0}
    BY LenProperties, EmptySeq, Zenon DEF TypeOK, fde_rw_runloop
  <2>2. /\ e \in Events /\ Len(batch') = Len(batch) - 1 /\ DOMAIN batch' = 1..(Len(batch) - 1)
        /\ \A i \in 1..(Len(batch) - 1) : batch'[i] = batch[i + 1]
    BY <2>1, HeadTailProperties, LenProperties DEF TypeOK
  <2>3. e = batch[1]
    BY <2>1, SMTT(30)
  <2> QED BY <2>1, <2>2, <2>3, SMTT(30) DEF Events
<1> HIDE DEF e
<1>4. /\ e.err = "OK" /\ e.key = Key(f)
      /\ f \notin Persist => f \in active /\ kn[Key(f)] = None
      /\ \A i \in DOMAIN batch : i # 1 => batch[i].key # Key(f)
  BY <1>1, <1>2, <1>3, SMTT(30) DEF KqInv, EventList, Settled
<1>5. /\ UNCHANGED <<alive, pending, knote, open, phase>>
      /\ active' = IF f \in Persist THEN active ELSE active \ {f}
  BY <1>4, Zenon DEF fde_rw_runloop, Delivers, Looked, StillActive, e
<1> HIDE DEF f
<1>6. Lists'
  BY <1>5, Zenon DEF KqInv, Lists
<1>7. EventList'
  <2>1. ASSUME NEW i \in DOMAIN batch'
        PROVE  /\ batch'[i].err = "OK" /\ batch'[i].key = Key(batch'[i].udata)
               /\ batch'[i].udata \in alive
               /\ batch'[i].udata \notin Persist => batch'[i].udata \in active'
    <3>1. i + 1 \in DOMAIN batch /\ batch'[i] = batch[i + 1] /\ batch[i + 1].key # Key(f)
      BY <1>3, <1>4, Zenon
    <3> QED BY <1>5, <3>1, Zenon DEF KqInv, EventList
  <2>2. ASSUME NEW i \in DOMAIN batch', NEW j \in DOMAIN batch', batch'[i].key = batch'[j].key
        PROVE  i = j
    <3>1. i + 1 = j + 1
      BY <1>3, <2>2 DEF KqInv, EventList
    <3>2. i \in Nat /\ j \in Nat
      BY LenProperties DEF TypeOK, fde_rw_runloop
    <3> QED BY <3>1, <3>2
  <2> QED BY <1>5, <2>1, <2>2, Zenon DEF EventList
<1>8. Settled(kn)'
  <2>1. Settled(kn)
    BY <1>1, <1>2, Zenon
  <2>2. ASSUME NEW g \in active' \cap Io
        PROVE  kn[Key(g)] = g \/ (g \notin Persist /\ \E i \in DOMAIN batch' : batch'[i].udata = g)
    <3>1. g \in active \cap Io /\ (g = f => f \in Persist)
      BY <1>5, Zenon
    <3>2. \A i \in DOMAIN batch : batch[i].udata = g /\ g \notin Persist => i # 1
      BY <1>3, <3>1, Zenon DEF f
    <3>3. \A i \in DOMAIN batch : batch[i].udata = g /\ g \notin Persist =>
             \E j \in DOMAIN batch' : batch'[j].udata = g
      BY <1>3, <3>2, Zenon
    <3> QED BY <2>1, <3>1, <3>3, Zenon DEF Settled
  <2>3. ASSUME NEW k \in Keys, kn[k] # None PROVE kn[k] \in active' \cap Io /\ Key(kn[k]) = k
    BY <1>4, <1>5, <2>1, <2>3, SMTT(30) DEF Settled
  <2>4. \A i \in DOMAIN batch' : batch'[i].udata \notin Persist => kn[batch'[i].key] = None
    BY <1>3, <2>1, SMTT(30) DEF Settled
  <2> QED BY <2>2, <2>3, <2>4, Zenon DEF Settled
<1>9. Replays(reg)' /\ reg[Len(pending')] = kn
  BY <1>1, <1>2, <1>5, Zenon DEF Replays
<1> QED BY <1>6, <1>7, <1>8, <1>9, Zenon DEF KqInv

\* Every step keeps the registrations right.
LEMMA KqNext ==
  ASSUME CarefulOwners, TypeOK, Control, QueuesAgree, KqInv, [Next]_vars
  PROVE  KqInv'
<1> USE EventAssumption
<1>a. InHandler => phase # "scan" /\ (batch # <<>> => phase = "io")
  BY Zenon DEF Control, InHandler, KqInv, Lists
<1>b. /\ \A i \in DOMAIN batch : batch[i].udata \in Io /\ batch[i].udata \in alive
      /\ phase = "scan" => pending = <<>>
      /\ batch # <<>> => phase \in {"scan", "io"}
  BY BatchTypes, Zenon DEF KqInv, EventList, Lists
<1>c. \A i \in DOMAIN batch : batch # <<>>
  BY DEF TypeOK
<1>1. CASE /\ UNCHANGED <<pending, batch, knote, open, phase>> /\ active' \cap Io = active \cap Io
           /\ alive \cap Io \subseteq alive'
  BY <1>1, <1>b, KqUnmoved, Zenon
<1>2. ASSUME NEW f \in Event, fde_create(f) PROVE KqInv'
  BY <1>1, <1>2, Zenon DEF fde_create
<1>3. ASSUME NEW f \in Event, MayFree(f), free(f) PROVE KqInv'
  <2>1. f \in Io => batch = <<>>
    BY <1>a, <1>3, Zenon DEF MayFree, CarefulOwners, free
  <2>2. \A i \in DOMAIN batch : batch[i].udata \in Io /\ batch[i].udata \in alive'
    BY <1>3, <1>b, <1>c, <2>1, Zenon DEF free
  <2> QED BY <1>3, <1>b, <2>2, KqUnmoved, Zenon DEF free, kqVars
<1>4. ASSUME NEW f \in Cb, NEW gone \in {{}, {f}}, fde_cb_add(f) \/ fde_cb_delete(f, gone)
      PROVE KqInv'
  <2>1. /\ UNCHANGED <<pending, batch, knote, open, phase>>
        /\ active' = active \cup {f} \/ active' = active \ {f}
        /\ alive \ {f} \subseteq alive'
    BY <1>4, Zenon DEF fde_cb_add, fde_cb_delete, kqVars
  <2> QED BY <1>1, <2>1, Zenon
<1>5. ASSUME NEW f \in Timer, NEW t, fde_add_timeout(f, t) PROVE KqInv'
  <2>1. /\ UNCHANGED <<pending, batch, knote, open, phase, alive>> /\ active' = active \cup {f}
    BY <1>5, Zenon DEF fde_add_timeout, kqVars
  <2> QED BY <1>1, <2>1, Zenon
<1>6. ASSUME NEW f \in Timer, NEW gone \in {{}, {f}}, fde_t_delete(f, gone) PROVE KqInv'
  <2>1. /\ UNCHANGED <<pending, batch, knote, open, phase>>
        /\ active' = active \ {f} /\ alive \ {f} \subseteq alive'
    BY <1>6, Zenon DEF fde_t_delete, kqVars
  <2> QED BY <1>1, <2>1, Zenon
<1>7. ASSUME NEW f \in Io, fde_rw_add(f) PROVE KqInv'
  BY <1>7, KqAdd, Zenon
<1>8. ASSUME NEW f \in Io, MayDelete(f) /\ fde_rw_delete(f, {}) PROVE KqInv'
  BY <1>8, KqDelete, Zenon DEF MayDelete, CarefulOwners
<1>9. ASSUME NEW f \in Io, MayFree(f) /\ fde_rw_delete(f, {f}) PROVE KqInv'
  BY <1>9, KqDelete, Zenon DEF MayFree, CarefulOwners
<1>10. ASSUME NEW d \in Fd, CloseFd(d) PROVE KqInv'
  BY <1>10, KqClose, Zenon
<1>11. ASSUME NEW d \in Fd, OpenFd(d) PROVE KqInv'
  <2>1. /\ UNCHANGED <<pending, batch, knote, phase, alive, active>> /\ open \subseteq open'
    BY <1>11, Zenon DEF OpenFd
  <2> QED BY <1>b, <2>1, KqUnmoved, Zenon
<1>12. CASE SetupDone \/ RunloopStart
  <2>1. UNCHANGED <<pending, batch, knote, open, alive, active>> /\ phase' # "scan"
        /\ batch = <<>>
    BY <1>12, Zenon DEF SetupDone, RunloopStart, kqVars, Control
  <2> QED BY <1>b, <2>1, KqUnmoved, Zenon
<1>13. CASE fde_cb_runloop
  <2>1. CASE CbReady
    <3>1. Head(cbq) \in Cb
      BY <2>1, HeadTailProperties, Zenon DEF CbReady, TypeOK
    <3>2. UNCHANGED <<pending, batch, knote, open, alive, phase>> /\ active' = active \ {Head(cbq)}
      BY <1>13, <2>1, Zenon DEF fde_cb_runloop, kqVars
    <3> QED BY <1>1, <3>1, <3>2, Zenon
  <2>2. CASE ~CbReady
    <3>1. UNCHANGED <<pending, batch, knote, open, alive, active>> /\ phase' = "timer" /\ batch = <<>>
      BY <1>13, <2>2 DEF fde_cb_runloop, kqVars, Control
    <3> QED BY <1>b, <3>1, KqUnmoved, Zenon
  <2> QED BY <2>1, <2>2, Zenon
<1>14. CASE fde_t_runloop
  <2>1. CASE TimerReady
    <3>1. Head(tq) \in Timer
      BY <2>1, HeadTailProperties, Zenon DEF TimerReady, TypeOK
    <3>2. UNCHANGED <<pending, batch, knote, open, alive, phase>> /\ active' = active \ {Head(tq)}
      BY <1>14, <2>1, Zenon DEF fde_t_runloop, kqVars
    <3> QED BY <1>1, <3>1, <3>2, Zenon
  <2>2. CASE ~TimerReady
    <3>1. UNCHANGED <<pending, batch, knote, open, alive, active>> /\ phase' = "change" /\ batch = <<>>
      BY <1>14, <2>2, Zenon DEF fde_t_runloop, kqVars, Control
    <3> QED BY <1>b, <3>1, KqUnmoved, Zenon
  <2> QED BY <2>1, <2>2
<1>15. PICK reg : Replays(reg)
  BY Zenon DEF KqInv
<1>16. CASE fde_kq_flush
  <2>1. pending # <<>>
    BY <1>16, EmptySeq, SMTT(30) DEF TypeOK, Control, InFlush, fde_kq_flush
  <2>2. Answers(Head(pending)) = {"OK"}
    BY <1>15, <2>1, ChangeReplays, Zenon DEF KqInv
  <2> QED BY <1>16, <2>1, <2>2, KqApplied, SMTT(30) DEF fde_kq_flush
<1>17. CASE KqChange
  <2>1. CASE pending # <<>>
    <3>1. Answers(Head(pending)) = {"OK"}
      BY <1>15, <2>1, ChangeReplays, Zenon DEF KqInv
    <3>2. /\ Apply(Head(pending)) /\ pending' = Tail(pending)
          /\ UNCHANGED <<alive, active, batch, open, phase>>
      BY <1>17, <2>1, <3>1, ZenonT(30) DEF KqChange
    <3> QED BY <2>1, <3>2, KqApplied, Zenon
  <2>2. CASE pending = <<>>
    <3>1. UNCHANGED <<pending, batch, knote, open, alive, active>> /\ phase' = "scan"
      BY <1>17, <2>2, Zenon DEF KqChange
    <3> QED BY <1>b, <2>2, <3>1, KqUnmoved, Zenon
  <2> QED BY <2>1, <2>2, Zenon
<1>18. CASE KqReturn
  <2>1. UNCHANGED <<pending, batch, knote, open, alive, active>> /\ phase' = "io"
    BY <1>18, Zenon DEF KqReturn, kqVars
  <2> QED BY <1>b, <2>1, KqUnmoved, Zenon
<1>19. CASE fde_rw_runloop
  <2>1. CASE batch # <<>>
    BY <1>19, <2>1, KqDispatch, Zenon
  <2>2. CASE batch = <<>>
    <3>1. UNCHANGED <<pending, batch, knote, open, alive, active>> /\ phase' = "top"
      BY <1>19, <2>2, Zenon DEF fde_rw_runloop
    <3> QED BY <1>b, <2>2, <3>1, KqUnmoved, Zenon
  <2> QED BY <2>1, <2>2
<1>20. CASE Return \/ Tick \/ UNCHANGED vars
  BY <1>1, <1>20, Zenon DEF Return, Tick, vars, kqVars
<1>21. ASSUME NEW k \in Keys, KqEvent(k) PROVE KqInv'
  BY <1>21, KqCollect, Zenon
<1>22. ASSUME NEW f \in Io, fde_ue_push(f) PROVE KqInv'
  BY <1>1, <1>22 DEF fde_ue_push
<1> QED
  BY <1>2, <1>3, <1>4, <1>5, <1>6, <1>7, <1>8, <1>9, <1>10, <1>11, <1>12, <1>13,
     <1>14, <1>16, <1>17, <1>18, <1>19, <1>20, <1>21, <1>22, Zenon, Zenon, Zenon DEF Next, Call, Step

\* With careful owners the kqueue, the change list and the event list agree
\* with is_active at every step.
LEMMA KqKept == ASSUME CarefulOwners PROVE Spec => []KqInv
<1>1. Init => KqInv
  <2> SUFFICES ASSUME Init PROVE KqInv
    BY Zenon
  <2>1. PICK reg : reg = [j \in 0..0 |-> knote]
    BY Zenon
  <2>2. Replays(reg) /\ reg[Len(pending)] = knote
    BY <2>1 DEF Init, Replays
  <2>3. Settled(knote)
    BY DEF Init, Settled
  <2>4. Lists /\ EventList
    BY DEF Init, Lists, EventList
  <2> QED BY <2>2, <2>3, <2>4, Zenon DEF KqInv
<1>2. Inv /\ KqInv /\ [Next]_vars => KqInv'
  BY KqNext DEF Inv
<1> QED BY <1>1, <1>2, Invariant, PTL DEF Spec

\* While the thread waits the kqueue holds what the change list led to.
LEMMA WaitingSettled == ASSUME KqInv, phase = "scan" PROVE Settled(knote)
<1>1. pending = <<>> /\ Len(pending) = 0
  BY Zenon DEF KqInv, Lists
<1> QED BY <1>1, Zenon DEF KqInv, Replays

\* While the thread waits in kevent every active event is registered under its
\* own address, or collected already, for any events, sharing of descriptors
\* and size of the change list: bits that kev.flags keeps from earlier calls
\* and changes flushed early do no harm, as long as the owners keep their
\* duties and no registration fails.
THEOREM ActiveAreRegistered == ASSUME CarefulOwners PROVE Spec => []ActiveRegistered
<1>1. KqInv => ActiveRegistered
  <2> SUFFICES ASSUME KqInv, phase = "scan", NEW f \in active \cap Io,
                      knote[Key(f)] # f
               PROVE  \E i \in DOMAIN batch : batch[i].udata = f /\ Looked(batch[i])
    BY Zenon DEF ActiveRegistered
  <2> QED BY WaitingSettled, Zenon DEF Settled, KqInv, EventList, Looked
<1> QED BY <1>1, KqKept, PTL

\* Under the same conditions fde_free leaves nothing behind: no knote of a
\* waiting thread and no entry of the event list leads to freed memory.
THEOREM NothingLeftQueued == ASSUME CarefulOwners PROVE Spec => []FreeRemovesQueued
<1>1. Inv /\ KqInv => FreeRemovesQueued
  <2> SUFFICES ASSUME Inv, KqInv PROVE FreeRemovesQueued
    BY Zenon
  <2>1. phase = "scan" => \A k \in Keys : knote[k] \in alive \cup {None}
    BY WaitingSettled, Zenon DEF Settled, Inv, QueuesAgree
  <2>2. \A i \in DOMAIN batch : batch[i].udata \in alive
    BY Zenon DEF KqInv, EventList
  <2> QED BY <2>1, <2>2, Zenon DEF FreeRemovesQueued
<1> QED BY <1>1, KqKept, Invariant, PTL
=============================================================================
