----------------------------- MODULE FdeProofs ------------------------------
(* Proofs about Fde, for any number of events and any size of its arrays:   *)
(* the lists agree with is_active, the change list fits its array, what the *)
(* control points know, the generations and what a pass over the callbacks  *)
(* runs, and that Fde implements EventApi.                                  *)
EXTENDS Fde, ListLemmas, SequenceTheorems, TLAPS

-----------------------------------------------------------------------------
(* Lists. *)

\* TAILQ_REMOVE leaves the other entries, each once and in their order.
LEMMA UnlinkedProps ==
  ASSUME NEW S, NEW q \in Seq(S), Once(q), NEW f, NEW q2, Unlinked(q, f, q2)
  PROVE  /\ q2 \in Seq(S)
         /\ Once(q2)
         /\ Range(q2) = Range(q) \ {f}
         /\ \A j, k \in DOMAIN q2 : j < k =>
               \E m, n \in DOMAIN q : m < n /\ q2[j] = q[m] /\ q2[k] = q[n]
<1>1. PICK i \in DOMAIN q : q[i] = f /\ q2 = RemoveAt(q, i)
  BY Zenon DEF Unlinked
<1>2. /\ DOMAIN q = 1..Len(q) /\ Len(q) \in Nat /\ i \in Nat
  BY LenProperties
<1>3. /\ q2 \in Seq(S) /\ DOMAIN q2 = 1..(Len(q) - 1)
      /\ \A j \in DOMAIN q2 : q2[j] = IF j < i THEN q[j] ELSE q[j + 1]
  BY <1>1, <1>2, RemoveAtProps, LenProperties, SMTT(30)
<1>4. Once(q2)
  BY <1>2, <1>3 DEF Once
<1>5. Range(q2) = Range(q) \ {f}
  <2>1. ASSUME NEW j \in DOMAIN q2 PROVE q2[j] \in Range(q) \ {f}
    BY <1>1, <1>2, <1>3 DEF Once, Range
  <2>2. ASSUME NEW j \in DOMAIN q, q[j] # f PROVE q[j] \in Range(q2)
    <3>1. CASE j < i
      <4>1. j \in DOMAIN q2 /\ q2[j] = q[j] BY <1>2, <1>3, <3>1
      <4> QED BY <4>1, Zenon DEF Range
    <3>2. CASE j > i
      <4>1. j - 1 \in DOMAIN q2 /\ q2[j - 1] = q[j] BY <1>2, <1>3, <3>2
      <4> QED BY <4>1, Zenon DEF Range
    <3> QED BY <1>1, <1>2, <2>2, <3>1, <3>2
  <2> QED BY <2>1, <2>2, Zenon DEF Range
<1>6. ASSUME NEW j \in DOMAIN q2, NEW k \in DOMAIN q2, j < k
      PROVE \E m, n \in DOMAIN q : m < n /\ q2[j] = q[m] /\ q2[k] = q[n]
  <2> DEFINE m == IF j < i THEN j ELSE j + 1
             n == IF k < i THEN k ELSE k + 1
  <2>1. m \in DOMAIN q /\ n \in DOMAIN q /\ m < n /\ q2[j] = q[m] /\ q2[k] = q[n]
    BY <1>2, <1>3, <1>6
  <2> QED BY <2>1, Zenon
<1> QED BY <1>3, <1>4, <1>5, <1>6, Zenon

\* The same for the entry fde_cb_runloop and fde_t_runloop take off the front.
LEMMA TailProps ==
  ASSUME NEW S, NEW q \in Seq(S), q # <<>>, Once(q)
  PROVE  /\ Tail(q) \in Seq(S) /\ Once(Tail(q))
         /\ Head(q) \in S /\ Head(q) = q[1] /\ 1 \in DOMAIN q
         /\ Range(Tail(q)) = Range(q) \ {Head(q)}
         /\ \A j \in DOMAIN Tail(q) : j + 1 \in DOMAIN q /\ Tail(q)[j] = q[j + 1]
<1>1. /\ Head(q) \in S /\ Tail(q) \in Seq(S) /\ Len(Tail(q)) = Len(q) - 1
      /\ \A j \in 1..Len(Tail(q)) : Tail(q)[j] = q[j + 1]
  BY HeadTailProperties, Zenon
<1>2. DOMAIN q = 1..Len(q) /\ Len(q) \in Nat \ {0} /\ DOMAIN Tail(q) = 1..(Len(q) - 1)
  BY <1>1, LenProperties, EmptySeq, Zenon
<1>3. Head(q) = q[1] /\ 1 \in DOMAIN q
  BY <1>2
<1>4. Once(Tail(q))
  BY <1>1, <1>2 DEF Once
<1>5. Range(Tail(q)) = Range(q) \ {Head(q)}
  <2>1. ASSUME NEW j \in DOMAIN Tail(q) PROVE Tail(q)[j] \in Range(q) \ {Head(q)}
    BY <1>1, <1>2, <1>3 DEF Once, Range
  <2>2. ASSUME NEW j \in DOMAIN q, q[j] # Head(q) PROVE q[j] \in Range(Tail(q))
    <3>1. j - 1 \in DOMAIN Tail(q) /\ Tail(q)[j - 1] = q[j]
      BY <1>1, <1>2, <1>3, <2>2
    <3> QED BY <3>1, Zenon DEF Range
  <2> QED BY <2>1, <2>2, Zenon DEF Range
<1> QED BY <1>1, <1>2, <1>3, <1>4, <1>5

\* TAILQ_INSERT_TAIL of an entry that is not linked yet.
LEMMA AppendProps ==
  ASSUME NEW S, NEW q \in Seq(S), Once(q), NEW f \in S, f \notin Range(q)
  PROVE  /\ Append(q, f) \in Seq(S)
         /\ Once(Append(q, f))
         /\ Range(Append(q, f)) = Range(q) \cup {f}
         /\ DOMAIN Append(q, f) = 1..(Len(q) + 1)
         /\ \A j \in DOMAIN q : j < Len(q) + 1 /\ Append(q, f)[j] = q[j]
         /\ Append(q, f)[Len(q) + 1] = f
<1>1. /\ Append(q, f) \in Seq(S) /\ Len(Append(q, f)) = Len(q) + 1
      /\ \A j \in 1..Len(q) : Append(q, f)[j] = q[j]
      /\ Append(q, f)[Len(q) + 1] = f
  BY AppendProperties
<1>2. DOMAIN q = 1..Len(q) /\ Len(q) \in Nat /\ DOMAIN Append(q, f) = 1..(Len(q) + 1)
  BY <1>1, LenProperties, Zenon
<1>3. Once(Append(q, f))
  BY <1>1, <1>2 DEF Once, Range
<1>4. Range(Append(q, f)) = Range(q) \cup {f}
  BY <1>1, <1>2 DEF Range
<1> QED BY <1>1, <1>2, <1>3, <1>4

\* Linking an entry between the first n of a list and the rest.
LEMMA InsertAtProps ==
  ASSUME NEW S, NEW q \in Seq(S), Once(q), NEW f \in S, f \notin Range(q),
         NEW n \in 0..Len(q)
  PROVE  /\ InsertAt(q, n + 1, f) \in Seq(S)
         /\ Once(InsertAt(q, n + 1, f))
         /\ Range(InsertAt(q, n + 1, f)) = Range(q) \cup {f}
         /\ DOMAIN InsertAt(q, n + 1, f) = 1..(Len(q) + 1)
         /\ \A j \in 1..(Len(q) + 1) : InsertAt(q, n + 1, f)[j] =
               IF j <= n THEN q[j] ELSE IF j = n + 1 THEN f ELSE q[j - 1]
<1> DEFINE a == SubSeq(q, 1, n)
           b == SubSeq(q, n + 1, Len(q))
           r == InsertAt(q, n + 1, f)
<1>1. DOMAIN q = 1..Len(q) /\ Len(q) \in Nat /\ \A j \in 1..Len(q) : q[j] \in S
  BY LenProperties, ElementOfSeq, Zenon
<1>2. a \in Seq(S) /\ Len(a) = n /\ \A j \in 1..n : a[j] = q[j]
  BY <1>1, SubSeqProperties
<1>3. b \in Seq(S) /\ Len(b) = Len(q) - n /\ \A j \in 1..(Len(q) - n) : b[j] = q[n + j]
  <2>1. \A j \in (n + 1)..Len(q) : q[j] \in S
    BY <1>1
  <2> HIDE DEF a, r
  <2>2. /\ b \in Seq(S)
        /\ Len(b) = IF n + 1 <= Len(q) THEN Len(q) - (n + 1) + 1 ELSE 0
        /\ \A j \in 1..(Len(q) - (n + 1) + 1) : b[j] = q[(n + 1) + j - 1]
    BY <1>1, <2>1, SubSeqProperties
  <2> HIDE DEF b
  <2>3. Len(b) = Len(q) - n
    <3>1. n \in Nat /\ n <= Len(q) /\ Len(q) \in Nat
      BY <1>1
    <3>2. Len(b) = IF n + 1 <= Len(q) THEN Len(q) - (n + 1) + 1 ELSE 0
      BY <2>2, Zenon
    <3> QED BY <3>1, <3>2
  <2>4. ASSUME NEW j \in 1..(Len(q) - n) PROVE b[j] = q[n + j]
    <3>1. j \in 1..(Len(q) - (n + 1) + 1) /\ (n + 1) + j - 1 = n + j
      BY <1>1
    <3>2. b[j] = q[(n + 1) + j - 1]
      BY <2>2, <3>1, Zenon
    <3> QED BY <3>1, <3>2, Zenon
  <2> QED BY <2>2, <2>3, <2>4, Zenon
<1>4. r = (a \o <<f>>) \o b
  <2>1. (n + 1) - 1 = n
    BY <1>1
  <2> QED BY <2>1, Zenon DEF InsertAt
<1> HIDE DEF a, b, r
<1>5. /\ a \o <<f>> \in Seq(S) /\ Len(a \o <<f>>) = n + 1
      /\ \A j \in 1..n : (a \o <<f>>)[j] = q[j]
      /\ (a \o <<f>>)[n + 1] = f
  BY <1>2, AppendProperties, AppendIsConcat
<1>6. /\ r \in Seq(S) /\ Len(r) = Len(q) + 1
      /\ \A j \in 1..(Len(q) + 1) :
            r[j] = IF j <= n + 1 THEN (a \o <<f>>)[j] ELSE b[j - (n + 1)]
  BY <1>1, <1>3, <1>4, <1>5, ConcatProperties, SMTT(30)
<1>7. /\ DOMAIN r = 1..(Len(q) + 1) /\ r[n + 1] = f
      /\ \A j \in 1..n : r[j] = q[j]
      /\ \A j \in (n + 2)..(Len(q) + 1) : r[j] = q[j - 1]
  <2>1. ASSUME NEW j \in (n + 2)..(Len(q) + 1) PROVE r[j] = q[j - 1]
    <3>1. j - (n + 1) \in 1..(Len(q) - n) /\ n + (j - (n + 1)) = j - 1
      BY <1>1
    <3>2. r[j] = b[j - (n + 1)]
      BY <1>1, <1>6
    <3> QED BY <1>3, <3>1, <3>2, Zenon
  <2>2. DOMAIN r = 1..(Len(q) + 1)
    BY <1>6, LenProperties, Zenon
  <2>3. ASSUME NEW j \in 1..(n + 1) PROVE r[j] = (a \o <<f>>)[j]
    <3>1. j \in 1..(Len(q) + 1) /\ j <= n + 1
      BY <1>1
    <3> QED BY <1>6, <3>1, Zenon
  <2>4. r[n + 1] = f
    BY <1>5, <2>3
  <2>5. \A j \in 1..n : r[j] = q[j]
    BY <1>5, <2>3
  <2> QED BY <2>1, <2>2, <2>4, <2>5, Zenon
<1>8. Once(r)
  <2> SUFFICES ASSUME NEW j \in DOMAIN r, NEW k \in DOMAIN r, r[j] = r[k], j < k
               PROVE FALSE
    BY <1>1, <1>7 DEF Once
  <2>1. \A m \in DOMAIN q : q[m] # f
    BY Zenon DEF Range
  <2>2. CASE j = n + 1
    BY <1>1, <1>7, <2>1, <2>2
  <2>3. CASE k = n + 1
    BY <1>1, <1>7, <2>1, <2>3, SMTT(30)
  <2>4. CASE k <= n
    BY <1>1, <1>7, <2>4 DEF Once
  <2>5. CASE j <= n /\ k > n + 1
    <3>1. r[j] = q[j] /\ r[k] = q[k - 1] /\ j \in DOMAIN q /\ k - 1 \in DOMAIN q /\ j # k - 1
      BY <1>1, <1>7, <2>5
    <3> QED BY <3>1, Zenon DEF Once
  <2>6. CASE j > n + 1
    <3>1. r[j] = q[j - 1] /\ r[k] = q[k - 1] /\ j - 1 \in DOMAIN q /\ k - 1 \in DOMAIN q /\ j - 1 # k - 1
      BY <1>1, <1>7, <2>6, SMTT(30)
    <3> QED BY <3>1, Zenon DEF Once
  <2> QED BY <1>1, <1>7, <2>2, <2>3, <2>4, <2>5, <2>6, SMTT(30)
<1>9. Range(r) = Range(q) \cup {f}
  <2>1. ASSUME NEW j \in DOMAIN r PROVE r[j] \in Range(q) \cup {f}
    <3>1. CASE j <= n + 1
      BY <1>1, <1>7, <3>1 DEF Range
    <3>2. CASE j > n + 1
      <4>1. r[j] = q[j - 1] /\ j - 1 \in DOMAIN q
        BY <1>1, <1>7, <3>2
      <4> QED BY <4>1, Zenon DEF Range
    <3> QED BY <1>1, <1>7, <3>1, <3>2, SMTT(30)
  <2>2. ASSUME NEW j \in DOMAIN q PROVE q[j] \in Range(r)
    <3>1. CASE j <= n
      <4>1. r[j] = q[j] /\ j \in DOMAIN r
        BY <1>1, <1>7, <3>1
      <4> QED BY <4>1, Zenon DEF Range
    <3>2. CASE j > n
      <4>1. r[j + 1] = q[j] /\ j + 1 \in DOMAIN r
        BY <1>1, <1>7, <3>2, SMTT(30)
      <4> QED BY <4>1, Zenon DEF Range
    <3> QED BY <1>1, <3>1, <3>2
  <2>3. f \in Range(r)
    BY <1>1, <1>7 DEF Range
  <2> QED BY <2>1, <2>2, <2>3, Zenon DEF Range
<1>10. ASSUME NEW j \in 1..(Len(q) + 1)
       PROVE r[j] = IF j <= n THEN q[j] ELSE IF j = n + 1 THEN f ELSE q[j - 1]
  BY <1>1, <1>7
<1> QED BY <1>6, <1>7, <1>8, <1>9, <1>10, Zenon DEF r

\* fde_add_timeout finds a place in the list.
LEMMA TimersBeforeProps ==
  ASSUME TypeOK, NEW t \in Time
  PROVE  TimersBefore(tq, t) \in 0..Len(tq)
<1>1. tq \in Seq(Timer) /\ DOMAIN tq = 1..Len(tq) /\ Len(tq) \in Nat
  BY LenProperties, Zenon DEF TypeOK
<1>2. CASE tq = <<>> \/ t <= tv[Head(tq)]
  BY <1>1, <1>2 DEF TimersBefore
<1>3. CASE ~(tq = <<>> \/ t <= tv[Head(tq)])
  <2>1. 1 \in DOMAIN tq /\ Head(tq) = tq[1] /\ tq[1] \in Timer
    BY <1>1, <1>3, EmptySeq, ElementOfSeq, SMTT(30)
  <2>2. tv[tq[1]] \in Int /\ t \in Int
    BY <2>1 DEF TypeOK, Event, Time
  <2>3. t > tv[tq[1]] /\ \A j \in 1..(1 - 1) : t <= tv[tq[j]]
    BY <1>3, <2>1, <2>2
  <2> QED BY <1>1, <1>3, <2>1, <2>3, SMTT(30) DEF TimersBefore
<1> QED BY <1>2, <1>3, Zenon

-----------------------------------------------------------------------------
(* The invariant. *)

\* What the control points of the loop know.  Callbacks run in three places;
\* fde_kq_flush is under way only inside a call, with the change that found
\* the array full behind the ones being flushed; the event list is empty
\* outside fde_rw_runloop; and during a pass over the callbacks the counter
\* is ahead of cur_genid, so callbacks queued now carry another tag.
InFlush == (running # None \/ phase = "setup") /\ Len(pending) = flush + 1

Control ==
    /\ running # None => phase \in {"cb", "timer", "io"}
    /\ flush # 0 => InFlush
    /\ phase \notin {"change", "scan", "io"} => batch = <<>>
    /\ now <= clock
    /\ phase = "cb" =>
         /\ cur # genid
         /\ \A i \in DOMAIN cbq : cbq[i] \in fresh => fgen[cbq[i]] = genid

Inv == TypeOK /\ Control /\ QueuesAgree /\ ChangesFit /\ GenerationsTell

\* f_cb_genid++ stays within its width and differs from the old value.
LEMMA NextGenProps ==
  ASSUME NEW g \in 0..(GenMod - 1)
  PROVE  NextGen(g) \in 0..(GenMod - 1) /\ NextGen(g) # g
<1>1. GenMod \in Nat /\ GenMod > 1
  BY BoundAssumption
<1>2. CASE g = GenMod - 1
  <2>1. (g + 1) % GenMod = 0
    BY <1>1, <1>2
  <2> QED BY <1>1, <1>2, <2>1 DEF NextGen
<1>3. CASE g < GenMod - 1
  <2>1. (g + 1) % GenMod = g + 1
    BY <1>1, <1>3
  <2> QED BY <1>1, <1>3, <2>1 DEF NextGen
<1> QED BY <1>1, <1>2, <1>3

\* Every Io event has its key among those of the kqueue.
LEMMA KeyProps ==
  ASSUME NEW f \in Io
  PROVE  Key(f) \in Keys /\ f \in Event /\ f # None
BY EventAssumption, Zenon DEF Keys, Event

\* fde_kq_push keeps the type of the change list.
LEMMA PushType ==
  ASSUME TypeOK, NEW f \in Io, NEW bits \in SUBSET {"ADD", "DELETE"},
         fde_kq_push(f, bits)
  PROVE  /\ kev' \in [Io -> SUBSET {"ADD", "DELETE"}]
         /\ pending' \in Seq(Changes)
         /\ Len(pending') = Len(pending) + 1
         /\ flush' \in Nat
<1> DEFINE ch == [key |-> Key(f), udata |-> f, flags |-> kev[f] \cup bits]
<1>1. ch \in Changes
  BY KeyProps, Zenon DEF TypeOK, Changes
<1>2. pending' = Append(pending, ch)
  BY Zenon DEF fde_kq_push
<1> HIDE DEF ch
<1>3. pending' \in Seq(Changes) /\ Len(pending') = Len(pending) + 1
  BY <1>1, <1>2, AppendProperties, Zenon DEF TypeOK
<1>4. flush' \in Nat
  BY LenProperties, Zenon DEF TypeOK, fde_kq_push
<1>5. kev' \in [Io -> SUBSET {"ADD", "DELETE"}]
  BY Zenon DEF TypeOK, fde_kq_push
<1> QED BY <1>3, <1>4, <1>5, Zenon

\* A change the kernel accepts keeps the types of what it registers.
LEMMA ApplyType ==
  ASSUME TypeOK, NEW ch \in Changes, Apply(ch)
  PROVE  knote' \in [Keys -> Io \cup {None}] /\ trig' \subseteq Keys
BY Zenon DEF TypeOK, Apply, Changes

\* The types hold when the thread starts.
LEMMA TypeInit == Init => TypeOK
<1> SUFFICES ASSUME Init PROVE TypeOK
  BY Zenon
<1>1. <<>> \in Seq(Cb) /\ <<>> \in Seq(Timer) /\ <<>> \in Seq(Changes) /\ <<>> \in Seq(Events)
  BY EmptySeq, Zenon
<1> QED BY <1>1, BoundAssumption DEF Init, TypeOK, Time

\* Every step keeps the types of the variables.
LEMMA TypeNext == TypeOK /\ Control /\ QueuesAgree /\ [Next]_vars => TypeOK'
<1> SUFFICES ASSUME TypeOK, Control, QueuesAgree, [Next]_vars PROVE TypeOK'
  BY Zenon
<1>1. ASSUME NEW f \in Event, fde_create(f) PROVE TypeOK'
  BY <1>1, BoundAssumption DEF TypeOK, fde_create, Time
<1>2. ASSUME NEW f \in Event, free(f) PROVE TypeOK'
  BY <1>2, Zenon DEF TypeOK, free, cbVars, timeVars, kqVars
<1>3. ASSUME NEW f \in Cb, fde_cb_add(f) PROVE TypeOK'
  <2>1. cbq' \in Seq(Cb)
    BY <1>3, AppendProperties, Zenon DEF TypeOK, fde_cb_add, LinkedLast
  <2> QED BY <1>3, <2>1, Zenon DEF TypeOK, fde_cb_add, timeVars, kqVars, Event
<1>4. ASSUME NEW f \in Cb, NEW gone \in {{}, {f}}, fde_cb_delete(f, gone) PROVE TypeOK'
  <2>1. cbq' \in Seq(Cb)
    BY <1>4, UnlinkedProps, Zenon DEF TypeOK, QueuesAgree, fde_cb_delete
  <2> QED BY <1>4, <2>1, Zenon DEF TypeOK, fde_cb_delete, timeVars, kqVars
<1>5. ASSUME NEW f \in Timer, NEW t \in (clock + MinDelay)..MaxClock, fde_add_timeout(f, t)
      PROVE TypeOK'
  <2>1. t \in Time
    BY BoundAssumption DEF TypeOK, Time
  <2>2. f \notin Range(tq)
    BY <1>5, Zenon DEF QueuesAgree, fde_add_timeout
  <2>3. tq' \in Seq(Timer)
    BY <1>5, <2>1, <2>2, TimersBeforeProps, InsertAtProps, Zenon
       DEF TypeOK, QueuesAgree, fde_add_timeout, TimerLink
  <2> QED BY <1>5, <2>1, <2>3, Zenon DEF TypeOK, fde_add_timeout, cbVars, kqVars, Event
<1>6. ASSUME NEW f \in Timer, NEW gone \in {{}, {f}}, fde_t_delete(f, gone) PROVE TypeOK'
  <2>1. tq' \in Seq(Timer)
    BY <1>6, UnlinkedProps, Zenon DEF TypeOK, QueuesAgree, fde_t_delete
  <2> QED BY <1>6, <2>1, Zenon DEF TypeOK, fde_t_delete, cbVars, kqVars
<1>7. ASSUME NEW f \in Io, fde_rw_add(f) PROVE TypeOK'
  <2>1. fde_kq_push(f, {"ADD"}) /\ {"ADD"} \in SUBSET {"ADD", "DELETE"}
    BY <1>7, Zenon DEF fde_rw_add
  <2> QED BY <1>7, <2>1, PushType, Zenon DEF TypeOK, fde_rw_add, cbVars, timeVars, Event
<1>8. ASSUME NEW f \in Io, NEW gone \in {{}, {f}}, fde_rw_delete(f, gone) PROVE TypeOK'
  <2>1. fde_kq_push(f, {"DELETE"}) /\ {"DELETE"} \in SUBSET {"ADD", "DELETE"}
    BY <1>8, Zenon DEF fde_rw_delete, push_delete
  <2> QED BY <1>8, <2>1, PushType, Zenon DEF TypeOK, fde_rw_delete, cbVars, timeVars
<1>9. ASSUME NEW d \in Fd, CloseFd(d) PROVE TypeOK'
  BY <1>9, Zenon DEF TypeOK, CloseFd, cbVars, timeVars
<1>10. ASSUME NEW d \in Fd, OpenFd(d) PROVE TypeOK'
  BY <1>10, Zenon DEF TypeOK, OpenFd, cbVars, timeVars
<1>11. CASE SetupDone
  BY <1>11, Zenon DEF TypeOK, SetupDone, cbVars, timeVars, kqVars
<1>12. CASE Return
  BY <1>12, Zenon DEF TypeOK, Return, cbVars, timeVars, kqVars
<1>13. CASE RunloopStart
  BY <1>13, NextGenProps, Zenon DEF TypeOK, RunloopStart, kqVars
<1>14. CASE fde_cb_runloop
  <2>1. cbq' \in Seq(Cb) /\ running' \in Event \cup {None}
    <3>1. cbq # <<>> => Head(cbq) \in Cb /\ Tail(cbq) \in Seq(Cb)
      BY HeadTailProperties, Zenon DEF TypeOK
    <3> QED BY <1>14, <3>1, Zenon DEF TypeOK, fde_cb_runloop, CbReady, Event
  <2> QED BY <1>14, <2>1, Zenon DEF TypeOK, fde_cb_runloop, timeVars, kqVars
<1>15. CASE fde_t_runloop
  <2>1. tq' \in Seq(Timer) /\ running' \in Event \cup {None}
    <3>1. tq # <<>> => Head(tq) \in Timer /\ Tail(tq) \in Seq(Timer)
      BY HeadTailProperties, Zenon DEF TypeOK
    <3> QED BY <1>15, <3>1, Zenon DEF TypeOK, fde_t_runloop, TimerReady, Event
  <2>2. wake' \in Nat
    <3>1. tq = <<>> \/ tv[Head(tq)] \in Nat
      BY TailProps DEF TypeOK, QueuesAgree, Event, Time
    <3>2. clock \in Nat /\ now \in Nat /\ MaxTimeout \in Nat /\ wake \in Nat
      BY BoundAssumption DEF TypeOK, Time
    <3>3. fde_t_get_timeout \in Nat
      BY <3>1, <3>2 DEF fde_t_get_timeout
    <3> QED BY <1>15, <3>2, <3>3 DEF fde_t_runloop
  <2> QED BY <1>15, <2>1, <2>2, Zenon DEF TypeOK, fde_t_runloop, cbVars, kqVars
<1>16. CASE fde_kq_flush
  <2>1. pending # <<>>
    BY <1>16, EmptySeq DEF TypeOK, Control, InFlush, fde_kq_flush
  <2>2. Head(pending) \in Changes /\ Tail(pending) \in Seq(Changes)
    BY <2>1, HeadTailProperties, Zenon DEF TypeOK
  <2>3. <<Last(pending)>> \in Seq(Changes)
    <3>1. Len(pending) \in DOMAIN pending
      BY <2>1, LenProperties, EmptySeq DEF TypeOK
    <3>2. Last(pending) \in Changes
      BY <3>1, ElementOfSeq DEF TypeOK, Last
    <3> QED BY <3>2
  <2>4. knote' \in [Keys -> Io \cup {None}] /\ trig' \subseteq Keys
    BY <1>16, <2>2, ApplyType, Zenon DEF TypeOK, fde_kq_flush
  <2>5. pending' \in Seq(Changes) /\ flush' \in Nat
    <3>1. \/ pending' = Tail(pending) /\ flush' = flush - 1
          \/ pending' = <<Last(pending)>> /\ flush' = 0
      BY <1>16, Zenon DEF fde_kq_flush
    <3>2. flush \in Nat /\ flush > 0
      BY <1>16, Zenon DEF TypeOK, fde_kq_flush
    <3>3. flush' \in Nat
      BY <3>1, <3>2
    <3>4. pending' \in Seq(Changes)
      BY <2>2, <2>3, <3>1, Zenon
    <3> QED BY <3>3, <3>4, Zenon
  <2> QED BY <1>16, <2>4, <2>5, Zenon DEF TypeOK, fde_kq_flush, cbVars, timeVars
<1>17. CASE KqChange
  <2>1. CASE pending = <<>> /\ UNCHANGED <<pending, batch, knote, trig>>
    BY <1>17, <2>1, Zenon DEF TypeOK, KqChange, cbVars, timeVars
  <2>2. CASE pending # <<>> /\ pending' = Tail(pending)
    <3>1. Head(pending) \in Changes /\ Tail(pending) \in Seq(Changes)
      BY <2>2, HeadTailProperties, Zenon DEF TypeOK
    <3>2. PICK a \in Answers(Head(pending)) :
             IF a = "OK" THEN Apply(Head(pending)) /\ UNCHANGED batch
             ELSE /\ batch' = Append(batch, [key |-> Head(pending).key, err |-> a,
                                             udata |-> Head(pending).udata])
                  /\ UNCHANGED <<knote, trig>>
      BY <1>17, <2>2, Zenon DEF KqChange
    <3>3. CASE a = "OK"
      <4>1. knote' \in [Keys -> Io \cup {None}] /\ trig' \subseteq Keys
        BY <3>1, <3>2, <3>3, ApplyType, Zenon
      <4> QED BY <1>17, <2>2, <3>1, <3>2, <3>3, <4>1, Zenon DEF TypeOK, KqChange, cbVars, timeVars
    <3>4. CASE a # "OK"
      <4> DEFINE e == [key |-> Head(pending).key, err |-> a, udata |-> Head(pending).udata]
      <4>1. a \in {"OK", "EBADF", "ENOENT", "EPIPE", "ENOMEM"}
        BY LaxAssumption, Zenon DEF Answers
      <4>2. e \in Events
        BY <3>1, <4>1, Zenon DEF Changes, Events
      <4>3. batch' = Append(batch, e)
        BY <3>2, <3>4, Zenon
      <4> HIDE DEF e
      <4>4. batch' \in Seq(Events)
        BY <4>2, <4>3, AppendProperties, Zenon DEF TypeOK
      <4> QED BY <1>17, <2>2, <3>1, <3>2, <3>4, <4>4, Zenon
              DEF TypeOK, KqChange, cbVars, timeVars
    <3> QED BY <3>3, <3>4, Zenon
  <2> QED BY <1>17, <2>1, <2>2, Zenon DEF KqChange
<1>18. CASE KqReturn
  BY <1>18, Zenon DEF TypeOK, KqReturn, cbVars, timeVars, kqVars
<1>19. CASE fde_rw_runloop
  <2>1. batch' \in Seq(Events) /\ running' \in Event \cup {None}
    <3>1. CASE batch = <<>>
      BY <1>19, <3>1, Zenon DEF TypeOK, fde_rw_runloop
    <3>2. CASE batch # <<>>
      <4>1. Head(batch) \in Events /\ Tail(batch) \in Seq(Events)
        BY <3>2, HeadTailProperties, Zenon DEF TypeOK
      <4>2. Head(batch).udata \in Event
        BY <4>1, Zenon DEF Events, Event
      <4> QED BY <1>19, <3>2, <4>1, <4>2, Zenon DEF TypeOK, fde_rw_runloop
    <3> QED BY <3>1, <3>2, Zenon
  <2>2. /\ UNCHANGED <<alive, clock, cbq, fgen, genid, cur, fresh, tq, tv, kev, pending,
                        flush, open, knote, trig>>
        /\ phase' \in {phase, "top"} /\ now' \in {now, 0} /\ wake' \in {wake, 0}
    BY <1>19, Zenon DEF fde_rw_runloop, cbVars
  <2>3. active' \subseteq active
    BY <1>19, Zenon DEF fde_rw_runloop, StillActive
  <2>4. now' \in Time /\ wake' \in Nat
    <3>1. 0 \in Time /\ 0 \in Nat
      BY BoundAssumption DEF Time
    <3> QED BY <2>2, <3>1, Zenon DEF TypeOK
  <2>5. /\ UNCHANGED <<alive, clock, cbq, fgen, genid, cur, fresh, tq, tv, kev>>
        /\ UNCHANGED <<pending, flush, open, knote, trig>>
    BY <2>2, Zenon
  <2> QED BY <2>1, <2>2, <2>3, <2>4, <2>5, Zenon DEF TypeOK
<1>20. CASE Tick
  BY <1>20, BoundAssumption, SMTT(30) DEF TypeOK, Tick, Time, cbVars, timeVars, kqVars
<1>21. ASSUME NEW k \in Keys, KqEvent(k) PROVE TypeOK'
  <2> DEFINE e == [key |-> k, err |-> "OK", udata |-> knote[k]]
  <2>1. e \in Events
    BY <1>21, Zenon DEF TypeOK, KqEvent, Events
  <2>2. batch' = Append(batch, e)
    BY <1>21, Zenon DEF KqEvent
  <2> HIDE DEF e
  <2>3. batch' \in Seq(Events)
    BY <2>1, <2>2, AppendProperties, Zenon DEF TypeOK
  <2> QED BY <1>21, <2>3, Zenon DEF TypeOK, KqEvent, cbVars, timeVars
<1>22. ASSUME NEW f \in Io, fde_ue_push(f) PROVE TypeOK'
  BY <1>22, KeyProps, Zenon DEF TypeOK, fde_ue_push, cbVars, timeVars
<1>23. CASE UNCHANGED vars
  BY <1>23, Zenon DEF TypeOK, vars, cbVars, timeVars, kqVars
<1> QED
  BY <1>1, <1>2, <1>3, <1>4, <1>5, <1>6, <1>7, <1>8, <1>9, <1>10, <1>11, <1>12,
     <1>13, <1>14, <1>15, <1>16, <1>17, <1>18, <1>19, <1>20, <1>21, <1>22, <1>23, Zenon, Zenon
     DEF Next, Call, Step

\* Every step keeps is_active and the lists in agreement.
LEMMA QueuesNext == TypeOK /\ QueuesAgree /\ [Next]_vars => QueuesAgree'
<1> SUFFICES ASSUME TypeOK, QueuesAgree, [Next]_vars PROVE QueuesAgree'
  BY Zenon
<1> USE EventAssumption
<1>1. ASSUME NEW f \in Event, fde_create(f) PROVE QueuesAgree'
  BY <1>1, Zenon DEF QueuesAgree, fde_create
<1>2. ASSUME NEW f \in Event, free(f) PROVE QueuesAgree'
  BY <1>2, Zenon DEF QueuesAgree, free, cbVars, timeVars
<1>3. ASSUME NEW f \in Cb, fde_cb_add(f) PROVE QueuesAgree'
  <2>1. f \notin Range(cbq) /\ f \notin Timer
    BY <1>3, Zenon DEF QueuesAgree, fde_cb_add
  <2>2. Once(cbq') /\ Range(cbq') = Range(cbq) \cup {f}
    <3>1. cbq \in Seq(Cb) /\ Once(cbq) /\ cbq' = Append(cbq, f)
      BY <1>3, Zenon DEF TypeOK, QueuesAgree, fde_cb_add, LinkedLast
    <3> QED BY <2>1, <3>1, AppendProps, SMTT(30)
  <2> QED BY <1>3, <2>1, <2>2, SMTT(30) DEF QueuesAgree, fde_cb_add, timeVars
<1>4. ASSUME NEW f \in Cb, NEW gone \in {{}, {f}}, fde_cb_delete(f, gone)
      PROVE QueuesAgree'
  <2>1. Once(cbq') /\ Range(cbq') = Range(cbq) \ {f}
    BY <1>4, UnlinkedProps, SMTT(30) DEF TypeOK, QueuesAgree, fde_cb_delete
  <2> QED BY <1>4, <2>1, Zenon DEF QueuesAgree, fde_cb_delete, timeVars
<1>5. ASSUME NEW f \in Timer, NEW t \in (clock + MinDelay)..MaxClock, fde_add_timeout(f, t)
      PROVE QueuesAgree'
  <2>1. t \in Time
    BY BoundAssumption DEF TypeOK, Time
  <2>2. f \notin Range(tq) /\ f \notin Cb
    BY <1>5, Zenon DEF QueuesAgree, fde_add_timeout
  <2>3. Once(tq') /\ Range(tq') = Range(tq) \cup {f}
    <3>1. tq' = InsertAt(tq, TimersBefore(tq, t) + 1, f)
      BY <1>5, Zenon DEF fde_add_timeout, TimerLink
    <3>2. TimersBefore(tq, t) \in 0..Len(tq)
      BY <2>1, TimersBeforeProps, Zenon
    <3>3. tq \in Seq(Timer) /\ Once(tq)
      BY Zenon DEF TypeOK, QueuesAgree
    <3> QED BY <2>2, <3>1, <3>2, <3>3, InsertAtProps, SMTT(30)
  <2> QED BY <1>5, <2>2, <2>3 DEF QueuesAgree, fde_add_timeout, cbVars
<1>6. ASSUME NEW f \in Timer, NEW gone \in {{}, {f}}, fde_t_delete(f, gone)
      PROVE QueuesAgree'
  <2>1. Once(tq') /\ Range(tq') = Range(tq) \ {f}
    BY <1>6, UnlinkedProps, SMTT(30) DEF TypeOK, QueuesAgree, fde_t_delete
  <2> QED BY <1>6, <2>1, Zenon DEF QueuesAgree, fde_t_delete, cbVars
<1>7. ASSUME NEW f \in Io, fde_rw_add(f) PROVE QueuesAgree'
  BY <1>7, Zenon DEF QueuesAgree, fde_rw_add, cbVars, timeVars
<1>8. ASSUME NEW f \in Io, NEW gone \in {{}, {f}}, fde_rw_delete(f, gone)
      PROVE QueuesAgree'
  BY <1>8, Zenon DEF QueuesAgree, fde_rw_delete, cbVars, timeVars
<1>9. CASE fde_cb_runloop
  <2>1. CASE CbReady
    <3>1. cbq # <<>>
      BY <2>1, Zenon DEF CbReady
    <3>2. /\ Head(cbq) \in Cb /\ Once(Tail(cbq))
          /\ Range(Tail(cbq)) = Range(cbq) \ {Head(cbq)}
      BY <3>1, TailProps, Zenon DEF TypeOK, QueuesAgree
    <3> QED BY <1>9, <2>1, <3>2, Zenon DEF QueuesAgree, fde_cb_runloop, timeVars
  <2>2. CASE ~CbReady
    BY <1>9, <2>2, Zenon DEF QueuesAgree, fde_cb_runloop, timeVars
  <2> QED BY <2>1, <2>2, Zenon
<1>10. CASE fde_t_runloop
  <2>1. CASE TimerReady
    <3>1. tq # <<>>
      BY <2>1, Zenon DEF TimerReady
    <3>2. /\ Head(tq) \in Timer /\ Once(Tail(tq))
          /\ Range(Tail(tq)) = Range(tq) \ {Head(tq)}
      BY <3>1, TailProps, Zenon DEF TypeOK, QueuesAgree
    <3> QED BY <1>10, <2>1, <3>2, Zenon DEF QueuesAgree, fde_t_runloop, cbVars
  <2>2. CASE ~TimerReady
    BY <1>10, <2>2, Zenon DEF QueuesAgree, fde_t_runloop, cbVars
  <2> QED BY <2>1, <2>2
<1>11. CASE fde_rw_runloop
  <2>1. batch = <<>> \/ Head(batch).udata \in Io
    <3>1. batch # <<>> => Head(batch) \in Events
      BY HeadTailProperties, Zenon DEF TypeOK
    <3> QED BY <3>1, Zenon DEF Events
  <2> QED BY <1>11, <2>1, Zenon DEF QueuesAgree, fde_rw_runloop, StillActive, cbVars
<1>12. CASE UNCHANGED <<alive, active, cbq, tq>>
  BY <1>12, Zenon DEF QueuesAgree
<1>13. ASSUME NEW d \in Fd, CloseFd(d) \/ OpenFd(d) PROVE QueuesAgree'
  BY <1>12, <1>13, Zenon DEF CloseFd, OpenFd, cbVars, timeVars
<1>14. CASE \/ SetupDone \/ Return \/ RunloopStart \/ fde_kq_flush \/ KqChange
            \/ KqReturn \/ Tick
  BY <1>12, <1>14, Zenon DEF SetupDone, Return, RunloopStart, fde_kq_flush, KqChange,
     KqReturn, Tick, cbVars, timeVars
<1>15. ASSUME NEW k \in Keys, KqEvent(k) PROVE QueuesAgree'
  BY <1>12, <1>15, Zenon DEF KqEvent, cbVars, timeVars
<1>16. ASSUME NEW f \in Io, fde_ue_push(f) PROVE QueuesAgree'
  BY <1>12, <1>16, Zenon DEF fde_ue_push, cbVars, timeVars
<1>17. CASE UNCHANGED vars
  BY <1>12, <1>17, Zenon DEF vars, cbVars, timeVars
<1> QED
  BY <1>1, <1>2, <1>3, <1>4, <1>5, <1>6, <1>7, <1>8, <1>9, <1>10, <1>11,
     <1>13, <1>14, <1>15, <1>16, <1>17, Zenon, Zenon, Zenon DEF Next, Call, Step

\* fde_kq_push leaves the change list within its array.
LEMMA PushFits ==
  ASSUME TypeOK, Control, ChangesFit, InHandler, NEW f \in Io,
         NEW bits \in SUBSET {"ADD", "DELETE"}, fde_kq_push(f, bits)
  PROVE  /\ Len(pending') <= MaxEvents
         /\ flush' = 0 => Len(pending') <= MaxEvents - 1
         /\ flush' # 0 => Len(pending') = flush' + 1
<1>1. Len(pending') = Len(pending) + 1
  BY PushType, Zenon
<1>2. Len(pending) \in Nat /\ MaxEvents \in Nat /\ MaxEvents > 1
  BY LenProperties, BoundAssumption DEF TypeOK
<1>3. Len(pending) <= MaxEvents - 1
  BY Zenon DEF ChangesFit, InHandler
<1>4. flush' = IF Len(pending) >= MaxEvents - 1 THEN Len(pending) ELSE 0
  BY Zenon DEF fde_kq_push, Full
<1> QED BY <1>1, <1>2, <1>3, <1>4, SMTT(30)

\* Every step keeps the change list within its array.
LEMMA FitNext == TypeOK /\ Control /\ ChangesFit /\ [Next]_vars => ChangesFit'
<1> SUFFICES ASSUME TypeOK, Control, ChangesFit, [Next]_vars PROVE ChangesFit'
  BY Zenon
<1>a. InHandler => phase # "change"
  BY Zenon DEF Control, InHandler
<1>b. /\ Len(pending) \in Nat /\ Len(batch) \in Nat /\ flush \in Nat
      /\ MaxEvents \in Nat /\ MaxEvents > 1
  BY LenProperties, BoundAssumption DEF TypeOK
<1>1. ASSUME NEW f \in Io, fde_rw_add(f) PROVE ChangesFit'
  <2>1. fde_kq_push(f, {"ADD"}) /\ InHandler /\ phase' = phase
    BY <1>1, Zenon DEF fde_rw_add
  <2> QED BY <1>a, <2>1, PushFits, Zenon DEF ChangesFit
<1>2. ASSUME NEW f \in Io, NEW gone \in {{}, {f}}, fde_rw_delete(f, gone) PROVE ChangesFit'
  <2>1. fde_kq_push(f, {"DELETE"}) /\ InHandler /\ phase' = phase
    BY <1>2, Zenon DEF fde_rw_delete, push_delete
  <2> QED BY <1>a, <2>1, PushFits, Zenon DEF ChangesFit
<1>3. CASE fde_kq_flush
  <2>1. /\ phase' = phase /\ phase # "change" /\ flush > 0
        /\ Len(pending) = flush + 1
    BY <1>3, <1>b DEF fde_kq_flush, Control, InFlush
  <2>2. CASE pending' = Tail(pending) /\ flush' = flush - 1
    <3>1. Len(pending') = Len(pending) - 1
      BY <2>1, <2>2, <1>b, EmptySeq, HeadTailProperties, SMTT(30) DEF TypeOK
    <3> QED BY <2>1, <2>2, <3>1, <1>b, SMTT(30) DEF ChangesFit
  <2>3. CASE pending' = <<Last(pending)>> /\ flush' = 0
    <3>1. Len(pending') = 1
      BY <2>3, Zenon
    <3> QED BY <2>1, <2>3, <3>1, <1>b, SMTT(30) DEF ChangesFit
  <2> QED BY <1>3, <2>2, <2>3, Zenon DEF fde_kq_flush
<1>4. CASE KqChange
  <2>1. CASE pending # <<>> /\ pending' = Tail(pending)
    <3>1. Len(pending') = Len(pending) - 1
      BY <2>1, HeadTailProperties, Zenon DEF TypeOK
    <3>2. Len(batch') \in Nat /\ Len(batch') <= Len(batch) + 1
      <4>1. ASSUME NEW e, batch' = Append(batch, e) PROVE Len(batch') = Len(batch) + 1
        BY <4>1, LenProperties DEF TypeOK
      <4>2. batch' = batch \/ \E e : batch' = Append(batch, e)
        BY <1>4, <2>1, Zenon DEF KqChange
      <4> QED BY <4>1, <4>2, <1>b
    <3>3. phase = "change" /\ flush' = flush
      BY <1>4, Zenon DEF KqChange
    <3> QED BY <2>1, <3>1, <3>2, <3>3, <1>b, SMTT(30) DEF ChangesFit
  <2>2. CASE phase' = "scan" /\ UNCHANGED <<pending, flush>>
    BY <2>2, Zenon DEF ChangesFit
  <2> QED BY <1>4, <2>1, <2>2, Zenon DEF KqChange
<1>5. CASE fde_t_runloop
  <2>1. phase = "timer" /\ flush = 0 /\ batch = <<>> /\ UNCHANGED <<batch, pending, flush>>
    BY <1>5, Zenon DEF fde_t_runloop, Control, InFlush, kqVars
  <2>2. Len(batch) = 0
    BY <2>1, Zenon
  <2> QED BY <2>1, <2>2, <1>b DEF ChangesFit
<1>6. CASE UNCHANGED <<pending, flush>> /\ phase' # "change"
  BY <1>6, Zenon DEF ChangesFit
<1>7. CASE UNCHANGED <<pending, flush, batch, phase>>
  BY <1>7, Zenon DEF ChangesFit
<1>8. ASSUME NEW f \in Event, fde_create(f) \/ free(f) PROVE ChangesFit'
  BY <1>7, <1>8, Zenon DEF fde_create, free, kqVars
<1>9. ASSUME NEW f \in Cb, NEW gone \in {{}, {f}}, fde_cb_add(f) \/ fde_cb_delete(f, gone)
      PROVE ChangesFit'
  BY <1>7, <1>9, Zenon DEF fde_cb_add, fde_cb_delete, kqVars
<1>10. ASSUME NEW f \in Timer, NEW t, fde_add_timeout(f, t) PROVE ChangesFit'
  BY <1>7, <1>10, Zenon DEF fde_add_timeout, kqVars
<1>11. ASSUME NEW f \in Timer, NEW gone \in {{}, {f}}, fde_t_delete(f, gone) PROVE ChangesFit'
  BY <1>7, <1>11, Zenon DEF fde_t_delete, kqVars
<1>12. ASSUME NEW d \in Fd, CloseFd(d) \/ OpenFd(d) PROVE ChangesFit'
  BY <1>7, <1>12, Zenon DEF CloseFd, OpenFd
<1>13. CASE SetupDone \/ RunloopStart \/ fde_cb_runloop \/ KqReturn \/ fde_rw_runloop
  BY <1>6, <1>13, Zenon DEF SetupDone, RunloopStart, fde_cb_runloop, KqReturn, fde_rw_runloop, kqVars
<1>14. CASE Return \/ Tick \/ UNCHANGED vars
  BY <1>7, <1>14, Zenon DEF Return, Tick, vars, kqVars
<1>15. ASSUME NEW k \in Keys, KqEvent(k) PROVE ChangesFit'
  BY <1>6, <1>15, Zenon DEF KqEvent
<1>16. ASSUME NEW f \in Io, fde_ue_push(f) PROVE ChangesFit'
  BY <1>7, <1>16, Zenon DEF fde_ue_push
<1> QED
  BY <1>1, <1>2, <1>3, <1>4, <1>5, <1>8, <1>9, <1>10, <1>11, <1>12, <1>13,
     <1>14, <1>15, <1>16, Zenon, Zenon, Zenon DEF Next, Call, Step

\* Every step keeps what the control points know.
LEMMA ControlNext ==
  TypeOK /\ Control /\ QueuesAgree /\ ChangesFit /\ GenerationsTell /\ [Next]_vars => Control'
<1> SUFFICES ASSUME TypeOK, Control, QueuesAgree, ChangesFit, GenerationsTell, [Next]_vars
             PROVE Control'
  BY Zenon
<1>a. DOMAIN cbq = 1..Len(cbq) /\ Len(cbq) \in Nat /\ now \in Nat /\ clock \in Nat
  BY LenProperties, SMTT(30) DEF TypeOK, Time
<1>1. ASSUME NEW f \in Event, fde_create(f) PROVE Control'
  <2>1. \A i \in DOMAIN cbq : cbq[i] # f
    BY <1>1, Zenon DEF QueuesAgree, fde_create, Range
  <2>2. \A i \in DOMAIN cbq : fgen'[cbq[i]] = fgen[cbq[i]]
    BY <1>1, <2>1, SMTT(30) DEF TypeOK, fde_create
  <2> QED BY <1>1, <2>2, Zenon DEF Control, InFlush, fde_create
<1>2. ASSUME NEW f \in Event, free(f) PROVE Control'
  BY <1>2, Zenon DEF Control, InFlush, free, cbVars, timeVars, kqVars
<1>3. ASSUME NEW f \in Cb, fde_cb_add(f) PROVE Control'
  <2>1. f \notin Range(cbq)
    BY <1>3, Zenon DEF QueuesAgree, fde_cb_add
  <2>2. /\ DOMAIN cbq' = 1..(Len(cbq) + 1) /\ cbq'[Len(cbq) + 1] = f
        /\ \A j \in DOMAIN cbq : cbq'[j] = cbq[j]
    <3>1. cbq \in Seq(Cb) /\ Once(cbq) /\ cbq' = Append(cbq, f)
      BY <1>3, Zenon DEF TypeOK, QueuesAgree, fde_cb_add, LinkedLast
    <3> QED BY <2>1, <3>1, AppendProps, SMTT(30)
  <2>3. fgen'[f] = genid /\ \A g \in Cb \ {f} : fgen'[g] = fgen[g]
    BY <1>3, Zenon DEF TypeOK, fde_cb_add, Event
  <2>4. ASSUME phase = "cb", NEW i \in DOMAIN cbq', cbq'[i] \in fresh'
        PROVE fgen'[cbq'[i]] = genid'
    <3>1. genid' = genid /\ fresh' = fresh \cup {f}
      BY <1>3, Zenon DEF fde_cb_add
    <3>2. CASE i = Len(cbq) + 1
      BY <2>2, <2>3, <3>1, <3>2, Zenon
    <3>3. CASE i \in DOMAIN cbq
      <4>1. cbq'[i] = cbq[i] /\ cbq[i] \in Cb /\ cbq[i] # f
        BY <2>1, <2>2, <3>3, ElementOfSeq, SMTT(30) DEF TypeOK, Range
      <4> QED BY <2>3, <2>4, <3>1, <3>3, <4>1, Zenon DEF Control
    <3> QED BY <1>a, <2>2, <3>2, <3>3, SMTT(30)
  <2> QED BY <1>3, <2>4, Zenon DEF Control, InFlush, fde_cb_add, timeVars, kqVars
<1>4. ASSUME NEW f \in Cb, NEW gone \in {{}, {f}}, fde_cb_delete(f, gone) PROVE Control'
  <2>1. Range(cbq') = Range(cbq) \ {f}
    BY <1>4, UnlinkedProps, Zenon DEF TypeOK, QueuesAgree, fde_cb_delete
  <2>2. ASSUME phase = "cb", NEW i \in DOMAIN cbq', cbq'[i] \in fresh'
        PROVE fgen'[cbq'[i]] = genid'
    <3>1. PICK j \in DOMAIN cbq : cbq'[i] = cbq[j]
      BY <2>1, Zenon DEF Range
    <3> QED BY <1>4, <2>2, <3>1, Zenon DEF Control, fde_cb_delete
  <2> QED BY <1>4, <2>2, Zenon DEF Control, InFlush, fde_cb_delete, timeVars, kqVars
<1>5. ASSUME NEW f \in Timer, NEW t, fde_add_timeout(f, t) PROVE Control'
  BY <1>5, Zenon DEF Control, InFlush, fde_add_timeout, cbVars, kqVars
<1>6. ASSUME NEW f \in Timer, NEW gone \in {{}, {f}}, fde_t_delete(f, gone) PROVE Control'
  BY <1>6, Zenon DEF Control, InFlush, fde_t_delete, cbVars, kqVars
<1>7. ASSUME NEW f \in Io, fde_rw_add(f) PROVE Control'
  <2>1. fde_kq_push(f, {"ADD"}) /\ InHandler /\ UNCHANGED <<phase, running>>
    BY <1>7, Zenon DEF fde_rw_add
  <2>2. flush' # 0 => InFlush'
    BY <2>1, PushFits, Zenon DEF InFlush, InHandler
  <2> QED BY <1>7, <2>2, Zenon DEF Control, fde_rw_add, cbVars, timeVars
<1>8. ASSUME NEW f \in Io, NEW gone \in {{}, {f}}, fde_rw_delete(f, gone) PROVE Control'
  <2>1. fde_kq_push(f, {"DELETE"}) /\ InHandler /\ UNCHANGED <<phase, running>>
    BY <1>8, Zenon DEF fde_rw_delete, push_delete
  <2>2. flush' # 0 => InFlush'
    BY <2>1, PushFits, Zenon DEF InFlush, InHandler
  <2> QED BY <1>8, <2>2, Zenon DEF Control, fde_rw_delete, cbVars, timeVars
<1>9. ASSUME NEW d \in Fd, CloseFd(d) \/ OpenFd(d) PROVE Control'
  BY <1>9, Zenon DEF Control, InFlush, CloseFd, OpenFd, cbVars, timeVars
<1>10. CASE SetupDone
  BY <1>10, Zenon DEF Control, InFlush, SetupDone, cbVars, timeVars, kqVars
<1>11. CASE Return
  BY <1>11, Zenon DEF Control, InFlush, Return, cbVars, timeVars, kqVars
<1>12. CASE RunloopStart
  <2>1. cur' # genid'
    BY <1>12, NextGenProps, Zenon DEF TypeOK, RunloopStart
  <2> QED BY <1>12, <1>a, <2>1, SMTT(30) DEF Control, InFlush, RunloopStart, kqVars
<1>13. CASE fde_cb_runloop
  <2>1. CASE CbReady
    <3>1. cbq # <<>>
      BY <2>1, Zenon DEF CbReady
    <3>2. \A j \in DOMAIN Tail(cbq) : j + 1 \in DOMAIN cbq /\ Tail(cbq)[j] = cbq[j + 1]
      BY <3>1, TailProps, Zenon DEF TypeOK, QueuesAgree
    <3> QED BY <1>13, <2>1, <3>2, ZenonT(40) DEF Control, InFlush, fde_cb_runloop, timeVars, kqVars
  <2>2. CASE ~CbReady
    BY <1>13, <2>2, Zenon DEF Control, InFlush, fde_cb_runloop, timeVars, kqVars
  <2> QED BY <2>1, <2>2, Zenon
<1>14. CASE fde_t_runloop
  BY <1>14, Zenon DEF Control, InFlush, fde_t_runloop, cbVars, kqVars
<1>15. CASE fde_kq_flush
  <2>1. InFlush /\ flush > 0 /\ flush \in Nat
    BY <1>15 DEF TypeOK, Control, fde_kq_flush
  <2>2. flush' # 0 => InFlush'
    <3> SUFFICES ASSUME flush' # 0 PROVE InFlush'
      BY Zenon
    <3>1. pending' = Tail(pending) /\ flush' = flush - 1 /\ UNCHANGED <<phase, running>>
      BY <1>15, Zenon DEF fde_kq_flush
    <3>2. Len(pending') = Len(pending) - 1
      BY <2>1, <3>1, EmptySeq, HeadTailProperties, SMTT(30) DEF TypeOK, InFlush
    <3> QED BY <2>1, <3>1, <3>2, SMTT(30) DEF InFlush
  <2> QED BY <1>15, <2>2, Zenon DEF Control, fde_kq_flush, cbVars, timeVars
<1>16. CASE KqChange
  <2>1. phase = "change" /\ phase' \in {"change", "scan"} /\ running = None /\ flush = 0
    BY <1>16, Zenon DEF Control, InFlush, KqChange
  <2> QED BY <1>16, <2>1, Zenon DEF Control, KqChange, cbVars, timeVars
<1>17. CASE KqReturn
  BY <1>17, Zenon DEF Control, InFlush, KqReturn, cbVars, timeVars, kqVars
<1>18. CASE fde_rw_runloop
  <2>1. now' <= clock'
    <3>1. clock' = clock /\ (now' = now \/ now' = 0)
      BY <1>18, Zenon DEF fde_rw_runloop
    <3>2. now <= clock
      BY Zenon DEF Control
    <3> QED BY <1>a, <3>1, <3>2
  <2>2. flush' = 0 /\ (phase' = "io" \/ (phase' = "top" /\ batch' = <<>> /\ running' = None))
    <3>1. phase = "io" /\ running = None /\ flush' = flush
      BY <1>18, Zenon DEF fde_rw_runloop
    <3>2. flush = 0
      BY <3>1, Zenon DEF Control, InFlush
    <3>3. phase' = "io" \/ (phase' = "top" /\ batch' = <<>> /\ running' = None)
      BY <1>18, ZenonT(30) DEF fde_rw_runloop
    <3> QED BY <3>1, <3>2, <3>3, Zenon
  <2> QED BY <2>1, <2>2, Zenon DEF Control
<1>19. CASE Tick
  BY <1>19, <1>a, SMTT(30) DEF Control, InFlush, Tick, cbVars, timeVars, kqVars
<1>20. ASSUME NEW k \in Keys, KqEvent(k) PROVE Control'
  BY <1>20, Zenon DEF Control, InFlush, KqEvent, cbVars, timeVars
<1>21. ASSUME NEW f \in Io, fde_ue_push(f) PROVE Control'
  BY <1>21, Zenon DEF Control, InFlush, fde_ue_push, cbVars, timeVars
<1>22. CASE UNCHANGED vars
  BY <1>22, Zenon DEF Control, InFlush, vars, cbVars, timeVars, kqVars
<1> QED
  BY <1>1, <1>2, <1>3, <1>4, <1>5, <1>6, <1>7, <1>8, <1>9, <1>10, <1>11, <1>12,
     <1>13, <1>14, <1>15, <1>16, <1>17, <1>18, <1>19, <1>20, <1>21, <1>22, Zenon, Zenon, Zenon
     DEF Next, Call, Step

\* Every step keeps the generation tags telling.
LEMMA GenNext ==
  TypeOK /\ Control /\ QueuesAgree /\ GenerationsTell /\ [Next]_vars => GenerationsTell'
<1> SUFFICES ASSUME TypeOK, Control, QueuesAgree, GenerationsTell, [Next]_vars
             PROVE GenerationsTell'
  BY Zenon
<1>a. DOMAIN cbq = 1..Len(cbq) /\ Len(cbq) \in Nat /\ \A i \in DOMAIN cbq : cbq[i] \in Cb
  BY LenProperties, ElementOfSeq, Zenon DEF TypeOK
<1>1. ASSUME NEW f \in Event, fde_create(f) PROVE GenerationsTell'
  <2>1. \A i \in DOMAIN cbq : cbq[i] # f
    BY <1>1, Zenon DEF QueuesAgree, fde_create, Range
  <2>2. \A i \in DOMAIN cbq : fgen'[cbq[i]] = fgen[cbq[i]]
    BY <1>1, <2>1 DEF TypeOK, fde_create
  <2> QED BY <1>1, <2>2, Zenon DEF GenerationsTell, fde_create
<1>2. ASSUME NEW f \in Cb, fde_cb_add(f) PROVE GenerationsTell'
  <2>1. f \notin Range(cbq)
    BY <1>2, Zenon DEF QueuesAgree, fde_cb_add
  <2>2. /\ DOMAIN cbq' = 1..(Len(cbq) + 1) /\ cbq'[Len(cbq) + 1] = f
        /\ \A j \in DOMAIN cbq : cbq'[j] = cbq[j]
    <3>1. cbq \in Seq(Cb) /\ Once(cbq) /\ cbq' = Append(cbq, f)
      BY <1>2, Zenon DEF TypeOK, QueuesAgree, fde_cb_add, LinkedLast
    <3> QED BY <2>1, <3>1, AppendProps, SMTT(30)
  <2>3. fgen'[f] = genid /\ \A g \in Cb \ {f} : fgen'[g] = fgen[g]
    BY <1>2, Zenon DEF TypeOK, fde_cb_add, Event
  <2>4. genid' = genid /\ cur' = cur /\ phase' = phase /\ fresh' = fresh \cup {f}
    BY <1>2, Zenon DEF fde_cb_add
  <2>5. \A i \in DOMAIN cbq : cbq[i] \in Cb \ {f}
    BY <1>a, <2>1, Zenon DEF Range
  <2>6. \A i \in DOMAIN cbq : /\ fgen'[cbq'[i]] = fgen[cbq[i]]
                              /\ cbq'[i] \in fresh' <=> cbq[i] \in fresh
    BY <2>2, <2>3, <2>4, <2>5, Zenon
  <2>7. ASSUME NEW i \in DOMAIN cbq', i \notin DOMAIN cbq
        PROVE i = Len(cbq) + 1 /\ cbq'[i] \in fresh' /\ fgen'[cbq'[i]] = genid
    <3>1. i = Len(cbq) + 1
      BY <1>a, <2>2, <2>7, SMTT(30)
    <3> QED BY <2>2, <2>3, <2>4, <3>1, Zenon
  <2>8. CASE phase = "cb"
    <3>1. cur # genid
      BY <2>8, Zenon DEF Control
    <3>2. \A i \in DOMAIN cbq' : fgen'[cbq'[i]] = cur' <=> cbq'[i] \notin fresh'
      BY <2>4, <2>6, <2>7, <2>8, <3>1, Zenon DEF GenerationsTell
    <3>3. ASSUME NEW i \in DOMAIN cbq', NEW j \in DOMAIN cbq', i < j, cbq'[i] \in fresh'
          PROVE cbq'[j] \in fresh'
      <4>1. CASE j \in DOMAIN cbq
        <5>1. i \in DOMAIN cbq
          BY <1>a, <2>2, <3>3, <4>1, SMTT(30)
        <5> QED BY <2>6, <2>8, <3>3, <4>1, <5>1, Zenon DEF GenerationsTell
      <4> QED BY <2>7, <4>1, Zenon
    <3> QED BY <2>4, <2>8, <3>2, <3>3, Zenon DEF GenerationsTell
  <2>9. CASE phase # "cb"
    BY <2>4, <2>6, <2>7, <2>9, Zenon DEF GenerationsTell
  <2> QED BY <2>8, <2>9, Zenon
<1>3. ASSUME NEW f \in Cb, NEW gone \in {{}, {f}}, fde_cb_delete(f, gone)
      PROVE GenerationsTell'
  <2>1. UNCHANGED <<phase, fgen, genid, cur>> /\ fresh' = fresh \ {f}
    BY <1>3, Zenon DEF fde_cb_delete
  <2>2. /\ Range(cbq') = Range(cbq) \ {f}
        /\ \A j, k \in DOMAIN cbq' : j < k =>
              \E m, n \in DOMAIN cbq : m < n /\ cbq'[j] = cbq[m] /\ cbq'[k] = cbq[n]
    BY <1>3, UnlinkedProps, SMTT(30) DEF TypeOK, QueuesAgree, fde_cb_delete
  <2>3. \A i \in DOMAIN cbq' : cbq'[i] # f /\ \E m \in DOMAIN cbq : cbq'[i] = cbq[m]
    BY <2>2, SMTT(30) DEF Range
  <2>4. CASE phase = "cb"
    <3>1. \A i \in DOMAIN cbq' : fgen'[cbq'[i]] = cur' <=> cbq'[i] \notin fresh'
      BY <2>1, <2>3, <2>4, ZenonT(30) DEF GenerationsTell
    <3>2. \A i, j \in DOMAIN cbq' : i < j /\ cbq'[i] \in fresh' => cbq'[j] \in fresh'
      <4> SUFFICES ASSUME NEW i \in DOMAIN cbq', NEW j \in DOMAIN cbq', i < j, cbq'[i] \in fresh'
                   PROVE cbq'[j] \in fresh'
        BY Zenon
      <4>1. PICK m \in DOMAIN cbq, n \in DOMAIN cbq :
                   m < n /\ cbq'[i] = cbq[m] /\ cbq'[j] = cbq[n]
        BY <2>2, Zenon
      <4> QED BY <2>1, <2>3, <2>4, <4>1, Zenon DEF GenerationsTell
    <3> QED BY <2>1, <2>4, <3>1, <3>2, Zenon DEF GenerationsTell
  <2>5. CASE phase # "cb"
    BY <2>1, <2>3, <2>5, Zenon DEF GenerationsTell
  <2> QED BY <2>4, <2>5, Zenon
<1>4. CASE RunloopStart
  BY <1>4, Zenon DEF GenerationsTell, RunloopStart
<1>5. CASE fde_cb_runloop
  <2>1. CASE CbReady
    <3>1. cbq # <<>> /\ UNCHANGED <<phase, fgen, genid, cur>> /\ phase = "cb"
      BY <1>5, <2>1, Zenon DEF CbReady, fde_cb_runloop
    <3>2. /\ Range(Tail(cbq)) = Range(cbq) \ {Head(cbq)}
          /\ \A j \in DOMAIN Tail(cbq) : j \in Nat /\ j + 1 \in DOMAIN cbq /\ Tail(cbq)[j] = cbq[j + 1]
      BY <1>a, <3>1, TailProps, SMTT(30) DEF TypeOK, QueuesAgree
    <3>3. \A j \in DOMAIN Tail(cbq) : Tail(cbq)[j] # Head(cbq)
      BY <3>2, Zenon DEF Range
    <3>4. cbq' = Tail(cbq) /\ fresh' = fresh \ {Head(cbq)}
      BY <1>5, <2>1, Zenon DEF fde_cb_runloop
    <3>5. \A j \in DOMAIN cbq' : /\ j \in Nat /\ j + 1 \in DOMAIN cbq /\ cbq'[j] = cbq[j + 1]
                                 /\ cbq'[j] \in fresh' <=> cbq[j + 1] \in fresh
      BY <3>2, <3>3, <3>4, Zenon
    <3>6. \A i \in DOMAIN cbq' : fgen'[cbq'[i]] = cur' <=> cbq'[i] \notin fresh'
      BY <3>1, <3>5, Zenon DEF GenerationsTell
    <3>7. ASSUME NEW i \in DOMAIN cbq', NEW j \in DOMAIN cbq', i < j, cbq'[i] \in fresh'
          PROVE cbq'[j] \in fresh'
      <4>1. i + 1 < j + 1 /\ i + 1 \in DOMAIN cbq /\ j + 1 \in DOMAIN cbq
        BY <3>5, <3>7, SMTT(30)
      <4> QED BY <3>1, <3>5, <3>7, <4>1, Zenon DEF GenerationsTell
    <3> QED BY <3>1, <3>6, <3>7, Zenon DEF GenerationsTell
  <2>2. CASE ~CbReady
    <3>1. phase = "cb" /\ phase' = "timer" /\ UNCHANGED <<cbq, fgen, genid>>
      BY <1>5, <2>2, Zenon DEF fde_cb_runloop
    <3>2. ASSUME NEW i \in DOMAIN cbq PROVE fgen[cbq[i]] = genid
      <4>1. 1 \in DOMAIN cbq /\ Head(cbq) = cbq[1] /\ cbq # <<>>
        BY <1>a
      <4>2. cbq[1] \in fresh
        BY <2>2, <3>1, <4>1, Zenon DEF CbReady, GenerationsTell
      <4>3. i = 1 \/ 1 < i
        BY <1>a
      <4>4. cbq[i] \in fresh
        BY <3>1, <4>1, <4>2, <4>3, Zenon DEF GenerationsTell
      <4> QED BY <3>1, <4>4, Zenon DEF Control
    <3> QED BY <3>1, <3>2, Zenon DEF GenerationsTell
  <2> QED BY <2>1, <2>2, Zenon
<1>6. CASE UNCHANGED <<phase, cbq, fgen, genid, cur, fresh>>
  BY <1>6, Zenon DEF GenerationsTell
<1>7. CASE phase # "cb" /\ phase' # "cb" /\ UNCHANGED <<cbq, fgen, genid>>
  BY <1>7, Zenon DEF GenerationsTell
<1>8. ASSUME NEW f \in Event, free(f) PROVE GenerationsTell'
  BY <1>6, <1>8, Zenon DEF free, cbVars
<1>9. ASSUME NEW f \in Timer, NEW t, fde_add_timeout(f, t) PROVE GenerationsTell'
  BY <1>6, <1>9, Zenon DEF fde_add_timeout, cbVars
<1>10. ASSUME NEW f \in Timer, NEW gone \in {{}, {f}}, fde_t_delete(f, gone)
       PROVE GenerationsTell'
  BY <1>6, <1>10, Zenon DEF fde_t_delete, cbVars
<1>11. ASSUME NEW f \in Io, NEW gone \in {{}, {f}}, fde_rw_add(f) \/ fde_rw_delete(f, gone)
       PROVE GenerationsTell'
  BY <1>6, <1>11, Zenon DEF fde_rw_add, fde_rw_delete, cbVars
<1>12. ASSUME NEW d \in Fd, CloseFd(d) \/ OpenFd(d) PROVE GenerationsTell'
  BY <1>6, <1>12, Zenon DEF CloseFd, OpenFd, cbVars
<1>13. CASE Return \/ fde_kq_flush \/ Tick
  BY <1>6, <1>13, Zenon DEF Return, fde_kq_flush, Tick, cbVars
<1>14. CASE SetupDone \/ fde_t_runloop \/ KqChange \/ KqReturn \/ fde_rw_runloop
  BY <1>7, <1>14, Zenon DEF SetupDone, fde_t_runloop, KqChange, KqReturn, fde_rw_runloop, cbVars
<1>15. ASSUME NEW k \in Keys, KqEvent(k) PROVE GenerationsTell'
  BY <1>6, <1>15, Zenon DEF KqEvent, cbVars
<1>16. ASSUME NEW f \in Io, fde_ue_push(f) PROVE GenerationsTell'
  BY <1>6, <1>16, Zenon DEF fde_ue_push, cbVars
<1>17. CASE UNCHANGED vars
  BY <1>6, <1>17, Zenon DEF vars, cbVars
<1> QED
  BY <1>1, <1>2, <1>3, <1>4, <1>5, <1>8, <1>9, <1>10, <1>11, <1>12, <1>13,
     <1>14, <1>15, <1>16, <1>17, Zenon, Zenon, Zenon DEF Next, Call, Step

-----------------------------------------------------------------------------
(* The theorems. *)

\* Init establishes the invariant and every step of the loop, of an owner and
\* of the kernel keeps it.
LEMMA InvInit == Init => Inv
<1> SUFFICES ASSUME Init PROVE Inv
  OBVIOUS
<1>1. TypeOK
  BY TypeInit, Zenon
<1>2. Len(pending) = 0 /\ Len(batch) = 0 /\ DOMAIN cbq = {} /\ DOMAIN tq = {}
  BY DEF Init
<1>3. Control
  BY <1>2 DEF Init, Control
<1>4. QueuesAgree
  BY <1>2, Zenon DEF Init, QueuesAgree, Once, Range
<1>5. ChangesFit
  BY <1>2, BoundAssumption DEF Init, ChangesFit
<1>6. GenerationsTell
  BY <1>2, Zenon DEF Init, GenerationsTell
<1> QED BY <1>1, <1>3, <1>4, <1>5, <1>6, Zenon DEF Inv

\* Every step keeps the invariant.
LEMMA InvNext == Inv /\ [Next]_vars => Inv'
BY TypeNext, ControlNext, QueuesNext, FitNext, GenNext, Zenon DEF Inv

\* The invariant holds in every reachable state of the event loop.
THEOREM Invariant == Spec => []Inv
<1>1. Init => Inv
  BY InvInit, Zenon
<1>2. Inv /\ [Next]_vars => Inv'
  BY InvNext, Zenon
<1> QED BY <1>1, <1>2, PTL DEF Spec

\* Every variable of the event loop keeps its type.
THEOREM TypeCorrect == Spec => []TypeOK
<1>1. Inv => TypeOK
  BY Zenon DEF Inv
<1> QED BY <1>1, Invariant, PTL

\* f_cb_head and f_t_head always hold exactly the active callbacks and timers,
\* each once, and nothing freed, whatever the callbacks add, delete and free.
THEOREM QueuesCorrect == Spec => []QueuesAgree
<1>1. Inv => QueuesAgree
  BY Zenon DEF Inv
<1> QED BY <1>1, Invariant, PTL

\* The generation counter separates the callbacks of a pass from those queued
\* during it for every width of the counter above one value.
THEOREM GenerationsCorrect == Spec => []GenerationsTell
<1>1. Inv => GenerationsTell
  BY Zenon DEF Inv
<1> QED BY <1>1, Invariant, PTL

\* The change list stays within its array for every FDE_HEAD_MAXEVENTS of two
\* or more, also when fde_kq_flush fails half way.
THEOREM ChangesCorrect == Spec => []ChangesFit
<1>1. Inv => ChangesFit
  BY Zenon DEF Inv
<1> QED BY <1>1, Invariant, PTL

\* What a step of fde_cb_runloop's pass may do: call the callback at the front,
\* one that was queued when the pass started, and end the pass only when every
\* callback left was queued during it.
PassStep ==
    phase = "cb" =>
      /\ running = None /\ running' # None =>
           cbq # <<>> /\ running' = Head(cbq) /\ running' \notin fresh
      /\ phase' # "cb" => Range(cbq) \subseteq fresh

\* A pass of fde_cb_runloop calls, in the order they were queued, the callbacks
\* that were queued when it started and are not deleted before their turn, and
\* none that is queued meanwhile: a callback that queues itself again does not
\* keep the timers and the descriptors waiting, whatever the counter's width.
THEOREM PassIsExact == Spec => [][PassStep]_vars
<1>1. ASSUME Inv, [Next]_vars PROVE [PassStep]_vars
  <2> SUFFICES ASSUME phase = "cb" PROVE PassStep
    BY Zenon DEF PassStep
  <2>1. TypeOK /\ GenerationsTell
    BY <1>1, Zenon DEF Inv
  <2>2. CASE fde_cb_runloop /\ CbReady
    <3>1. /\ cbq # <<>> /\ running' = Head(cbq) /\ phase' = "cb" /\ fgen[Head(cbq)] = cur
      BY <2>2, Zenon DEF fde_cb_runloop, CbReady
    <3>2. 1 \in DOMAIN cbq /\ Head(cbq) = cbq[1]
      BY <2>1, <3>1, EmptySeq, LenProperties, HeadTailProperties DEF TypeOK
    <3>3. Head(cbq) \notin fresh
      BY <2>1, <3>1, <3>2, Zenon DEF GenerationsTell
    <3> QED BY <3>1, <3>3, Zenon DEF PassStep
  <2>3. CASE fde_cb_runloop /\ ~CbReady
    <3>1. UNCHANGED running
      BY <2>3, Zenon DEF fde_cb_runloop
    <3>2. ASSUME NEW i \in DOMAIN cbq PROVE cbq[i] \in fresh
      <4>1. /\ cbq # <<>> /\ 1 \in DOMAIN cbq /\ Head(cbq) = cbq[1] /\ (i = 1 \/ 1 < i)
        BY <2>1, EmptySeq, LenProperties, HeadTailProperties DEF TypeOK
      <4>2. cbq[1] \in fresh
        BY <2>1, <2>3, <4>1, Zenon DEF CbReady, GenerationsTell
      <4> QED BY <2>1, <4>1, <4>2, Zenon DEF GenerationsTell
    <3> QED BY <3>1, <3>2, Zenon DEF PassStep, Range
  <2>4. CASE phase' = "cb" /\ (running' = running \/ running' = None)
    BY <2>4, Zenon DEF PassStep
  <2>5. CASE Call
    <3>1. UNCHANGED <<phase, running>>
      BY <2>5, Zenon DEF Call, fde_create, free, fde_cb_add, fde_cb_delete, fde_add_timeout,
                         fde_t_delete, fde_rw_add, fde_rw_delete, CloseFd, OpenFd
    <3> QED BY <2>4, <3>1, Zenon
  <2>6. CASE \/ Return \/ fde_kq_flush \/ Tick \/ UNCHANGED vars
             \/ (\E f \in Io : fde_ue_push(f))
    <3>1. phase' = phase /\ (running' = running \/ running' = None)
      BY <2>6, Zenon DEF Return, fde_kq_flush, Tick, fde_ue_push, vars
    <3> QED BY <2>4, <3>1, Zenon
  <2>7. ~(\/ SetupDone \/ RunloopStart \/ fde_t_runloop \/ KqChange \/ KqReturn
          \/ fde_rw_runloop \/ (\E k \in Keys : KqEvent(k)))
    BY Zenon DEF SetupDone, RunloopStart, fde_t_runloop, KqChange, KqReturn, fde_rw_runloop,
                 KqEvent
  <2> QED BY <1>1, <2>2, <2>3, <2>5, <2>6, <2>7, Zenon DEF Next, Step
<1> QED BY <1>1, Invariant, PTL DEF Spec

\* Every step of the event loop is one of the steps fde.h promises, or none.
LEMMA ApiNext == Inv /\ Inv' /\ [Next]_vars => [Api!Next]_(Api!vars)
<1> SUFFICES ASSUME Inv, Inv', [Next]_vars PROVE [Api!Next]_(Api!vars)
  BY Zenon
<1>a. /\ TypeOK /\ QueuesAgree /\ now <= clock
      /\ now \in Nat /\ clock \in Nat /\ clock' \in Time
  <2>1. TypeOK /\ Control /\ QueuesAgree /\ TypeOK'
    BY Zenon DEF Inv
  <2>2. now \in Time /\ clock \in Time /\ clock' \in Time
    BY <2>1, Zenon DEF TypeOK
  <2>3. now <= clock
    BY <2>1, Zenon DEF Control
  <2> QED BY <2>1, <2>2, <2>3 DEF Time
<1> USE EventAssumption
<1>1. ASSUME NEW f \in Event, fde_create(f) PROVE Api!Create(f)
  BY <1>1, Zenon DEF fde_create, Api!Create
<1>2. ASSUME NEW f \in Event, free(f) PROVE Api!Free(f)
  BY <1>2, Zenon DEF free, Api!Free, timeVars
<1>3. ASSUME NEW f \in Cb, fde_cb_add(f) PROVE f \in Event /\ Api!Add(f)
  <2>1. tv' = [tv EXCEPT ![f] = tv[f]]
    BY <1>3, <1>a, ZenonT(30) DEF fde_cb_add, timeVars, TypeOK
  <2> QED BY <1>3, <2>1, Zenon DEF fde_cb_add, Api!Add, Api!Arm, Event
<1>4. ASSUME NEW f \in Cb, NEW gone \in {{}, {f}}, fde_cb_delete(f, gone)
      PROVE f \in Event /\ (Api!Disarm(f) \/ Api!Free(f))
  BY <1>4, Zenon DEF fde_cb_delete, Api!Disarm, Api!Free, timeVars, Event
<1>5. ASSUME NEW f \in Timer, NEW t \in (clock + MinDelay)..MaxClock, fde_add_timeout(f, t)
      PROVE t \in Time /\ Api!Arm(f, t)
  <2>1. t \in Time
    BY <1>a, BoundAssumption, SMTT(30) DEF Time
  <2> QED BY <1>5, <2>1, Zenon DEF fde_add_timeout, Api!Arm
<1>6. ASSUME NEW f \in Timer, NEW gone \in {{}, {f}}, fde_t_delete(f, gone)
      PROVE f \in Event /\ (Api!Disarm(f) \/ Api!Free(f))
  BY <1>6, Zenon DEF fde_t_delete, Api!Disarm, Api!Free, Event
<1>7. ASSUME NEW f \in Io, fde_rw_add(f) PROVE f \in Event /\ Api!Add(f)
  <2>1. tv' = [tv EXCEPT ![f] = tv[f]]
    BY <1>7, <1>a, Zenon DEF fde_rw_add, timeVars, TypeOK
  <2> QED BY <1>7, <2>1, Zenon DEF fde_rw_add, Api!Add, Api!Arm, Event
<1>8. ASSUME NEW f \in Io, NEW gone \in {{}, {f}}, fde_rw_delete(f, gone)
      PROVE f \in Event /\ (Api!Disarm(f) \/ Api!Free(f))
  BY <1>8, Zenon DEF fde_rw_delete, Api!Disarm, Api!Free, timeVars, Event
<1>9. CASE Return
  <2>1. Api!Return
    BY <1>9, Zenon DEF Return, Api!Return, timeVars
  <2> QED BY <2>1, Zenon DEF Api!Next
<1>10. CASE fde_cb_runloop
  <2>1. CASE CbReady
    <3>1. Head(cbq) \in Cb /\ Head(cbq) \in active \cap alive
      BY <2>1, <1>a, TailProps, SMTT(30) DEF TypeOK, QueuesAgree, CbReady, Range
    <3>2. Head(cbq) \in Event /\ Api!Fire(Head(cbq))
      BY <1>10, <2>1, <3>1, Zenon DEF fde_cb_runloop, Api!Fire, timeVars, Event
    <3> QED BY <3>2, Zenon DEF Api!Next
  <2>2. CASE ~CbReady
    BY <1>10, <2>2, Zenon DEF fde_cb_runloop, Api!vars, timeVars
  <2> QED BY <2>1, <2>2, Zenon
<1>11. CASE fde_t_runloop
  <2>1. CASE TimerReady
    <3>1. Head(tq) \in Timer /\ Head(tq) \in active \cap alive
      BY <2>1, <1>a, TailProps, SMTT(30) DEF TypeOK, QueuesAgree, TimerReady, Range
    <3>2. tv[Head(tq)] \in Nat
      BY <3>1, <1>a, SMTT(30) DEF TypeOK, Time, Event
    <3>3. tv[Head(tq)] <= clock
      BY <2>1, <3>2, <1>a, SMTT(30) DEF TimerReady
    <3>4. Head(tq) \in Event /\ Api!Fire(Head(tq))
      BY <1>11, <2>1, <3>1, <3>3, Zenon DEF fde_t_runloop, Api!Fire, Event
    <3> QED BY <3>4 DEF Api!Next
  <2>2. CASE ~TimerReady
    BY <1>11, <2>2, Zenon DEF fde_t_runloop, Api!vars
  <2> QED BY <2>1, <2>2
<1>12. CASE fde_rw_runloop
  <2>1. CASE batch # <<>> /\ Delivers(Head(batch))
    <3> DEFINE f == Head(batch).udata
    <3>1. Head(batch) \in Events
      BY <2>1, <1>a, HeadTailProperties, Zenon DEF TypeOK
    <3>2. f \in Io /\ f \in active \cap alive
      BY <2>1, <3>1, <1>a, Zenon DEF Events, Delivers, QueuesAgree
    <3>3. f \in Event /\ Api!Fire(f)
      BY <1>12, <2>1, <3>2, Zenon DEF fde_rw_runloop, StillActive, Api!Fire, Event
    <3> QED BY <3>3, Zenon DEF Api!Next
  <2>2. CASE batch = <<>> \/ ~Delivers(Head(batch))
    BY <1>12, <2>2, Zenon DEF fde_rw_runloop, Api!vars
  <2> QED BY <2>1, <2>2, Zenon
<1>13. CASE Tick
  <2>1. Api!Tick
    BY <1>13, <1>a, SMTT(30) DEF Tick, Api!Tick, timeVars
  <2> QED BY <2>1, Zenon DEF Api!Next
<1>14. ASSUME NEW d \in Fd, CloseFd(d) \/ OpenFd(d) PROVE UNCHANGED Api!vars
  BY <1>14, Zenon DEF CloseFd, OpenFd, Api!vars, timeVars
<1>15. CASE SetupDone \/ RunloopStart \/ fde_kq_flush \/ KqChange \/ KqReturn
  BY <1>15, Zenon DEF SetupDone, RunloopStart, fde_kq_flush, KqChange, KqReturn, Api!vars, timeVars
<1>16. ASSUME NEW k \in Keys, KqEvent(k) PROVE UNCHANGED Api!vars
  BY <1>16, Zenon DEF KqEvent, Api!vars, timeVars
<1>17. ASSUME NEW f \in Io, fde_ue_push(f) PROVE UNCHANGED Api!vars
  BY <1>17, Zenon DEF fde_ue_push, Api!vars, timeVars
<1>18. CASE UNCHANGED vars
  BY <1>18, Zenon DEF vars, Api!vars, timeVars
<1>19. CASE Call
  BY <1>1, <1>2, <1>3, <1>4, <1>5, <1>6, <1>7, <1>8, <1>14, <1>19, Zenon DEF Call, Api!Next
<1> QED
  BY <1>9, <1>10, <1>11, <1>12, <1>13, <1>15, <1>16, <1>17, <1>18, <1>19, Zenon DEF Next, Step

\* The event loop implements the specification of fde.h: it delivers only
\* events that are allocated and active, a timer never before its time, and
\* one callback at a time, for any number of events.
THEOREM ImplementsApi == Spec => ApiSpec
<1>1. Init => Api!Init
  BY BoundAssumption DEF Init, Api!Init, Time
<1>2. Inv /\ Inv' /\ [Next]_vars => [Api!Next]_(Api!vars)
  BY ApiNext, Zenon
<1> QED BY <1>1, <1>2, Invariant, PTL DEF Spec, ApiSpec, Api!Spec
=============================================================================
