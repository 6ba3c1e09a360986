-------------------------------- MODULE Fde ---------------------------------
(***************************************************************************)
(* The event loop of one thread: struct fde_head and struct fde, the calls *)
(* an owner makes on them from its callbacks, and fde_runloop.  The kernel *)
(* side of the kqueue is external and is modelled from how fde.c uses it.  *)
(***************************************************************************)
EXTENDS TailQ, FiniteSets

CONSTANTS Cb,         \* events of type FDE_T_CALLBACK
          Timer,      \* events of type FDE_T_TIMER
          Io,         \* events of type FDE_T_READ, FDE_T_WRITE or FDE_T_USER
          Persist,    \* events created with FDE_F_PERSIST
          Ident,      \* the kevent ident of each Io event: a descriptor or,
                      \* for FDE_T_USER, the event itself
          Filter,     \* the kevent filter of each Io event
          None,       \* no event
          MaxEvents,  \* FDE_HEAD_MAXEVENTS
          GenMod,     \* number of values of the uint32_t f_cb_genid
          MaxClock,   \* the last instant considered
          MaxTimeout, \* the timeout the thread passes to fde_runloop
          MinDelay,   \* owners arm timers at least this far ahead
          AddErrors,  \* errors the kernel may answer a registration with
          Lax         \* duties of an owner that are not kept, see below

Event == Cb \cup Timer \cup Io
Key(f) == <<Ident[f], Filter[f]>>
Keys == {Key(f) : f \in Io}
Fd == {Ident[f] : f \in {g \in Io : Filter[g] # "USER"}}
Time == 0..MaxClock

ASSUME EventAssumption ==
    /\ Cb \cap Timer = {} /\ Cb \cap Io = {} /\ Timer \cap Io = {}
    /\ Persist \subseteq Io
    /\ None \notin Event
    /\ \A f \in Io : Filter[f] \in {"READ", "WRITE", "USER"}

ASSUME BoundAssumption ==
    /\ MaxEvents \in Nat \ {0, 1}
    /\ GenMod \in Nat \ {0, 1}
    /\ MaxClock \in Nat /\ MaxTimeout \in Nat /\ MinDelay \in Nat

\* "close_active": close a descriptor while an event on it is active or a
\* change naming it is queued.  "reuse_pending": open a descriptor while a
\* change naming its number is queued.  "free_in_io": free an Io event from a
\* callback of the dispatch loop of fde_rw_runloop.  "delete_in_io": delete a
\* one-shot event there.
ASSUME LaxAssumption ==
    /\ Lax \subseteq {"close_active", "reuse_pending", "free_in_io", "delete_in_io"}
    /\ AddErrors \subseteq {"EPIPE", "ENOMEM"}

VARIABLES
    \* struct fde
    alive,    \* allocated events
    active,   \* is_active, which is also membership of f_head
    tv,       \* tv: when a timer is due
    fgen,     \* f_cb_genid of an event
    kev,      \* EV_ADD and EV_DELETE bits kept in kev.flags
    \* struct fde_head
    cbq,      \* f_cb_head
    tq,       \* f_t_head
    genid,    \* f_cb_genid
    pending,  \* pending.kev_list, of length pending.n
    batch,    \* the part of kev_list not yet dispatched
    \* the thread
    phase,    \* where fde_runloop is
    running,  \* the event whose callback is executing, or None
    cur,      \* cur_genid of fde_cb_runloop
    now,      \* tv_now of fde_runloop
    wake,     \* when the kevent call times out
    flush,    \* changes fde_kq_flush still has to hand to the kernel
    \* the world
    clock,    \* gettimeofday
    open,     \* open descriptors
    knote,    \* the udata registered under each key of the kqueue
    trig,     \* user events triggered and not yet collected
    \* history, read by no action
    fresh     \* callbacks queued since fde_cb_runloop last started

cbVars   == <<cbq, fgen, genid, cur, fresh>>
timeVars == <<tq, tv, now, wake>>
kqVars   == <<kev, pending, flush, batch, open, knote, trig>>
vars == <<alive, active, phase, running, clock, cbVars, timeVars, kqVars>>

Init ==
    /\ alive = {} /\ active = {}
    /\ tv = [f \in Event |-> 0]
    /\ fgen = [f \in Event |-> 0]
    /\ kev = [f \in Io |-> {}]
    /\ cbq = <<>> /\ tq = <<>> /\ pending = <<>> /\ batch = <<>>
    /\ genid = 0 /\ cur = 0
    /\ phase = "setup" /\ running = None
    /\ clock = 0 /\ now = 0 /\ wake = 0 /\ flush = 0
    /\ open = Fd
    /\ knote = [k \in Keys |-> None]
    /\ trig = {} /\ fresh = {}

-----------------------------------------------------------------------------
(* The kernel. *)

\* What the kernel may answer a change.  A key with no knote is registered
\* by any change carrying EV_ADD, whatever else it carries.
Answers(ch) ==
    IF ch.key[2] # "USER" /\ ch.key[1] \notin open THEN {"EBADF"}
    ELSE IF knote[ch.key] # None THEN {"OK"}
    ELSE IF "ADD" \in ch.flags THEN {"OK"} \cup AddErrors
    ELSE {"ENOENT"}

\* A change the kernel accepts: EV_DELETE drops a knote that exists.
Apply(ch) ==
    LET drop == knote[ch.key] # None /\ "DELETE" \in ch.flags
    IN  /\ knote' = [knote EXCEPT ![ch.key] = IF drop THEN None ELSE ch.udata]
        /\ trig' = IF drop THEN trig \ {ch.key} ELSE trig

\* An owner closes or opens a descriptor.  Closing drops its knotes.
InHandler == flush = 0 /\ (running # None \/ phase = "setup")

CloseFd(d) ==
    /\ InHandler /\ d \in open
    /\ \/ "close_active" \in Lax
       \/ /\ \A f \in active \cap Io : Ident[f] # d
          /\ \A i \in DOMAIN pending : pending[i].key[1] # d
    /\ open' = open \ {d}
    /\ knote' = [k \in Keys |-> IF k[1] = d /\ k[2] # "USER" THEN None ELSE knote[k]]
    /\ UNCHANGED <<alive, active, phase, running, clock, cbVars, timeVars,
                   kev, pending, flush, batch, trig>>

OpenFd(d) ==
    /\ InHandler /\ d \in Fd \ open
    /\ \A f \in alive \cap Io : Ident[f] # d
    /\ \/ "reuse_pending" \in Lax
       \/ \A i \in DOMAIN pending : pending[i].key[1] # d
    /\ open' = open \cup {d}
    /\ UNCHANGED <<alive, active, phase, running, clock, cbVars, timeVars,
                   kev, pending, flush, batch, knote, trig>>

Tick ==
    /\ clock < MaxClock
    /\ clock' = clock + 1
    /\ UNCHANGED <<alive, active, phase, running, cbVars, timeVars, kqVars>>

-----------------------------------------------------------------------------
(* The calls an owner makes, from a callback or before the loop starts. *)

fde_create(f) ==
    /\ InHandler /\ f \notin alive
    /\ f \in Io /\ Filter[f] # "USER" => Ident[f] \in open
    /\ alive' = alive \cup {f}
    /\ tv' = [tv EXCEPT ![f] = 0]
    /\ fgen' = [fgen EXCEPT ![f] = 0]
    /\ kev' = [g \in Io |-> IF g = f THEN {} ELSE kev[g]]
    /\ UNCHANGED <<active, phase, running, clock, cbq, genid, cur, fresh,
                   tq, now, wake, pending, flush, batch, open, knote, trig>>

\* The test fde_kq_flush starts with, and a slip of it: off by one.
Full_late == Len(pending) > MaxEvents
Full == Len(pending) >= MaxEvents - 1

\* fde_kq_push: queue a copy of the change; fde_kq_flush first, when full.
fde_kq_push(f, bits) ==
    /\ kev' = [kev EXCEPT ![f] = @ \cup bits]
    /\ pending' = Append(pending, [key |-> Key(f), udata |-> f,
                                   flags |-> kev[f] \cup bits])
    /\ flush' = IF Full THEN Len(pending) ELSE 0

\* The kevent call of fde_kq_flush has no room for errors: the first change
\* that fails ends it, and pending.n = 0 then forgets the ones after it.
fde_kq_flush ==
    /\ flush > 0
    /\ \/ /\ "OK" \in Answers(Head(pending))
          /\ Apply(Head(pending))
          /\ pending' = Tail(pending)
          /\ flush' = flush - 1
       \/ /\ Answers(Head(pending)) # {"OK"}
          /\ pending' = <<Last(pending)>>
          /\ flush' = 0
          /\ UNCHANGED <<knote, trig>>
    /\ UNCHANGED <<alive, active, phase, running, clock, cbVars, timeVars,
                   kev, batch, open>>

\* fde_rw_add and fde_ue_add.  Two events on one key are never active at
\* once: comm.c leaves it to the owner not to mix their uses.
fde_rw_add(f) ==
    /\ InHandler /\ f \in alive \ active
    /\ Filter[f] # "USER" => Ident[f] \in open
    /\ \A g \in (active \cap Io) \ {f} : Key(g) # Key(f)
    /\ fde_kq_push(f, {"ADD"})
    /\ active' = active \cup {f}
    /\ UNCHANGED <<alive, phase, running, clock, cbVars, timeVars,
                   batch, open, knote, trig>>

\* The EV_DELETE of fde_rw_delete, and a slip: it is not queued.
push_delete_lost(f) == UNCHANGED <<kev, pending, flush>>
push_delete(f) == fde_kq_push(f, {"DELETE"})

\* fde_rw_delete and fde_ue_delete; fde_free continues with free().
fde_rw_delete(f, gone) ==
    /\ InHandler /\ f \in alive \cap active
    /\ push_delete(f)
    /\ active' = active \ {f}
    /\ alive' = alive \ gone
    /\ UNCHANGED <<phase, running, clock, cbVars, timeVars,
                   batch, open, knote, trig>>

\* TAILQ_INSERT_TAIL, and a slip: TAILQ_INSERT_HEAD.
LinkedFirst(q, f) == <<f>> \o q
LinkedLast(q, f) == Append(q, f)

fde_cb_add(f) ==
    /\ InHandler /\ f \in alive \ active
    /\ active' = active \cup {f}
    /\ fgen' = [fgen EXCEPT ![f] = genid]
    /\ cbq' = LinkedLast(cbq, f)
    /\ fresh' = fresh \cup {f}
    /\ UNCHANGED <<alive, phase, running, clock, genid, cur, timeVars, kqVars>>

\* A slip of TAILQ_REMOVE: f stays linked.
StaysLinked(q, f, q2) == q2 = q

\* TAILQ_REMOVE: q2 is q without its only occurrence of f.
Unlinked(q, f, q2) == \E i \in DOMAIN q : q[i] = f /\ q2 = RemoveAt(q, i)

fde_cb_delete(f, gone) ==
    /\ InHandler /\ f \in alive \cap active
    /\ active' = active \ {f}
    /\ Unlinked(cbq, f, cbq')
    /\ fresh' = fresh \ {f}
    /\ alive' = alive \ gone
    /\ UNCHANGED <<phase, running, clock, fgen, genid, cur, timeVars, kqVars>>

\* Slip: the new timer is always linked last.
timer_link_last(q, f, t) == Append(q, f)

\* The number of entries of q that fde_add_timeout leaves in front of a timer
\* due at t.  Its walk ends at the first entry that is due earlier than t.
TimersBefore(q, t) ==
    IF q = <<>> \/ t <= tv[Head(q)] THEN 0
    ELSE IF t >= tv[Last(q)] THEN Len(q)
    ELSE CHOOSE i \in DOMAIN q : /\ t > tv[q[i]]
                                 /\ \A j \in 1..(i-1) : t <= tv[q[j]]

TimerLink(q, f, t) == InsertAt(q, TimersBefore(q, t) + 1, f)

fde_add_timeout(f, t) ==
    /\ InHandler /\ f \in alive \ active
    /\ active' = active \cup {f}
    /\ tv' = [tv EXCEPT ![f] = t]
    /\ tq' = TimerLink(tq, f, t)
    /\ UNCHANGED <<alive, phase, running, clock, cbVars, now, wake, kqVars>>

fde_t_delete(f, gone) ==
    /\ InHandler /\ f \in alive \cap active
    /\ active' = active \ {f}
    /\ Unlinked(tq, f, tq')
    /\ alive' = alive \ gone
    /\ UNCHANGED <<phase, running, clock, cbVars, tv, now, wake, kqVars>>

\* fde_free of an event that is not active.
free(f) ==
    /\ InHandler /\ f \in alive \ active
    /\ alive' = alive \ {f}
    /\ UNCHANGED <<active, phase, running, clock, cbVars, timeVars, kqVars>>

MayFree(f) == f \in Io => phase # "io" \/ "free_in_io" \in Lax

MayDelete(f) == f \in Persist \/ phase # "io" \/ "delete_in_io" \in Lax

Call ==
    \/ \E f \in Event : fde_create(f) \/ (MayFree(f) /\ free(f))
    \/ \E f \in Cb : fde_cb_add(f) \/ \E gone \in {{}, {f}} : fde_cb_delete(f, gone)
    \/ \E f \in Timer : \/ \E t \in (clock + MinDelay)..MaxClock : fde_add_timeout(f, t)
                        \/ \E gone \in {{}, {f}} : fde_t_delete(f, gone)
    \/ \E f \in Io : \/ fde_rw_add(f)
                     \/ MayDelete(f) /\ fde_rw_delete(f, {})
                     \/ MayFree(f) /\ fde_rw_delete(f, {f})
    \/ \E d \in Fd : CloseFd(d) \/ OpenFd(d)

-----------------------------------------------------------------------------
(* fde_runloop. *)

SetupDone ==
    /\ phase = "setup" /\ flush = 0
    /\ phase' = "top"
    /\ UNCHANGED <<alive, active, running, clock, cbVars, timeVars, kqVars>>

Return ==
    /\ running # None /\ flush = 0
    /\ running' = None
    /\ UNCHANGED <<alive, active, phase, clock, cbVars, timeVars, kqVars>>

\* f_cb_genid++, and a slip: it does not advance.
SameGen(g) == g
NextGen(g) == (g + 1) % GenMod

\* gettimeofday, and the start of fde_cb_runloop.
RunloopStart ==
    /\ phase = "top"
    /\ phase' = "cb"
    /\ now' = clock
    /\ cur' = genid
    /\ genid' = NextGen(genid)
    /\ fresh' = {}
    /\ UNCHANGED <<alive, active, running, clock, cbq, fgen, tq, tv, wake, kqVars>>

CbReady == cbq # <<>> /\ fgen[Head(cbq)] = cur

fde_cb_runloop ==
    /\ phase = "cb" /\ running = None
    /\ \/ /\ CbReady
          /\ cbq' = Tail(cbq)
          /\ active' = active \ {Head(cbq)}
          /\ fresh' = fresh \ {Head(cbq)}
          /\ running' = Head(cbq)
          /\ UNCHANGED phase
       \/ /\ ~CbReady
          /\ phase' = "timer"
          /\ UNCHANGED <<cbq, active, fresh, running>>
    /\ UNCHANGED <<alive, clock, fgen, genid, cur, timeVars, kqVars>>

\* Slip: the sleep is taken from the last timer of the list.
t_get_timeout_last == IF tq = <<>> THEN MaxTimeout ELSE tv[Last(tq)] - now

\* The rest of fde_runloop up to the kevent call: how long it may sleep.
fde_t_get_timeout ==
    IF tq = <<>> THEN MaxTimeout
    ELSE IF now >= tv[Head(tq)] THEN 0
    ELSE tv[Head(tq)] - now

TimerReady == tq # <<>> /\ now >= tv[Head(tq)]

fde_t_runloop ==
    /\ phase = "timer" /\ running = None
    /\ \/ /\ TimerReady
          /\ tq' = Tail(tq)
          /\ active' = active \ {Head(tq)}
          /\ running' = Head(tq)
          /\ UNCHANGED <<phase, wake>>
       \/ /\ ~TimerReady
          /\ wake' = clock + (IF cbq # <<>> THEN 0 ELSE fde_t_get_timeout)
          /\ phase' = "change"
          /\ UNCHANGED <<tq, active, running>>
    /\ UNCHANGED <<alive, clock, cbVars, tv, now, kqVars>>

\* The kevent call of fde_rw_runloop: it applies the queued changes, an error
\* taking a place in the event list, ...
KqChange ==
    /\ phase = "change"
    /\ \/ /\ pending # <<>>
          /\ pending' = Tail(pending)
          /\ \E a \in Answers(Head(pending)) :
                IF a = "OK"
                THEN Apply(Head(pending)) /\ UNCHANGED batch
                ELSE /\ batch' = Append(batch, [key |-> Head(pending).key, err |-> a,
                                                udata |-> Head(pending).udata])
                     /\ UNCHANGED <<knote, trig>>
          /\ UNCHANGED phase
       \/ /\ pending = <<>>
          /\ phase' = "scan"
          /\ UNCHANGED <<pending, batch, knote, trig>>
    /\ UNCHANGED <<alive, active, running, clock, cbVars, timeVars,
                   kev, flush, open>>

\* ... then collects events that are ready, each knote at most once, ...
KqEvent(k) ==
    /\ phase = "scan" /\ knote[k] # None /\ Len(batch) < MaxEvents
    /\ k[2] = "USER" => k \in trig
    /\ \A i \in DOMAIN batch : batch[i].err = "OK" => batch[i].key # k
    /\ batch' = Append(batch, [key |-> k, err |-> "OK", udata |-> knote[k]])
    /\ knote' = IF knote[k] \in Persist THEN knote ELSE [knote EXCEPT ![k] = None]
    /\ trig' = trig \ {k}
    /\ UNCHANGED <<alive, active, phase, running, clock, cbVars, timeVars,
                   kev, pending, flush, open>>

\* ... and returns once there are some or the timeout has passed.
KqReturn ==
    /\ phase = "scan"
    /\ batch # <<>> \/ clock >= wake \/ clock = MaxClock
    /\ phase' = "io"
    /\ UNCHANGED <<alive, active, running, clock, cbVars, timeVars, kqVars>>

\* The dispatch loop of fde_rw_runloop.  Every error but EPERM and EPIPE is
\* skipped before the event it names is looked at.
Looked(e) == e.err \in {"OK", "EPIPE"}

\* Whether the callback is called, and a slip: is_active is not looked at.
Delivers_inactive(e) == Looked(e)
Delivers(e) == Looked(e) /\ e.udata \in active

\* What stays active after f is delivered, and a slip: one-shot events do.
StillActive_all(f) == active
StillActive(f) == IF f \in Persist THEN active ELSE active \ {f}

fde_rw_runloop ==
    /\ phase = "io" /\ running = None
    /\ \/ /\ batch # <<>>
          /\ LET f == Head(batch).udata
             IN  IF Delivers(Head(batch))
                 THEN running' = f /\ active' = StillActive(f)
                 ELSE UNCHANGED <<running, active>>
          /\ batch' = Tail(batch)
          /\ UNCHANGED <<phase, now, wake>>
       \/ /\ batch = <<>>
          /\ phase' = "top"
          /\ now' = 0 /\ wake' = 0
          /\ UNCHANGED <<running, active, batch>>
    /\ UNCHANGED <<alive, clock, cbVars, tq, tv, kev, pending, flush, open,
                   knote, trig>>

\* Another thread: trigger a user event that is registered.  What is returned,
\* a failure always since kevent is given no room for events, nobody looks at.
fde_ue_push(f) ==
    /\ Filter[f] = "USER"
    /\ knote[Key(f)] # None
    /\ trig' = trig \cup {Key(f)}
    /\ UNCHANGED <<alive, active, phase, running, clock, cbVars, timeVars,
                   kev, pending, flush, batch, open, knote>>

Step == \/ SetupDone \/ Return \/ RunloopStart \/ fde_cb_runloop
        \/ fde_t_runloop \/ fde_kq_flush \/ KqChange \/ KqReturn
        \/ fde_rw_runloop

Next == \/ Call \/ Step \/ Tick
        \/ \E k \in Keys : KqEvent(k)
        \/ \E f \in Io : fde_ue_push(f)

Spec == Init /\ [][Next]_vars

\* A callback returns, the thread keeps running fde_runloop (thr.c:126) and
\* time passes.
FairSpec == Spec /\ WF_vars(Step) /\ WF_vars(Tick)
-----------------------------------------------------------------------------
(* Properties. *)

Changes == [key : Keys, udata : Io, flags : SUBSET {"ADD", "DELETE"}]
Events == [key : Keys, udata : Io, err : {"OK", "EBADF", "ENOENT", "EPIPE", "ENOMEM"}]

\* Every variable holds a value of the C type it models.
TypeOK ==
    /\ alive \subseteq Event /\ active \subseteq Event
    /\ tv \in [Event -> Time] /\ fgen \in [Event -> 0..(GenMod - 1)]
    /\ kev \in [Io -> SUBSET {"ADD", "DELETE"}]
    /\ cbq \in Seq(Cb) /\ tq \in Seq(Timer)
    /\ genid \in 0..(GenMod - 1) /\ cur \in 0..(GenMod - 1)
    /\ pending \in Seq(Changes) /\ batch \in Seq(Events)
    /\ phase \in {"setup", "top", "cb", "timer", "change", "scan", "io"}
    /\ running \in Event \cup {None}
    /\ now \in Time /\ clock \in Time /\ wake \in Nat /\ flush \in Nat
    /\ open \subseteq Fd
    /\ knote \in [Keys -> Io \cup {None}]
    /\ trig \subseteq Keys
    /\ fresh \subseteq Cb

Once(q) == \A i, j \in DOMAIN q : q[i] = q[j] => i = j

\* is_active and the lists agree: f_cb_head and f_t_head hold each active
\* callback and timer once and nothing else, and every active event is
\* allocated, so that no list is walked through freed memory (fde.c:182-195,
\* 350-385).
QueuesAgree ==
    /\ Once(cbq) /\ Once(tq)
    /\ Range(cbq) = active \cap Cb
    /\ Range(tq) = active \cap Timer
    /\ active \subseteq alive

\* The generation tag tells the callbacks queued before a pass from those
\* queued during it, although the counter wraps (fde.c:508-529): during the
\* pass the former carry cur_genid and stand in front, between passes every
\* queued callback carries the counter's value, so the next pass runs it.
GenerationsTell ==
    /\ phase = "cb" =>
         /\ \A i \in DOMAIN cbq : fgen[cbq[i]] = cur <=> cbq[i] \notin fresh
         /\ \A i, j \in DOMAIN cbq : i < j /\ cbq[i] \in fresh => cbq[j] \in fresh
    /\ phase # "cb" => \A i \in DOMAIN cbq : fgen[cbq[i]] = genid

\* When fde_t_runloop stops no timer is due any more (fde.c:579-583: "If the
\* current time is less than the event time, break out; we can't call
\* anything else in the list.").
DueTimersRan ==
    phase \in {"change", "scan"} => \A i \in DOMAIN tq : tv[tq[i]] > now

\* The kevent call does not block while a callback is queued, and it returns
\* for each timer no later than the timer's time plus the time the callbacks
\* took since tv_now was read (fde.c:531-570, 749-760).
NoOversleep ==
    phase \in {"change", "scan"} =>
        /\ cbq # <<>> => wake <= clock
        /\ \A i \in DOMAIN tq : wake - tv[tq[i]] <= clock - now

\* The change list never overruns its array, and the event list has a place
\* for the error of every queued change (fde.c:197-234, 606-620).
ChangesFit ==
    /\ Len(pending) <= MaxEvents
    /\ flush = 0 => Len(pending) <= MaxEvents - 1
    /\ phase = "change" => Len(batch) + Len(pending) <= MaxEvents - 1

\* While the thread waits in kevent every active event of an open descriptor
\* is registered with the kernel under its own address, or has been
\* collected and is about to be dispatched.
ActiveRegistered ==
    phase = "scan" => \A f \in active \cap Io :
        \/ Filter[f] # "USER" /\ Ident[f] \notin open
        \/ knote[Key(f)] = f
        \/ \E i \in DOMAIN batch : batch[i].udata = f /\ Looked(batch[i])

\* fde.h:125-129, fde_free: "this removes all of the queued state".  While the
\* thread waits in kevent no knote leads to freed memory, and no entry of the
\* event list that will be looked at does.
FreeRemovesQueued ==
    /\ phase = "scan" => \A k \in Keys : knote[k] \in alive \cup {None}
    /\ \A i \in DOMAIN batch : Looked(batch[i]) => batch[i].udata \in alive

Api == INSTANCE EventApi

\* The loop keeps the promises of fde.h: it delivers only events that are
\* allocated and active, a timer at or after its time, one at a time.
ApiSpec == Api!Spec

\* A queued callback is run (or deleted by its owner), however many callbacks
\* the others queue.
CallbackRuns == \A f \in Cb : f \in active ~> f \notin active

\* A timer that is due is run (or deleted).
TimerRuns == \A f \in Timer : f \in active /\ tv[f] <= clock ~> f \notin active
=============================================================================
