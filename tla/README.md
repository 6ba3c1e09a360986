# Verification of libiapp

libiapp is a small C library for event driven network programs: an event loop
above kqueue (`fde`), sockets with operations in flight (`comm`), connections
(`conn`), worker threads (`thr`), buffers in shared memory (`shm_alloc`,
`netbuf`), and four test programs that use them (`srv`, `clt`, `udp_srv`,
`udp_clt`). This directory holds TLA+ models of the library and the programs, TLC configurations
that check them on small instances, and TLAPS proofs for every value of the
constants.

* `Fde`, `EventApi`: the event loop, and what it promises.
* `Comm`, `CommApi`: one comm object above the event layer, and what it promises.
* `TailQ`: the list operations of `sys/queue.h` that `Fde` and `ShmAlloc` use, on sequences. They are
  defined here so that a proof carries three operators and not a whole library of them.
* `ShmAlloc`: the shared memory allocator and the netbufs made from it.
* `Conn`, `Srv`: connections, and the TCP server that owns them.
* `Timeval`, `Clt`: `struct timeval`, and a thread of the TCP client.
* `Udp`: the UDP client and server, composed with `Comm`.
* `Debug`, `Thr`: the debug log, and groups of worker threads composed with it.
* `MCFde`, `MCComm`, `MCShmAlloc`, `MCSrv`, `MCClt`, `MCUdp`, `MCThr` with the `.cfg`
  files: the instances.
* `FdeProofs`, `FdeWaitProofs`, `CommProofs` (with `Udp`), `ShmProofs`, `SrvProofs`,
  `CltProofs`, `ThrProofs` and `ListLemmas`: the proofs.
* `PROJECT.json`: components, runs, mutants, the map from definitions to source
  lines, findings, hazards and theorems.

To check: `tlc -config fde_loop.cfg MCFde` (and so on for the other runs) and
`tlapm M.tla` for each `M` of the eight proof modules.

## The system

All paths are below `src/`; `fde.c` and the other library files are in
`src/lib/libiapp/`.

**Event loop (`fde.c`).** A thread owns a `struct fde_head`: a list of active
I/O events, a list of callbacks (`f_cb_head`), a list of timers (`f_t_head`), a
kqueue, and an array of changes waiting for the next `kevent` call. `fde_runloop`
reads the time, runs the callbacks queued before this pass (a generation number
tells them from those queued during it), runs the timers that are due, computes
how long it may sleep, and calls `kevent` with the changes; then it dispatches
the events. Owners create, add, delete and free events from inside the
callbacks. What makes it hard: callbacks that change the lists being walked, a
counter that wraps, events deleted or freed between being collected and being
dispatched, a change list that fills up and is flushed early, and changes that
fail.

**Comm objects (`comm.c`).** A comm has up to ten events, and operations (read,
write, accept, connect, UDP read, UDP write) of which several can be outstanding.
The events of a stream are edge triggered (`EV_CLEAR`), so readiness is remembered
in `is_ready`, and the operations run from scheduled callbacks. `comm_close`
cancels what is outstanding; when the last operation is answered the close
callback is made and the comm is freed. What makes it hard: the owner calls back
into `comm.c`, including `comm_close`, from a callback that a handler makes half
way.

**Shared memory (`shm_alloc.c`, `netbuf.c`).** Slabs are carved up from the
front; freed pieces go on the free list of their slab and are reused for requests
of exactly their size. A mutex protects the lists, but a piece is marked inactive
before the mutex is taken.

**Connections (`conn.c`)** write to a comm and are ended by EOF, by an error, at a
threshold, or by their owner. **Threads (`thr.c`)** run one loop each and are
stopped by a flag. **The debug log (`libidebug`)** keeps a
table of sections and a file that can be reopened. **`srv`** hands accepted
descriptors from one thread to another; **`clt`** keeps a number of connections
open; **`udp_clt`** refills a queue of datagrams from the write callbacks;
**`udp_srv`** counts what it receives. **`disk.c`** is a sketch: `disk_open`
builds an operation that nothing queues. `fd_util.c` and `iapp_cpu.c` are system
calls in a row, without state.

`comm` calls `fde` and is called by it; `conn` and the programs sit above `comm`;
`thr` calls `fde_runloop`; netbufs are passed to `comm_write` and the UDP queue.

## The models

### Fde and EventApi

`Fde` models the loop of one thread. Its variables are the fields of `struct fde`
(`active` is `is_active` and at the same time membership of `f_head`) and of `struct
fde_head`, the position of the thread in `fde_runloop` (`phase`), the event whose
callback is executing (`running`), and the world: the clock, the open descriptors
and the registrations in the kqueue. Each call of `fde.h` is an action; each loop of
`fde_runloop` is an action that handles one entry, so that owners' calls come
between any two entries, as they do when made from the callbacks. A flush of the
change list that happens inside a push is done step by step (`flush`), because
each change may be answered differently.

The kernel is external. From how `fde.c` uses it: a change whose key has no
registration is registered if it carries `EV_ADD`; otherwise `EV_DELETE` removes the
registration; a change for a closed descriptor fails; closing drops the
registrations; a one-shot event is removed when it is collected.

The programs keep duties that `fde.c` does not enforce. They close a descriptor
only after its events are deleted, do not reopen its number while a change for it
is queued, and do not free I/O events, or delete one-shot ones, from the dispatch
loop. The model assumes them unless the constant `Lax` names one, and the runs name none.
The proofs of `FdeProofs` assume none of them: they hold for every `Lax`. The two
theorems of `FdeWaitProofs` about registrations state the duties they need.

`EventApi` is the promise of `fde.h`: an event is delivered only while it is
allocated and active, a one-shot event is inactive when its callback runs, a timer
is never early, and one callback runs at a time. `Fde` instantiates it with the
variables of the same names, and `ApiSpec` says that `Fde` implements it.

### Comm and CommApi

`Comm` models one comm in one of four uses: an accepted stream, a client that connects
first, a listener, and a UDP socket. Owners never mix these uses on one descriptor.
Every operation and every handler is an action. A handler that calls the owner back is
split at that call: `pc` says what the handler still has to do, and while it is not
`"loop"` the owner may make any call it may make. `told` is the callback being executed.
The events behave as `EventApi` promises. The socket is external: two counters of what
can be received and what is in the send buffer, the peer's state and the state of a
connect; `edge` holds the `EV_CLEAR` notifications not yet collected. `write()` takes a
part of what is left (`len` minus `offset`), or answers `EAGAIN`, with or without room
in the send buffer (`comm.c:337` wonders about the latter) but not with an empty one:
then nothing would drain, and nothing would tell the comm to try again. `write()` of no
bytes returns 0. The four threads of `udp_srv` have one descriptor (`udp_srv.c:186`):
after an error of `recvfrom` the datagram may still be there, or another thread may have
it.

`CommApi` is the promise of `comm.h`: every callback answers an operation that is
outstanding, `FDE_COMM_CB_CLOSING` is said only of a closing comm, and the close
callback is made once, with nothing outstanding, and is the last. `out` and
`closed` are the refinement mapping.

The composition with `Fde` goes through the promise: `Comm` uses what `EventApi`
promises and `CallbackRuns` guarantees, and `FdeDuties` states what `Fde` asks in
return (never two active events on one key, and nothing but `ev_write` active when
the descriptor is closed).

### ShmAlloc

`ShmAlloc` models several threads that allocate and free netbufs. The code between
`pthread_mutex_lock` and `pthread_mutex_unlock` is one action, since everything it
touches is touched under the lock; `sha_isactive`, which is written before the lock
is taken, is changed by an action of its own (`iapp_netbuf_free`).
Failures are modelled: no slab from `shm_alloc_init`, no room, no memory for the
node. Sizes are unbounded naturals: the sum `shm_curofs + size` is assumed not to
wrap `size_t`. Netbufs may be freed by a thread other than the one that allocated
them; a netbuf is freed once.

### Conn and Srv

`Conn` is the state machine of a `struct conn`: a record per connection, with the
part of its comm that `conn.c` can see, and the handlers as operators on that
record. The comm is what `CommApi` promises: one answer to the outstanding write,
with any status; `CLOSING` after `comm_close`; the close callback last. A
connection is served by the thread that made it, so that each handler, with what
its owner does when it is told, is one step. `told` records what the owner was told.

`Srv` models the threads of `srv.c` and `main`. `pc` is where a thread is: not started,
between `pthread_create` and its loop, in its loop, in `thrsrv_newfd_enqueue` before or
after it has the lock, in `thrsrv_run_deferred` before or after it has it. The steps of
different threads interleave at the locks. Failures are modelled: `pthread_create`, the
entry of the list, `conn_new`, and a flow that cannot be read, which leaves any value.
`main` starts a thread after the first ones already accept, and a thread initialises its
own mutex, so a descriptor can be handed to a thread before its lock, or even its list,
is initialised. `early` is the set of threads that are inserting after having done so.
What it leads to is in the model: initialising the mutex forgets its holder, and an
insertion into a list that is not initialised, or that another thread uses at that
moment, may break it (`crashed`).

### Timeval and Clt

`Timeval` has `timeval_cmp`, the difference of `fde_t_get_timeout` and the sums the
programs make, on pairs. `Clt` is one thread of the client: the timer that opens
connections every 100 ms, the timer that prints statistics, and the life of each
connection, as in `Conn` but with a connect and reads. Times are relative to the
present second, so that the state space is finite; `left` is the time until a timer
should run, kept apart from the pair in which the program keeps it. `conn_new`
reads freed memory when `socket` fails (`clt.c:338`), which may end the program.

### Udp

`Udp` extends `Comm` and adds the owners: a thread of `udp_clt.c` and a thread of
`udp_srv.c`. Every step of the comm is `Comm`'s own action, conjoined with what the
program does in the callback. `heap` holds the frames that are allocated.

### Debug and Thr

`Debug` has the table of sections, the masks and the log file. `levels` holds the pairs
of a type of output and a section whose mask lets messages through; a call of
`debug_setmask` sets one of them, and an unknown type none. What a function does under
`debug_lock` is one step, except that closing the file, `debug_file = NULL` and opening
the next are three, because `do_debug` reads `debug_file` for its flush without the
lock. `Thr` extends it with a group of workers, each of which logs on every turn of its
loop, and the program that creates, starts, stops and joins them, as `src/thr/main.c`
does. A group that cannot be made ends the program, which goes on with `NULL`.
`overtaken` is the set of workers that had a message to flush when the file was closed.
The log is initialised and `libiapp_thr_init` has run: the programs call it right after
`debug_init`, so that its section (`thr.c:255`) is the first of the table.

## Runs

| run | result | question |
|---|---|---|
| `fde_loop` | holds | Two callbacks and two timers that add, delete and free each other while the clock runs: are the lists consistent (`QueuesAgree`), do generations tell old from new across the wrap (`GenerationsTell`), has every due timer run when the loop goes to sleep (`DueTimersRan`), does it wake in time (`NoOversleep`), does everything queued run (`CallbackRuns`, `TimerRuns`)? |
| `fde_io` | holds | A persistent reader, a one-shot writer and a user event over a change list of three entries: is what is active registered (`ActiveRegistered`), does freed memory disappear from the kernel and the event list (`FreeRemovesQueued`), do the lists fit (`ChangesFit`), is nothing inactive delivered and the promise kept (`ApiSpec`)? |
| `fde_timers` | violated | `DueTimersRan` with four timers. |
| `comm` | holds | All four uses with an owner that makes any call from any callback: is no handler entered for an operation that is over (`Expected`), has whatever is outstanding an event that brings its handler back (`Awaited`), does it keep its duties (`FdeDuties`) and its promise (`ApiSpec`), is every operation answered (`ReadAnswered`, `WriteAnswered`, `ConnectAnswered`, `FrameAnswered`), does the close of a stream end (`StreamCloseEnds`)? |
| `comm_connect` | violated | `CloseEnds` for a client. |
| `comm_cleanup` | violated | `CleanupInactive` for a stream. |
| `comm_eof` | violated | `EofIsPartial` for a stream: a write of at least one byte is taken whole, and the next `write()` answers it with EOF. |
| `shm` | holds | Two threads, two sizes, two slabs: do buffers in use overlap (`Disjoint`), is one lost or in two hands (`Accounted`), is the lock released (`LockReleased`)? |
| `srv` | holds | Two threads that start, accept and hand over, with every failure: is each descriptor in exactly one place until it is closed (`FdInOnePlace`), are comms used right and connections heard of again until they are freed (`CommUsedRight`), are owners told in order (`ToldInOrder`), does a list have one user at a time beside one that locked it too early, and is it broken only by such a one (`HandoverSafe`), is what is handed over adopted (`Adopted`), does a connection that is closed end (`ConnEnds`)? |
| `clt` | holds | A client thread with two connections out of three: is it never above its number (`ClientsCounted`), does it close comms only when nothing is outstanding and hear of each connection again (`CommUsedRight`), are timers due exactly when they should be (`TimerExact`), does it replace what ends (`KeepsOpening`, `ConnEnds`)? |
| `udp` | holds | Both UDP programs above `Comm`: is a frame allocated exactly while it is queued (`FramesOwned`), does the client keep sending (`KeepsSending`), is the server called back, with a datagram or an error, when one has arrived, also after errors (`DatagramAnswered`)? |
| `thr` | holds | Two workers and a main thread that changes masks and the log file at any time: is no mask stored beyond the table (`TypeOK`), is no closed file written to, none flushed but by a worker whose flush the close has overtaken, and no destroyed lock used (`LogSafe`), is every message flushed (`LogFlushed`), can a stopped group be joined (`GroupEnds`)? |

Each property of a passing run has a mutant in `PROJECT.json`: a change of one
definition, as a plausible slip in the code would be, that breaks the property on
the same instance. The slips are defined next to the definitions they replace.
Every safety property of a passing run is also proved for every value of the constants;
for four properties of `Fde` under conditions that the theorems name. Some of
what is proved is not repeated in the runs: the type
invariants of `Fde`, `Comm`, `ShmAlloc`, `Srv` and `Clt`, the size of a buffer
(`GivesWhatIsAsked`) and the bytes of a slab (`Tiled`), the counters of `Srv`
(`ClientsCounted`), what a pass over the callbacks runs (`PassStep`), the lives of
connections (`LifeStep`), `ApiSpec` for callbacks and timers, and what the liveness
properties of the programs rest on (`ClientWaits`, `Deferred`, `FlushOwed`).

### Bounds

* `GenMod = 2` makes the generation counter wrap on every other pass, the worst
  case for confusing generations; the proof covers every width from two up, and
  so 2^32.
* `MaxEvents = 3`, for `FDE_HEAD_MAXEVENTS`, makes flushes in the middle of a
  sequence of pushes common. The proof covers every size from two up.
* `MaxClock = 2` with two timers armed at least one instant ahead has timers due
  together, one after the other and during a pass, and timers that arm timers. At
  `MaxClock` time stops and `kevent` may return at any moment, so nothing waits for
  an instant that does not come. Four timers and `MaxClock = 4` are the smallest
  instance in which the order of the list goes wrong.
* In `fde_io` the clock stands still (`MaxClock = 0`): nothing there depends on it.
* `MaxLen = SndBuf = RcvBuf = 2` let a write be taken whole, in parts and not at
  all, and a receive buffer be empty, partly read and emptied. `MaxQlen = 2` with
  two datagrams fills the queue.
* `SlabSize = 3` with sizes 1 and 2 has slabs with and without room, remainders
  that fit one size only, and reuse; two slabs make the order of the search matter.
* Two server threads and two connections: a descriptor handed over while another is
  inserted, drained or refused, and a connection record used again. The flows
  include each of the eight values, so that both threads, and values beyond the
  number of threads, are chosen. The proofs cover any number of both.
* `Million = 4` and `Delay = 2` reach the sum that is exactly a second, with every
  microsecond of the second, and `MaxLate = 1` lets a timer run a second late. Three
  connections of which two may be open, and `connrate = 1`, have it open one, two
  and none. The proofs cover every `Million`, every delay below it, and any
  number of connections.
* In `udp.cfg` the queue holds three frames and the client queues two at a time, so
  that it is refused with the queue full and half way; a fourth frame is the one
  refused.
* In `thr.cfg` two sections fill the table, two names of which one may be missing,
  and two FILEs, so that one is open while the other is still being flushed. The main
  thread can switch the output to the log on and off, the one to stderr off, and names
  a type that does not exist.

`comm*.cfg`, `shm.cfg`, `srv.cfg`, `clt.cfg`, `udp.cfg` and `thr.cfg` switch the
deadlock check off, because these systems may stop: a comm is freed and nothing
follows; a failed `malloc` leaves the mutex of the allocator locked and every thread
may then wait for it; the programs may be ended by the memory errors that are
modelled, or by the last thread being joined. The event loop never stops, and
its runs check for deadlock.

### Fairness

* `Fde`: weak fairness of the thread's own steps (a callback returns, and the thread
  calls `fde_runloop` again, `thr.c:126`) and of the clock. Owners' calls and the
  arrival of events are not fair.
* `Comm`: weak fairness of the handlers' continuations (the owner's callback returns)
  and of the peer (it reads what it is sent and answers a connect); strong
  fairness of the handlers, because the owner's own events come in between and the
  event layer runs every active callback regardless (`CallbackRuns`), and delivers
  every event whose filter stays true. The peer is not assumed to send.
* `ShmAlloc`: weak fairness of the thread that owns the lock. No fairness of the
  mutex: nothing is claimed about a thread that waits for it.
* `Srv`: weak fairness of `main` and of a thread that is not in its loop; strong
  fairness of taking the lock of a list, whose other user holds it for a moment every
  100 ms; and strong fairness of the deferred timer and of the callbacks that a
  closing connection waits for, which `TimerRuns` of `Fde` and `WriteAnswered` and
  `StreamCloseEnds` of `Comm` guarantee. Clients need not connect, and no
  thread needs to accept.
* `Clt`: time passes, due timers run, and the comm makes its callbacks, for the same
  reasons; reads need not be answered. Opening a connection does not fail for ever.
* `Udp`: the owner's code goes on, the network takes what is sent, and the loop runs
  its timers and events.
* `Thr`: the main thread ends the calls it has begun and joins what it has stopped;
  workers go on, and get `debug_lock` because the others sleep a second between
  two messages.

## Findings

Each is a run that TLC finds violated, against a line of the repository.

* `fde_add_timeout` says "insertion sort" but its walk stops at the first entry that
  is due earlier than the new timer, which is the head. From four timers on, the list
  can be out of order, and a due timer waits behind one that is not (`fde_timers`).
* `comm_cb_connect` does not start the cleanup of a comm that was closed while it was
  connecting, which is then never closed (`comm_connect`).
* A comm closed during a write is freed with `ev_write` active, against the comment in
  `comm_cb_cleanup` (`comm_cleanup`).
* A write whose bytes were all taken is answered with `FDE_COMM_CB_EOF`, which the
  comment reserves for a partial one (`comm_eof`).

More things met on the way are in the models, as the behaviour the code has, and
most of them in the hazards of `PROJECT.json`:

* `fde_kq_flush` forgets the changes behind one that fails (`fde.c:205`). No change fails
  in the runs, because owners delete events before they close descriptors.
* `comm_cb_accept` goes on accepting when its owner has closed the comm, and adds
  `ev_accept` again (`comm.c:400`), where the comment at `comm.c:397-398` says that the loop
  drops out. No program closes a listener.
* An allocator whose first slab failed never makes another (`shm_alloc.c:38`), where the
  comment at `shm_alloc.c:34-35` says that the first allocation will.
* A failed `malloc` leaves the allocator locked (`shm_alloc.c:240`); `LockReleased` is about
  every other path.
* A descriptor can be handed to a thread of `srv` before its lock is initialised
  (`srv.c:277`); `HandoverSafe` says how far the damage goes.
* `do_debug` flushes `debug_file` without the lock (`debug.c:263`); `LogSafe` says which
  flush can meet a closed file.
* `fde_ue_push` always reports failure, since `kevent` is given no room for events
  (`fde.c:341`). Its one caller, `libiapp_thr_wakeup`, does not look, and nothing calls that.

## Proofs

### FdeProofs

For any sets of events, any identities and filters, any `Lax`, any `MaxEvents` and
`GenMod` of at least two (`EventAssumption`, `BoundAssumption`, `LaxAssumption`):

* `TypeCorrect`, `QueuesCorrect`, `GenerationsCorrect`, `ChangesCorrect`: `TypeOK`,
  `QueuesAgree`, `GenerationsTell` and `ChangesFit` are invariants;
* `PassIsExact`: a pass of `fde_cb_runloop` calls the callback at the front, one that was
  queued when the pass started, and ends only when all that is left was queued during
  it. It is an action property (`PassStep`), read off `GenerationsTell`: the safety part
  of `CallbackRuns`, and of `TimerRuns` behind it;
* `ImplementsApi`: `Fde` implements `EventApi`.

The inductive invariant is `Inv == TypeOK /\ Control /\ QueuesAgree /\ ChangesFit /\
GenerationsTell`. `Control` adds what the properties leave out: a flush happens only
inside a call and has one change behind it, the event list is empty until `kevent` is
called, callbacks run in the phases that run them, the time read at the start of a
pass is not in the future. It is needed because `ChangesFit` alone does not tell how
many changes a flush still has to hand over, and because a timer is taken when its
time is before `tv_now`, while `EventApi` speaks of the clock. `GenerationsTell` is
inductive given that a pass starts with every queued callback tagged with the value
of the counter, whatever its width, so that only two generations are ever in the queue.
Each `...Next` lemma has one step per action. `TimersBefore` is defined with `CHOOSE`;
`TimersBeforeProps` shows that it is a place in the list, and `UnlinkedProps`,
`TailProps`, `AppendProps` and `InsertAtProps` say what the list operations do.

### FdeWaitProofs

What holds while the thread waits in `kevent`, from the assumptions above and one
condition each.

`NoTimerLeftDue` and `SleepsInTime` (`DueTimersRan`, `NoOversleep`), for a thread with
at most three timers (`FewTimers`) and any number of callbacks and descriptors. Both
look at the head of the list only, so they need the list to be in order (`InOrder`).
A timer is linked while it is not queued, so there are at most two others
(`TwoQueued`), and among two the walk of `fde_add_timeout` stops at the right place
(`LinkedInOrder`). With four timers it does not: that is the run `fde_timers`, and the
bound of the theorems is exact.

`ActiveAreRegistered` and `NothingLeftQueued` (`ActiveRegistered`,
`FreeRemovesQueued`), when owners are careful and registrations do not fail
(`CarefulOwners`: `AddErrors` is empty, and `Lax` contains at most `"reuse_pending"`,
which cannot matter when no descriptor is closed too early). The difficulty is that
`kev.flags` keeps the bits of earlier calls: a change that re-adds an event looks
like one that deletes it, and what it does depends on the changes in front of it. The
invariant `KqInv` therefore says that there is a sequence `reg` of what the kqueue will
hold after each queued change (`Replays`), in which changes alternately make and drop
the knote of a key, and that the last of them holds the active events, except the
one-shot ones in the event list, and nothing else (`Settled`). Pushing a change makes
`reg` longer (`PushReplays`); the kernel applying one, in `kevent` or in a flush, makes
it shorter (`ChangeReplays`, which also shows that no change fails); while the thread
waits it has one entry, the kqueue itself. Each part of the condition is
needed: on the instance of `fde_io`, with any other member of `Lax`, or with
`"ENOMEM"` or `"EPIPE"` in `AddErrors`, TLC finds one of the two properties violated.

### CommProofs

For any uses, any sets of frames, any sizes of writes, buffers and queues
(`CommAssumption`):

* `HandlersExpected`, `DutiesKept`, `TypeCorrect`: `Expected`, `FdeDuties`, `TypeOK`;
* `NoWakeupLost`: `Awaited`;
* `ImplementsApi`: `Comm` implements `CommApi`;
* `UdpUsesComm`: every behaviour of `Udp` is one of `Comm`; `FramesAreOwned`: the client
  has allocated exactly the frames in its queue (for any rate, `UdpAssumption`);
* `ClientGoesOn`: whenever the UDP client waits, its timer is armed or its comm waits to
  send (`ClientWaits`). It is stated for a rate and a queue limit above 0: with either
  at 0 the client is asked to queue nothing, and does stop.

`Expected` speaks of the state a handler is entered in, and the owner may make any call
between two handlers. The inductive invariant adds: which operations a comm of each
use can have, and a client before it is connected (`Kinds`); what an active event tells
of its operation, and that the two events of a connect exclude each other
(`Scheduled`); what a handler half way through still relies on when the owner's
callback, which may have called `comm_close`, returns (`Pending`); that a cleanup is
begun only of a closing comm with nothing outstanding, and stays so, because no
operation can be started on a closing comm (`Ending`); and that no frame is in the queue
twice (`Queue`). `Ending` is why the close callback of `CommApi` finds nothing
outstanding. There is one lemma per action. Of `FramesOwned`, that `heap` is the set of
queued frames is added to the invariant, and that none is queued twice follows from
`Queue` (`QueueCount`).

`Awaited` is the other direction of `Expected`, and the safety part of the five liveness
properties of `Comm`: together with fairness of the handlers it says why they hold. It is
proved from an invariant of its own, `Await`, on top of the one above: `ReadAwaited` and
`WriteAwaited` say where a notification that was collected went (`r.ready` and `w.ready`,
or a scheduled callback) also while nothing is outstanding, because the next `comm_read`
or `comm_write` relies on it; `FramesAwaited` ties `is_primed` to `ev_udp_write`, so that
a frame is never appended to a queue nobody drains; `EndAwaited` says that the handler
that answers the last operation of a closing comm has its cleanup before it. A client is
left out of the last part, which is the finding of `comm_connect`; and it says nothing of
a UDP comm that is closed with an empty queue, which never has nothing outstanding,
because nothing clears its `udp_w.is_active` (`comm.c:949`).
`ClientGoesOn` follows from `FramesAwaited` and `GoesOn`: every answer to a datagram arms
the timer, a timer that finds room has queued a frame when it ends, and one that finds
the queue full leaves it so.

### ThrProofs

For any number of threads, files, names and sections (`DebugAssumption`,
`ThrAssumption`): `LogIsSafe` and `TypeCorrect` (`LogSafe`, `TypeOK`), and
`LogIsFlushed`. `Workers` says that only a worker in its loop is writing a message, and
where there can be workers: none before the group is started or once it is joined.
`Files` says that `debug_file` is open or `NULL` unless the main thread has the lock,
and that while a worker that is not `overtaken` is about to flush, nobody closes the
file, and what it is about to flush is open. `SectionFound` bounds the number that the
search for a section returns, so that the test before the store is enough for `TypeOK`.
It uses that a set of naturals has a least element (`LeastNumber`, from `WFMin` of the
library). `LogIsFlushed` is the safety part of `LogFlushed`: a file with messages that
are not flushed is `debug_file`, and some worker is on its way to flush it
(`FlushOwed`), although `do_debug` looks at `debug_file` again after it has released the
lock; so nothing is left unflushed when the workers are joined (`LogComplete`).

### ShmProofs

For any threads, any set of positive sizes, any slab size and number of slabs
(`ShmAssumption`):

* `DisjointCorrect`: buffers in use do not overlap and lie within their slabs;
* `AccountedCorrect`: no buffer is lost or in two hands;
* `SizesCorrect`: a buffer has the size asked for, an action property;
* `NoByteLost`: every byte below `shm_curofs` belongs to exactly one buffer (`Tiled`);
* `ShmTypeCorrect`: `TypeOK`.

`Disjoint` speaks of the buffers in use and is not inductive, because a free one may
come back into use. `Carved` states it for every piece ever carved off, and that each
lies below `shm_curofs`: a new piece starts there, and a piece is reused as it is.
`Known` says that lists and threads hold pieces that exist. `Accounted` is restated
as `Hands` and `Lists`, one fact for each pair of places a piece can be in (in use, on
its way back in a thread, on a list), which is what a step moves it between;
`HandsAccount` shows that they imply `Accounted`. `ListLemmas` says what removing an
entry from a list, and putting one at its head, do to the others. For `NoByteLost`,
`Covered` is added to the invariant: a new piece takes all bytes between the old
`shm_curofs` and the new, and no piece is ever moved. That no byte has two owners is
`Carved`.

### SrvProofs

For any positive number of threads and any set of connections (`SrvAssumption`):

* `HandoverIsSafe`: `HandoverSafe`;
* `DescriptorsInOnePlace`: `FdInOnePlace`;
* `ThreadsCountClients`, `ConnsUseCommsRight`, `OwnersToldInOrder`, `ServerTypes`:
  `ClientsCounted`, `CommUsedRight`, `ToldInOrder` and `TypeOK`;
* `ConnsLiveInOrder`: every step takes each connection along its life or leaves it alone
  (`LifeStep`), an action property;
* `DeferredKept`: the timer that adopts handed-over descriptors is armed whenever its
  thread is in the loop (`Deferred`), the safety part of `Adopted`.

`LockInv` says that a thread inside a list, but for the `early` ones, holds the lock of
that list, and that the lock is initialised; with it, the users of a list that are not
early are a subset of the one holder. `thrsrv_new` resets only the lock of a thread that
has not initialised it, which only an early thread can hold; and an early thread that
unlocks a lock it no longer holds releases nobody else's.

`PlaceInv` is the counting of `FdInOnePlace` turned into facts a step can preserve: no
descriptor is twice in hands, lists or connections (`Once`), what is in a hand or on a
list is open and belongs to no connection (`Kept`), and what is open is somewhere
(`Found`). It also says that a connection is in one of a few phases
(`Phases`), which a write outstanding, a pending close or a pending cleanup identifies;
`AnswerPhase` and `EndPhase` show which handler leads from which to which.
`OnePlace` gets the cardinality from it, and `CommUsedRight`, `ToldInOrder` and
`LifeStep` can be read off the phases. `LifeStep` also shows that `conn.c` closes a comm
only when its write has been answered, and so never meets the case of `comm_cleanup`. `CountInv` adds the counter: a connection is added when it is on
no list, by `Kept`. `PlaceInv` does not need the lock: even with the race on
the list, and until it breaks the list, no descriptor is lost.

### CltProofs

For any finite set of connections, any `nconns`, `connrate`, `MaxLate`, any `Million`
and any delay of at least one and less than `Million` (`CltAssumption`,
`TimevalAssumption`): `TimersAreExact`, `ClientsAreCounted`, `CommsAreUsedRight`,
`ConnsLiveInOrder`, `TypeCorrect`. `TimeInv` relates the pair of a timer to the time that is left, by
cases of its seconds (`Placed`); it is needed because a pair with `tv_usec` equal to a
million is compared, and subtracted, field by field. `LifeInv` has the phases of a
connection, as above, and says that the list holds those in use. `ConnsLiveInOrder` shows
that the client never closes a comm that is connecting, the case of `comm_connect`.

### What stays with TLC

* Liveness (`CallbackRuns`, `TimerRuns`, the answers of `Comm`, `LockReleased`,
  `Adopted`, `ConnEnds`, `KeepsOpening`, `KeepsSending`, `DatagramAnswered`,
  `LogFlushed`, `GroupEnds`): temporal reasoning with fairness and `ENABLED` is out of
  the prover's reach. What each rests on in every state is proved where it can be said
  without it: `PassIsExact`, `NoTimerLeftDue`, `SleepsInTime`, `NoWakeupLost`,
  `ClientGoesOn`, `DeferredKept`, `CommUsedRight` and `LogIsFlushed`.
* What is violated, and the reachability of the cases that make the properties
  interesting: the mutants and the findings are runs.

## Not modelled

* `comm_mark_nonclose` and `comm_set_nonblocking`, the failure path of `comm_create`,
  and the memory of UDP frames beyond its failure.
* `NB_ALLOC_MALLOC` netbufs, which are `malloc` and `free`; the system calls in
  `shm_alloc_new_slab`, which are one outcome.
* In `Fde` time is one number; the pairs are in `Timeval` and `Clt`.
* Statistics, options, logging of the programs and the wording of messages; syslog and
  stderr in `libidebug`.
* `client_read_cb` of `conn.c` and `conn_write_cb` of `clt.c`, which are compiled and
  never registered; `libiapp_thr_group_free`, which is empty; `libiapp_thr_wakeup`,
  whose event is never added to the kqueue, so that it changes nothing.
* CPU pinning in `srv`, and the timer with which it prints statistics.
* `disk` (nothing happens to an operation), `fd_util` and `iapp_cpu` (no state).

## Plan

`Srv` and `Clt` above `Comm` itself, with several comms, instead of what `CommApi`
promises, as `Udp` is.

`PROJECT.json` lists the hazards with the properties that watch them, and says of the
few that have none why.
