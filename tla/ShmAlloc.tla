------------------------------ MODULE ShmAlloc ------------------------------
(***************************************************************************)
(* The shared memory allocator (shm_alloc.c) and the network buffers made  *)
(* from it (netbuf.c), used by several threads at once.  A slab is carved  *)
(* up from the front; a buffer that is given back goes on the free list of *)
(* its slab and is handed out again to a request of exactly its size.      *)
(***************************************************************************)
EXTENDS TailQ, FiniteSets

CONSTANTS Thread,    \* threads that share one struct shm_alloc_state
          Size,      \* buffer sizes asked for
          SlabSize,  \* slab_size, the size of every slab
          MaxSlabs,  \* bound on the number of slabs
          None       \* no thread

ASSUME ShmAssumption ==
    /\ Size \subseteq Nat \ {0}
    /\ SlabSize \in Nat /\ MaxSlabs \in Nat
    /\ None \notin Thread

VARIABLES
    slab_list,  \* slab_list: shm_curofs, free_list and free_list_cnt of each slab
    sa,         \* the struct shm_alloc_allocation made so far; none is ever freed
    held,       \* the allocations of the netbufs that exist
    lock,       \* the thread that has the mutex l, or None
    pc,         \* what each thread is in
    want,       \* the size a thread asks for
    item,       \* the allocation a thread gives back
    got,        \* what shm_alloc_alloc has just returned to a thread
    failed      \* history: malloc has failed under the lock

shmVars == <<slab_list, sa>>
vars == <<shmVars, held, lock, pc, want, item, got, failed>>

EmptySlab == [curofs |-> 0, free_list |-> <<>>, cnt |-> 0]

\* shm_alloc_init: the first slab may fail.
Init ==
    /\ slab_list \in {<<>>, <<EmptySlab>>}
    /\ sa = <<>> /\ held = {}
    /\ lock = None
    /\ pc = [t \in Thread |-> "idle"]
    /\ want = [t \in Thread |-> 0]
    /\ item = [t \in Thread |-> 0]
    /\ got = [t \in Thread |-> "nothing"]
    /\ failed = FALSE

-----------------------------------------------------------------------------
\* shm_alloc_new_slab, called as shm_alloc_init calls it, with the lock.
shm_alloc_new_slab(t) ==
    /\ pc[t] = "idle" /\ lock = None
    /\ Len(slab_list) < MaxSlabs
    /\ slab_list' = Append(slab_list, EmptySlab)
    /\ UNCHANGED <<sa, held, lock, pc, want, item, got, failed>>

\* Up to the call of pthread_mutex_lock in shm_alloc_alloc.
iapp_netbuf_alloc(t, size) ==
    /\ pc[t] = "idle"
    /\ pc' = [pc EXCEPT ![t] = "alloc"]
    /\ want' = [want EXCEPT ![t] = size]
    /\ got' = [got EXCEPT ![t] = "nothing"]
    /\ UNCHANGED <<shmVars, held, lock, item, failed>>

pthread_mutex_lock(t) ==
    /\ pc[t] \in {"alloc", "free"}
    /\ lock = None
    /\ lock' = t
    /\ UNCHANGED <<shmVars, held, pc, want, item, got, failed>>

\* The owner of the lock releases it, and a slip: it does not.
Unlock_never == lock
Unlock == None

\* The owner of the lock returns from the call it is in.
Leaves(t) ==
    /\ lock' = Unlock
    /\ pc' = [pc EXCEPT ![t] = "idle"]
    /\ want' = [want EXCEPT ![t] = 0]

\* The entry of a free list that suits a request.
Suits(a, size) == sa[a].len = size

Suitable(s, size) == {i \in DOMAIN slab_list[s].free_list :
                          Suits(slab_list[s].free_list[i], size)}

\* The entry shm_alloc_lookup_freelist finds: the first of the last slab that
\* has one, because its break leaves the inner loop only.
Found(s, i, size) ==
    /\ i \in Suitable(s, size)
    /\ \A j \in Suitable(s, size) : i <= j
    /\ \A s2 \in DOMAIN slab_list : s2 > s => Suitable(s2, size) = {}

\* TAILQ_REMOVE of the i-th entry of the free list, and a slip: it stays.
Taken_not(slab, i) == [slab EXCEPT !.cnt = @ - 1]
Taken(slab, i) == [slab EXCEPT !.free_list = RemoveAt(@, i), !.cnt = @ - 1]

shm_alloc_lookup_freelist(t) ==
    /\ lock = t /\ pc[t] = "alloc"
    /\ \E s \in DOMAIN slab_list : \E i \in DOMAIN slab_list[s].free_list :
          LET a == slab_list[s].free_list[i]
          IN  /\ Found(s, i, want[t])
              /\ slab_list' = [slab_list EXCEPT ![s] = Taken(@, i)]
              /\ sa' = [sa EXCEPT ![a].active = TRUE]
              /\ held' = held \cup {a}
    /\ got' = [got EXCEPT ![t] = "buffer"]
    /\ Leaves(t)
    /\ UNCHANGED <<item, failed>>

NoneFree(size) == \A s \in DOMAIN slab_list : Suitable(s, size) = {}

\* Whether a slab has room for the request.
HasRoom(s, size) == slab_list[s].curofs + size <= SlabSize

\* The first slab with room.
Walked(s, size) == /\ HasRoom(s, size)
                   /\ \A s2 \in DOMAIN slab_list : s2 < s => ~HasRoom(s2, size)

\* shm_curofs after an allocation, and a slip: it is not moved.
Bumped_not(slab, size) == slab.curofs
Bumped(slab, size) == slab.curofs + size

\* The rest of shm_alloc_alloc: a new piece of the first slab with room.
CarveOff(t) ==
    /\ lock = t /\ pc[t] = "alloc" /\ NoneFree(want[t])
    /\ \E s \in DOMAIN slab_list :
          /\ Walked(s, want[t])
          /\ sa' = Append(sa, [slab |-> s, offset |-> slab_list[s].curofs,
                               len |-> want[t], active |-> TRUE])
          /\ slab_list' = [slab_list EXCEPT ![s].curofs = Bumped(slab_list[s], want[t])]
    /\ held' = held \cup {Len(sa) + 1}
    /\ got' = [got EXCEPT ![t] = "buffer"]
    /\ Leaves(t)
    /\ UNCHANGED <<item, failed>>

\* No slab has room.
NoRoom(t) ==
    /\ lock = t /\ pc[t] = "alloc" /\ NoneFree(want[t])
    /\ \A s \in DOMAIN slab_list : ~HasRoom(s, want[t])
    /\ got' = [got EXCEPT ![t] = "NULL"]
    /\ Leaves(t)
    /\ UNCHANGED <<shmVars, held, item, failed>>

\* malloc fails for the state node: the return leaves the mutex locked.
NoNode(t) ==
    /\ lock = t /\ pc[t] = "alloc" /\ NoneFree(want[t])
    /\ \E s \in DOMAIN slab_list : HasRoom(s, want[t])
    /\ got' = [got EXCEPT ![t] = "NULL"]
    /\ pc' = [pc EXCEPT ![t] = "idle"]
    /\ want' = [want EXCEPT ![t] = 0]
    /\ failed' = TRUE
    /\ UNCHANGED <<shmVars, held, lock, item>>

\* iapp_netbuf_free and shm_alloc_free, up to the lock in
\* shm_alloc_add_freelist.  Any thread may give back a buffer.
iapp_netbuf_free(t, a) ==
    /\ pc[t] = "idle" /\ a \in held
    /\ sa' = [sa EXCEPT ![a].active = FALSE]
    /\ held' = held \ {a}
    /\ pc' = [pc EXCEPT ![t] = "free"]
    /\ item' = [item EXCEPT ![t] = a]
    /\ got' = [got EXCEPT ![t] = "nothing"]
    /\ UNCHANGED <<slab_list, lock, want, failed>>

\* TAILQ_INSERT_HEAD of an allocation on the free list of a slab.
Linked(slab, a) == [slab EXCEPT !.free_list = <<a>> \o @, !.cnt = @ + 1]

shm_alloc_add_freelist(t) ==
    /\ lock = t /\ pc[t] = "free"
    /\ slab_list' = [slab_list EXCEPT ![sa[item[t]].slab] = Linked(@, item[t])]
    /\ item' = [item EXCEPT ![t] = 0]
    /\ Leaves(t)
    /\ UNCHANGED <<sa, held, got, failed>>

\* What the owner of the lock does next.
Locked(t) == \/ shm_alloc_lookup_freelist(t) \/ CarveOff(t) \/ NoRoom(t) \/ NoNode(t)
             \/ shm_alloc_add_freelist(t)

Next == \E t \in Thread :
           \/ shm_alloc_new_slab(t)
           \/ \E size \in Size : iapp_netbuf_alloc(t, size)
           \/ \E a \in held : iapp_netbuf_free(t, a)
           \/ pthread_mutex_lock(t)
           \/ Locked(t)

Spec == Init /\ [][Next]_vars

\* A thread that has the lock keeps running.
FairSpec == Spec /\ \A t \in Thread : WF_vars(Locked(t))

-----------------------------------------------------------------------------
(* Properties. *)

Allocation == [slab : Nat, offset : Nat, len : Size, active : BOOLEAN]

\* Every variable holds a value of the C type it models.
TypeOK ==
    /\ slab_list \in Seq([curofs : Nat, free_list : Seq(Nat), cnt : Nat])
    /\ sa \in Seq(Allocation)
    /\ held \subseteq DOMAIN sa
    /\ lock \in Thread \cup {None}
    /\ pc \in [Thread -> {"idle", "alloc", "free"}]
    /\ want \in [Thread -> Size \cup {0}]
    /\ item \in [Thread -> Nat]
    /\ got \in [Thread -> {"nothing", "buffer", "NULL"}]
    /\ failed \in BOOLEAN

\* The bytes of two buffers in use never overlap, and none lies beyond the end
\* of its slab, however allocations and frees alternate (shm_alloc.c:225-254).
Disjoint ==
    /\ \A a \in held : /\ sa[a].slab \in DOMAIN slab_list
                       /\ sa[a].offset + sa[a].len <= SlabSize
    /\ \A a, b \in held :
          a # b /\ sa[a].slab = sa[b].slab =>
             \/ sa[a].offset + sa[a].len <= sa[b].offset
             \/ sa[b].offset + sa[b].len <= sa[a].offset

Listed(a) == {s \in DOMAIN slab_list :
                 \E i \in DOMAIN slab_list[s].free_list : slab_list[s].free_list[i] = a}
Returning(a) == {t \in Thread : pc[t] = "free" /\ item[t] = a}

\* No buffer is lost or in two hands: every allocation is in use, or on its way
\* back in one thread, or linked once, on the free list of its own slab; and
\* sha_isactive tells the first from the others, so that the assertion of
\* shm_alloc_add_freelist never fails for a buffer in use (shm_alloc.c:136).
Accounted ==
    /\ \A a \in DOMAIN sa :
          /\ sa[a].active <=> a \in held
          /\ a \in held => Listed(a) = {} /\ Returning(a) = {}
          /\ a \notin held => \/ Listed(a) = {sa[a].slab} /\ Returning(a) = {}
                              \/ Listed(a) = {} /\ Cardinality(Returning(a)) = 1
    /\ \A s \in DOMAIN slab_list :
          LET q == slab_list[s].free_list
          IN  /\ \A i \in DOMAIN q : q[i] \in DOMAIN sa
              /\ \A i, j \in DOMAIN q : q[i] = q[j] => i = j
              /\ slab_list[s].cnt = Len(q)

\* shm_alloc_alloc gives a buffer of the size it was asked for, new or reused:
\* a netbuf says it has minsize bytes (netbuf.c:62).
GivesWhatIsAsked ==
    [][\A a \in held' \ held : \E t \in Thread :
          /\ got'[t] = "buffer" /\ pc[t] = "alloc" /\ pc'[t] = "idle"
          /\ sa'[a].len = want[t]]_vars

\* The lock is released, unless malloc has failed under it (shm_alloc.c:238-241
\* returns without unlocking it).
LockReleased == \A t \in Thread : lock = t ~> lock # t \/ failed
=============================================================================
