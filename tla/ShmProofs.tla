----------------------------- MODULE ShmProofs ------------------------------
(***************************************************************************)
(* Proofs about ShmAlloc, for any threads, sizes and slabs: what is carved *)
(* off a slab never overlaps, no buffer is lost or in two hands, a buffer  *)
(* has the size that was asked for, and every byte carved off has a buffer. *)
(***************************************************************************)
EXTENDS ShmAlloc, ListLemmas, SequenceTheorems, FiniteSetTheorems, TLAPS

-----------------------------------------------------------------------------
(* What is carved off a slab. *)

\* The two allocations share no byte.
Apart(x, y) == \/ x.slab # y.slab
               \/ x.offset + x.len <= y.offset
               \/ y.offset + y.len <= x.offset

\* Everything carved off a slab lies below its shm_curofs, which lies within
\* the slab, and no two pieces overlap, whether they are in use or free: a
\* piece is reused as it is, never split or joined.
Carved ==
    /\ \A s \in DOMAIN slab_list : slab_list[s].curofs <= SlabSize
    /\ \A a \in DOMAIN sa : /\ sa[a].slab \in DOMAIN slab_list
                            /\ sa[a].offset + sa[a].len <= slab_list[sa[a].slab].curofs
    /\ \A a, b \in DOMAIN sa : a # b => Apart(sa[a], sa[b])

\* What a thread gives back is an allocation, and so is what is on a list.
Known ==
    /\ \A t \in Thread : pc[t] = "free" => item[t] \in DOMAIN sa
    /\ \A t \in Thread : pc[t] = "alloc" => want[t] \in Size
    /\ \A s \in DOMAIN slab_list : \A i \in DOMAIN slab_list[s].free_list :
          slab_list[s].free_list[i] \in DOMAIN sa

Slab == [curofs : Nat, free_list : Seq(Nat), cnt : Int]

\* The types the argument needs.  That free_list_cnt is never negative needs
\* Lists, below.
Types ==
    /\ slab_list \in Seq(Slab)
    /\ sa \in Seq(Allocation)
    /\ held \subseteq DOMAIN sa
    /\ pc \in [Thread -> {"idle", "alloc", "free"}]
    /\ want \in [Thread -> Size \cup {0}]
    /\ item \in [Thread -> Nat]

Inv == Types /\ Known /\ Carved

-----------------------------------------------------------------------------
\* The invariant holds when shm_alloc_init returns.
LEMMA InvInit == Init => Inv
<1> SUFFICES ASSUME Init PROVE Inv
  BY Zenon
<1>1. EmptySlab \in Slab /\ EmptySlab.curofs = 0 /\ EmptySlab.free_list = <<>>
  BY DEF EmptySlab, Slab
<1>2. slab_list \in Seq(Slab) /\ sa \in Seq(Allocation) /\ DOMAIN sa = {}
  <2>1. <<>> \in Seq(Slab) /\ <<>> \in Seq(Allocation)
    OBVIOUS
  <2>2. <<EmptySlab>> \in Seq(Slab)
    BY <1>1
  <2>3. slab_list = <<>> \/ slab_list = <<EmptySlab>>
    BY Zenon DEF Init
  <2>4. sa = <<>>
    BY Zenon DEF Init
  <2>5. slab_list \in Seq(Slab)
    BY <2>1, <2>2, <2>3, Zenon
  <2> QED BY <2>1, <2>4, <2>5
<1>3. \A s \in DOMAIN slab_list : slab_list[s] = EmptySlab
  BY DEF Init
<1>4. Types
  BY <1>2, Zenon DEF Init, Types
<1>5. Known
  BY <1>1, <1>2, <1>3, Zenon DEF Init, Known
<1>6. Carved
  BY <1>1, <1>2, <1>3, ShmAssumption DEF Carved
<1> QED BY <1>4, <1>5, <1>6, Zenon DEF Inv

\* A slab is a record of three fields.
LEMMA SlabFields ==
  ASSUME NEW b \in Slab
  PROVE  /\ b = [curofs |-> b.curofs, free_list |-> b.free_list, cnt |-> b.cnt]
         /\ b.curofs \in Nat /\ b.free_list \in Seq(Nat) /\ b.cnt \in Int
BY Zenon DEF Slab

\* What is left of a slab when shm_alloc_lookup_freelist has taken an entry.
LEMMA TakenProps ==
  ASSUME NEW b \in Slab, NEW i \in DOMAIN b.free_list, NEW r, r = Taken(b, i)
  PROVE  /\ r \in Slab /\ r.curofs = b.curofs /\ r.cnt = b.cnt - 1
         /\ r.free_list = RemoveAt(b.free_list, i)
         /\ Len(r.free_list) = Len(b.free_list) - 1
<1>1. b.free_list \in Seq(Nat) /\ b.cnt - 1 \in Int
  BY SlabFields
<1>2. PICK f : f = RemoveAt(b.free_list, i)
  BY Zenon
<1>3. f \in Seq(Nat) /\ Len(f) = Len(b.free_list) - 1
  BY <1>1, <1>2, RemoveAtProps, Zenon
<1>4. r = [b EXCEPT !.free_list = f, !.cnt = b.cnt - 1]
  BY <1>2, Zenon DEF Taken
<1>5. PICK c : c = b.cnt - 1
  BY Zenon
<1>6. r = [b EXCEPT !.free_list = f, !.cnt = c] /\ c \in Int
  BY <1>1, <1>4, <1>5, Zenon
<1>7. r \in Slab /\ r.curofs = b.curofs /\ r.free_list = f /\ r.cnt = c
  BY <1>3, <1>6, Zenon DEF Slab
<1> QED BY <1>2, <1>3, <1>5, <1>7, Zenon

\* Putting a slab in the place of another leaves the rest of slab_list alone.
LEMMA SlabChange ==
  ASSUME Inv, NEW s \in DOMAIN slab_list, NEW slab \in Slab,
         slab_list' = [slab_list EXCEPT ![s] = slab]
  PROVE  /\ slab_list' \in Seq(Slab) /\ DOMAIN slab_list' = DOMAIN slab_list
         /\ slab_list'[s] = slab
         /\ \A s2 \in DOMAIN slab_list : s2 # s => slab_list'[s2] = slab_list[s2]
<1>1. slab_list \in Seq(Slab) /\ s \in 1..Len(slab_list) /\ Len(slab_list) \in Nat
  BY LenProperties, Zenon DEF Inv, Types
<1> QED BY <1>1, ExceptSeq, Zenon

\* Marking an allocation active or not moves nothing.
LEMMA MarkProps ==
  ASSUME Inv, NEW a \in DOMAIN sa, NEW b \in BOOLEAN,
         sa' = [sa EXCEPT ![a].active = b]
  PROVE  /\ sa' \in Seq(Allocation) /\ DOMAIN sa' = DOMAIN sa
         /\ \A x \in DOMAIN sa : /\ sa'[x].slab = sa[x].slab
                                /\ sa'[x].offset = sa[x].offset
                                /\ sa'[x].len = sa[x].len
                                /\ sa'[x].active = IF x = a THEN b ELSE sa[x].active
<1>1. sa \in Seq(Allocation) /\ a \in 1..Len(sa) /\ sa[a] \in Allocation
  BY LenProperties, ElementOfSeq, Zenon DEF Inv, Types
<1>2. [sa[a] EXCEPT !.active = b] \in Allocation
  BY <1>1, Zenon DEF Allocation
<1>3. sa' = [sa EXCEPT ![a] = [sa[a] EXCEPT !.active = b]]
  BY Zenon
<1>4. sa' \in Seq(Allocation) /\ DOMAIN sa' = DOMAIN sa
  BY <1>1, <1>2, <1>3, ExceptSeq
<1>5. \A x \in DOMAIN sa : sa'[x] = IF x = a THEN [sa[a] EXCEPT !.active = b] ELSE sa[x]
  BY <1>3, Zenon
<1> QED BY <1>1, <1>4, <1>5, Zenon DEF Allocation

\* Where the pieces lie is kept by a step that moves none, adds no slab but an
\* empty one and leaves every shm_curofs alone.
LEMMA CarvedKept ==
  ASSUME Carved,
         DOMAIN sa' = DOMAIN sa,
         \A x \in DOMAIN sa : /\ sa'[x].slab = sa[x].slab
                             /\ sa'[x].offset = sa[x].offset
                             /\ sa'[x].len = sa[x].len,
         DOMAIN slab_list \subseteq DOMAIN slab_list',
         \A s \in DOMAIN slab_list : slab_list'[s].curofs = slab_list[s].curofs,
         \A s \in DOMAIN slab_list' \ DOMAIN slab_list : slab_list'[s].curofs <= SlabSize
  PROVE  Carved'
BY DEF Carved, Apart

\* shm_alloc_new_slab adds an empty slab at the end.
LEMMA NewSlabInv ==
  ASSUME Inv, NEW t \in Thread, shm_alloc_new_slab(t)
  PROVE  Inv'
<1> DEFINE n == Len(slab_list) + 1
<1>1. EmptySlab \in Slab /\ EmptySlab.curofs = 0 /\ EmptySlab.free_list = <<>>
  BY DEF EmptySlab, Slab
<1>2. /\ slab_list \in Seq(Slab) /\ Len(slab_list) \in Nat
      /\ DOMAIN slab_list = 1..Len(slab_list)
  BY LenProperties, Zenon DEF Inv, Types
<1>3. slab_list' = Append(slab_list, EmptySlab)
  BY Zenon DEF shm_alloc_new_slab
<1>4. /\ slab_list' \in Seq(Slab) /\ DOMAIN slab_list' = 1..n
      /\ \A s \in DOMAIN slab_list : slab_list'[s] = slab_list[s]
      /\ slab_list'[n] = EmptySlab
  <2> HIDE DEF EmptySlab
  <2> QED BY <1>1, <1>2, <1>3, AppendProperties, LenProperties
<1>5. \A s \in DOMAIN slab_list' : s = n \/ s \in DOMAIN slab_list
  BY <1>2, <1>4
<1>6. UNCHANGED <<sa, held, pc, want, item>>
  BY Zenon DEF shm_alloc_new_slab
<1>7. Types'
  BY <1>4, <1>6, Zenon DEF Inv, Types
<1>8. Known'
  BY <1>1, <1>4, <1>5, <1>6 DEF Inv, Known
<1>9. Carved'
  <2>1. DOMAIN slab_list \subseteq DOMAIN slab_list'
    BY <1>2, <1>4
  <2>2. \A s \in DOMAIN slab_list' \ DOMAIN slab_list : slab_list'[s].curofs <= SlabSize
    BY <1>1, <1>4, <1>5, ShmAssumption
  <2> QED BY <1>4, <1>6, <2>1, <2>2, CarvedKept, Zenon DEF Inv
<1> QED BY <1>7, <1>8, <1>9, Zenon DEF Inv

\* The calls that touch neither the slabs nor the allocations.
LEMMA CallInv ==
  ASSUME Inv, NEW t \in Thread,
         \/ \E size \in Size : iapp_netbuf_alloc(t, size)
         \/ pthread_mutex_lock(t) \/ NoRoom(t) \/ NoNode(t)
  PROVE  Inv'
<1>1. UNCHANGED <<slab_list, sa, held, item>>
  BY Zenon DEF iapp_netbuf_alloc, pthread_mutex_lock, NoRoom, NoNode, shmVars
<1>2. \/ \E size \in Size : /\ pc' = [pc EXCEPT ![t] = "alloc"]
                           /\ want' = [want EXCEPT ![t] = size]
      \/ pc' = pc /\ want' = want
      \/ /\ pc' = [pc EXCEPT ![t] = "idle"]
         /\ want' = [want EXCEPT ![t] = 0]
  BY Zenon DEF iapp_netbuf_alloc, pthread_mutex_lock, NoRoom, NoNode, Leaves
<1>3. Types'
  BY <1>1, <1>2, Zenon DEF Inv, Types
<1>4. Known'
  BY <1>1, <1>2, Zenon DEF Inv, Types, Known
<1>5. Carved'
  BY <1>1, Zenon DEF Inv, Carved, Apart
<1> QED BY <1>3, <1>4, <1>5, Zenon DEF Inv

\* The effect of finding the i-th entry of slab s.
TakesBuffer(t, s, i) ==
    LET a == slab_list[s].free_list[i]
    IN  /\ a \in DOMAIN sa /\ slab_list[s].free_list \in Seq(Nat)
        /\ slab_list' \in Seq(Slab) /\ DOMAIN slab_list' = DOMAIN slab_list
        /\ slab_list'[s].curofs = slab_list[s].curofs
        /\ slab_list'[s].free_list = RemoveAt(slab_list[s].free_list, i)
        /\ slab_list'[s].cnt = slab_list[s].cnt - 1
        /\ \A s2 \in DOMAIN slab_list : s2 # s => slab_list'[s2] = slab_list[s2]
        /\ sa' \in Seq(Allocation) /\ DOMAIN sa' = DOMAIN sa
        /\ \A x \in DOMAIN sa :
              /\ sa'[x].slab = sa[x].slab
              /\ sa'[x].offset = sa[x].offset
              /\ sa'[x].len = sa[x].len
              /\ sa'[x].active = IF x = a THEN TRUE ELSE sa[x].active
        /\ held' = held \cup {a} /\ item' = item
        /\ pc' = [pc EXCEPT ![t] = "idle"] /\ want' = [want EXCEPT ![t] = 0]

\* A buffer that is found on a free list is one that was carved off before.
LEMMA LookupEffect ==
  ASSUME Inv, NEW t \in Thread, shm_alloc_lookup_freelist(t)
  PROVE  \E s \in DOMAIN slab_list : \E i \in DOMAIN slab_list[s].free_list :
           TakesBuffer(t, s, i)
<1>1. PICK s \in DOMAIN slab_list : \E i \in DOMAIN slab_list[s].free_list :
          /\ slab_list' = [slab_list EXCEPT ![s] = Taken(slab_list[s], i)]
          /\ sa' = [sa EXCEPT ![slab_list[s].free_list[i]].active = TRUE]
          /\ held' = held \cup {slab_list[s].free_list[i]}
  BY Zenon DEF shm_alloc_lookup_freelist
<1>2. PICK i \in DOMAIN slab_list[s].free_list :
          /\ slab_list' = [slab_list EXCEPT ![s] = Taken(slab_list[s], i)]
          /\ sa' = [sa EXCEPT ![slab_list[s].free_list[i]].active = TRUE]
          /\ held' = held \cup {slab_list[s].free_list[i]}
  BY <1>1, Zenon
<1> DEFINE a == slab_list[s].free_list[i]
<1>3. slab_list[s] \in Slab /\ a \in DOMAIN sa
  BY ElementOfSeq, LenProperties, Zenon DEF Inv, Types, Known
<1>4. PICK slab : slab = Taken(slab_list[s], i)
  BY Zenon
<1>5. /\ slab \in Slab /\ slab.curofs = slab_list[s].curofs
      /\ slab.free_list = RemoveAt(slab_list[s].free_list, i)
      /\ slab.cnt = slab_list[s].cnt - 1 /\ slab_list[s].free_list \in Seq(Nat)
  BY <1>3, <1>4, TakenProps, SlabFields
<1>6. /\ slab_list' \in Seq(Slab) /\ DOMAIN slab_list' = DOMAIN slab_list
      /\ slab_list'[s] = slab
      /\ \A s2 \in DOMAIN slab_list : s2 # s => slab_list'[s2] = slab_list[s2]
  BY <1>2, <1>4, <1>5, SlabChange, Zenon
<1>7. /\ sa' \in Seq(Allocation) /\ DOMAIN sa' = DOMAIN sa
      /\ \A x \in DOMAIN sa : /\ sa'[x].slab = sa[x].slab
                             /\ sa'[x].offset = sa[x].offset
                             /\ sa'[x].len = sa[x].len
                             /\ sa'[x].active = IF x = a THEN TRUE ELSE sa[x].active
  BY <1>2, <1>3, MarkProps, Zenon
<1>8. /\ held' = held \cup {a} /\ item' = item
      /\ pc' = [pc EXCEPT ![t] = "idle"] /\ want' = [want EXCEPT ![t] = 0]
  BY <1>2, Zenon DEF shm_alloc_lookup_freelist, Leaves
<1> QED BY <1>3, <1>5, <1>6, <1>7, <1>8 DEF TakesBuffer

\* What shm_alloc_lookup_freelist does keeps the invariant.
LEMMA LookupInv ==
  ASSUME Inv, NEW t \in Thread, shm_alloc_lookup_freelist(t)
  PROVE  Inv'
<1>1. PICK s \in DOMAIN slab_list : \E i \in DOMAIN slab_list[s].free_list :
          TakesBuffer(t, s, i)
  BY LookupEffect, Zenon
<1>2. PICK i \in DOMAIN slab_list[s].free_list : TakesBuffer(t, s, i)
  BY <1>1, Zenon
<1>3. Types'
  BY <1>2, Zenon DEF Inv, Types, TakesBuffer
<1>4. \A j \in DOMAIN slab_list'[s].free_list : slab_list'[s].free_list[j] \in DOMAIN sa
  <2>1. \A j \in DOMAIN slab_list[s].free_list : slab_list[s].free_list[j] \in DOMAIN sa
    BY Zenon DEF Inv, Known
  <2>2. /\ slab_list[s].free_list \in Seq(Nat)
        /\ slab_list'[s].free_list = RemoveAt(slab_list[s].free_list, i)
    BY <1>2, Zenon DEF TakesBuffer
  <2> QED BY <2>1, <2>2, RemoveAtElements
<1>5. Known'
  BY <1>2, <1>4 DEF Inv, Types, Known, TakesBuffer
<1>6. Carved'
  BY <1>2, CarvedKept, Zenon DEF Inv, TakesBuffer
<1> QED BY <1>3, <1>5, <1>6, Zenon DEF Inv

\* A piece carved off ends at the new shm_curofs and starts at the old one, below
\* which every earlier piece of the slab lies.
LEMMA CarveInv ==
  ASSUME Inv, NEW t \in Thread, CarveOff(t)
  PROVE  Inv'
<1> DEFINE size == want[t]
           n == Len(sa) + 1
<1>1. size \in Size /\ size \in Nat
  BY ShmAssumption, Zenon DEF Inv, Types, Known, CarveOff
<1>2. PICK s \in DOMAIN slab_list :
          /\ HasRoom(s, size)
          /\ sa' = Append(sa, [slab |-> s, offset |-> slab_list[s].curofs,
                               len |-> size, active |-> TRUE])
          /\ slab_list' = [slab_list EXCEPT ![s].curofs = Bumped(slab_list[s], size)]
  BY Zenon DEF CarveOff, Walked
<1>3. slab_list[s] \in Slab /\ s \in Nat
  BY ElementOfSeq, LenProperties DEF Inv, Types
<1>4. PICK ofs : ofs = slab_list[s].curofs
  BY Zenon
<1>5. ofs \in Nat /\ ofs + size \in Nat /\ ofs + size <= SlabSize
  BY <1>1, <1>2, <1>3, <1>4, SlabFields DEF HasRoom
<1>6. PICK slab : slab = [slab_list[s] EXCEPT !.curofs = ofs + size]
  BY Zenon
<1>7. /\ slab \in Slab /\ slab.curofs = ofs + size
      /\ slab.free_list = slab_list[s].free_list
  BY <1>3, <1>5, <1>6, Zenon DEF Slab
<1>8. slab_list' = [slab_list EXCEPT ![s] = slab]
  BY <1>2, <1>4, <1>6, Zenon DEF Bumped
<1>9. /\ slab_list' \in Seq(Slab) /\ DOMAIN slab_list' = DOMAIN slab_list
      /\ slab_list'[s] = slab
      /\ \A s2 \in DOMAIN slab_list : s2 # s => slab_list'[s2] = slab_list[s2]
  BY <1>7, <1>8, SlabChange, Zenon
<1>10. PICK piece : piece = [slab |-> s, offset |-> ofs, len |-> size, active |-> TRUE]
  BY Zenon
<1>11. /\ piece \in Allocation /\ piece.slab = s /\ piece.offset = ofs
       /\ piece.len = size
  BY <1>1, <1>3, <1>5, <1>10, Zenon DEF Allocation
<1>12. sa \in Seq(Allocation) /\ Len(sa) \in Nat /\ DOMAIN sa = 1..Len(sa)
  BY LenProperties, Zenon DEF Inv, Types
<1>13. sa' = Append(sa, piece)
  BY <1>2, <1>4, <1>10, Zenon
<1>14. /\ sa' \in Seq(Allocation) /\ DOMAIN sa' = 1..n
       /\ \A x \in DOMAIN sa : sa'[x] = sa[x]
       /\ sa'[n] = piece
  BY <1>11, <1>12, <1>13, AppendProperties, LenProperties
<1>15. /\ DOMAIN sa \subseteq DOMAIN sa' /\ n \in DOMAIN sa'
       /\ \A x \in DOMAIN sa' : x = n \/ x \in DOMAIN sa
  BY <1>12, <1>14
<1>16. /\ held' = held \cup {n} /\ item' = item
       /\ pc' = [pc EXCEPT ![t] = "idle"] /\ want' = [want EXCEPT ![t] = 0]
  BY Zenon DEF CarveOff, Leaves
<1> HIDE DEF n, size
<1>17. Types'
  BY <1>9, <1>14, <1>15, <1>16, Zenon DEF Inv, Types
<1>18. Known'
  BY <1>7, <1>9, <1>15, <1>16, Zenon DEF Inv, Types, Known
<1>19. \A s2 \in DOMAIN slab_list' : slab_list'[s2].curofs <= SlabSize
  BY <1>5, <1>7, <1>9, Zenon DEF Inv, Carved
<1>20. \A x \in DOMAIN sa : /\ sa[x].slab \in DOMAIN slab_list
                            /\ sa[x].offset \in Nat /\ sa[x].len \in Nat
                            /\ sa[x].offset + sa[x].len <= slab_list[sa[x].slab].curofs
                            /\ slab_list[sa[x].slab].curofs \in Nat
  <2> TAKE x \in DOMAIN sa
  <2>1. sa[x] \in Allocation
    BY <1>12, ElementOfSeq, Zenon
  <2>2. sa[x].slab \in DOMAIN slab_list /\ sa[x].offset + sa[x].len <= slab_list[sa[x].slab].curofs
    BY Zenon DEF Inv, Carved
  <2>3. slab_list[sa[x].slab] \in Slab
    BY <2>2, ElementOfSeq, LenProperties, Zenon DEF Inv, Types
  <2> QED BY <2>1, <2>2, <2>3, ShmAssumption, SlabFields, Zenon DEF Allocation
<1>21. \A x \in DOMAIN sa' : /\ sa'[x].slab \in DOMAIN slab_list'
                             /\ sa'[x].offset + sa'[x].len <= slab_list'[sa'[x].slab].curofs
  <2> TAKE x \in DOMAIN sa'
  <2>1. CASE x = n
    BY <1>1, <1>5, <1>7, <1>9, <1>11, <1>14, <2>1
  <2>2. CASE x \in DOMAIN sa /\ sa[x].slab = s
    <3>1. sa'[x] = sa[x] /\ slab_list'[sa'[x].slab].curofs = ofs + size
      BY <1>7, <1>9, <1>14, <2>2, Zenon
    <3>2. /\ sa[x].offset \in Nat /\ sa[x].len \in Nat /\ sa[x].slab \in DOMAIN slab_list
          /\ sa[x].offset + sa[x].len <= ofs
      BY <1>4, <1>20, <2>2, Zenon
    <3>3. sa[x].offset + sa[x].len <= ofs + size
      BY <1>1, <1>5, <3>2
    <3> QED BY <1>9, <3>1, <3>2, <3>3, Zenon
  <2>3. CASE x \in DOMAIN sa /\ sa[x].slab # s
    BY <1>9, <1>14, <1>20, <2>3, Zenon
  <2> QED BY <1>15, <2>1, <2>2, <2>3, Zenon
<1>22. \A x \in DOMAIN sa : Apart(sa[x], piece) /\ Apart(piece, sa[x])
  BY <1>4, <1>11, <1>20, Zenon DEF Apart
<1>23. \A x, y \in DOMAIN sa' : x # y => Apart(sa'[x], sa'[y])
  <2>1. \A x, y \in DOMAIN sa : x # y => Apart(sa[x], sa[y])
    BY Zenon DEF Inv, Carved
  <2> QED BY <1>14, <1>15, <1>22, <2>1, Zenon
<1>24. Carved'
  BY <1>19, <1>21, <1>23, Zenon DEF Carved, Apart
<1> QED BY <1>17, <1>18, <1>24, Zenon DEF Inv

\* A buffer on its way back stays where it is.
LEMMA FreeInv ==
  ASSUME Inv, NEW t \in Thread, NEW a \in held, iapp_netbuf_free(t, a)
  PROVE  Inv'
<1>1. a \in DOMAIN sa /\ a \in Nat
  BY LenProperties DEF Inv, Types
<1>2. sa' = [sa EXCEPT ![a].active = FALSE]
  BY Zenon DEF iapp_netbuf_free
<1>3. /\ sa' \in Seq(Allocation) /\ DOMAIN sa' = DOMAIN sa
      /\ \A x \in DOMAIN sa : /\ sa'[x].slab = sa[x].slab
                             /\ sa'[x].offset = sa[x].offset
                             /\ sa'[x].len = sa[x].len
  BY <1>1, <1>2, MarkProps, Zenon
<1>4. /\ held' = held \ {a} /\ pc' = [pc EXCEPT ![t] = "free"]
      /\ item' = [item EXCEPT ![t] = a] /\ UNCHANGED <<slab_list, want>>
  BY Zenon DEF iapp_netbuf_free
<1>5. Types'
  BY <1>1, <1>3, <1>4, Zenon DEF Inv, Types
<1>6. Known'
  BY <1>1, <1>3, <1>4, Zenon DEF Inv, Types, Known
<1>7. Carved'
  <2>1. \A s \in DOMAIN slab_list : slab_list[s].curofs <= SlabSize
    BY Zenon DEF Inv, Carved
  <2> QED BY <1>3, <1>4, <2>1, CarvedKept, Zenon DEF Inv
<1> QED BY <1>5, <1>6, <1>7, Zenon DEF Inv

\* The slab a buffer goes back to, with the buffer at the head of its free list.
LEMMA GivenBack ==
  ASSUME Inv, NEW t \in Thread, shm_alloc_add_freelist(t)
  PROVE  LET a == item[t]
             s == sa[a].slab
         IN  /\ a \in DOMAIN sa /\ s \in DOMAIN slab_list
             /\ slab_list[s].free_list \in Seq(Nat) /\ slab_list[s].cnt \in Int
             /\ slab_list' \in Seq(Slab) /\ DOMAIN slab_list' = DOMAIN slab_list
             /\ slab_list'[s].curofs = slab_list[s].curofs
             /\ slab_list'[s].free_list = <<a>> \o slab_list[s].free_list
             /\ slab_list'[s].cnt = slab_list[s].cnt + 1
             /\ \A s2 \in DOMAIN slab_list : s2 # s => slab_list'[s2] = slab_list[s2]
<1>1. PICK a : a = item[t]
  BY Zenon
<1>2. PICK s : s = sa[a].slab
  BY Zenon
<1>3. a \in DOMAIN sa /\ a \in Nat
  BY <1>1, Zenon DEF Inv, Known, Types, shm_alloc_add_freelist
<1>4. s \in DOMAIN slab_list
  BY <1>2, <1>3, Zenon DEF Inv, Carved
<1>5. slab_list[s] \in Slab
  BY <1>4, ElementOfSeq, LenProperties, Zenon DEF Inv, Types
<1>6. PICK b : b = slab_list[s]
  BY Zenon
<1>7. PICK f : f = <<a>> \o b.free_list
  BY Zenon
<1>8. b \in Slab /\ b.free_list \in Seq(Nat) /\ b.cnt \in Int
  BY <1>5, <1>6, SlabFields, Zenon
<1>9. f \in Seq(Nat)
  BY <1>3, <1>7, <1>8, InsertHeadProps, Zenon
<1>10. PICK slab : slab = [b EXCEPT !.free_list = f, !.cnt = b.cnt + 1]
  BY Zenon
<1>11. /\ slab \in Slab /\ slab.curofs = b.curofs
       /\ slab.free_list = f /\ slab.cnt = b.cnt + 1
  <2>1. PICK c : c = b.cnt + 1
    BY Zenon
  <2>2. c \in Int
    BY <1>8, <2>1
  <2>3. slab = [b EXCEPT !.free_list = f, !.cnt = c]
    BY <1>10, <2>1, Zenon
  <2>4. slab \in Slab /\ slab.curofs = b.curofs /\ slab.free_list = f /\ slab.cnt = c
    BY <1>8, <1>9, <2>2, <2>3, Zenon DEF Slab
  <2> QED BY <2>1, <2>4, Zenon
<1>12. slab_list' = [slab_list EXCEPT ![s] = slab]
  <2>1. slab_list' = [slab_list EXCEPT ![s] = Linked(slab_list[s], a)]
    BY <1>1, <1>2, Zenon DEF shm_alloc_add_freelist
  <2>2. slab = Linked(slab_list[s], a)
    BY <1>6, <1>7, <1>10, Zenon DEF Linked
  <2> QED BY <2>1, <2>2, Zenon
<1>13. /\ slab_list' \in Seq(Slab) /\ DOMAIN slab_list' = DOMAIN slab_list
       /\ slab_list'[s] = slab
       /\ \A s2 \in DOMAIN slab_list : s2 # s => slab_list'[s2] = slab_list[s2]
  BY <1>4, <1>11, <1>12, SlabChange
<1> QED BY <1>1, <1>2, <1>3, <1>4, <1>6, <1>7, <1>8, <1>11, <1>13, Zenon

\* Giving a buffer back to its slab keeps the invariant.
LEMMA GiveBackInv ==
  ASSUME Inv, NEW t \in Thread, shm_alloc_add_freelist(t)
  PROVE  Inv'
<1>1. PICK a : a = item[t]
  OBVIOUS
<1>2. PICK s : s = sa[a].slab
  OBVIOUS
<1>3. PICK q : q = slab_list[s].free_list
  BY Zenon
<1>4. /\ a \in DOMAIN sa /\ s \in DOMAIN slab_list
      /\ q \in Seq(Nat)
      /\ slab_list' \in Seq(Slab) /\ DOMAIN slab_list' = DOMAIN slab_list
      /\ slab_list'[s].curofs = slab_list[s].curofs
      /\ slab_list'[s].free_list = <<a>> \o q
      /\ \A s2 \in DOMAIN slab_list : s2 # s => slab_list'[s2] = slab_list[s2]
  BY <1>1, <1>2, <1>3, GivenBack, Zenon
<1>5. /\ UNCHANGED <<sa, held>> /\ item' = [item EXCEPT ![t] = 0]
      /\ pc' = [pc EXCEPT ![t] = "idle"] /\ want' = [want EXCEPT ![t] = 0]
  BY Zenon DEF shm_alloc_add_freelist, Leaves
<1>6. Types'
  BY <1>4, <1>5, Zenon DEF Inv, Types
<1>7. \A j \in DOMAIN slab_list'[s].free_list : slab_list'[s].free_list[j] \in DOMAIN sa
  <2>1. a \in Nat
    BY <1>4, LenProperties DEF Inv, Types
  <2>2. \A j \in DOMAIN q : q[j] \in DOMAIN sa
    BY <1>3, <1>4, Zenon DEF Inv, Known
  <2>3. PICK r : r = <<a>> \o q
    BY Zenon
  <2>4. \A j \in DOMAIN r : r[j] = a \/ (j - 1 \in DOMAIN q /\ r[j] = q[j - 1])
    BY <1>4, <2>1, <2>3, InsertHeadProps
  <2> QED BY <1>4, <2>2, <2>3, <2>4, Zenon
<1>8. Known'
  BY <1>4, <1>5, <1>7, Zenon DEF Inv, Types, Known
<1>9. Carved'
  <2>1. \A s2 \in DOMAIN slab_list : slab_list'[s2].curofs = slab_list[s2].curofs
    BY <1>4, Zenon
  <2> QED BY <1>4, <1>5, <2>1, CarvedKept, Zenon DEF Inv
<1> QED BY <1>6, <1>8, <1>9 DEF Inv

\* Every step keeps the invariant.
LEMMA InvNext == Inv /\ [Next]_vars => Inv'
<1> SUFFICES ASSUME Inv, [Next]_vars PROVE Inv'
  BY Zenon
<1>1. CASE UNCHANGED vars
  BY <1>1, Zenon DEF Inv, Types, Known, Carved, Apart, vars, shmVars
<1>2. ASSUME NEW t \in Thread, shm_alloc_new_slab(t) PROVE Inv'
  BY <1>2, NewSlabInv, Zenon
<1>3. ASSUME NEW t \in Thread, \E size \in Size : iapp_netbuf_alloc(t, size) PROVE Inv'
  BY <1>3, CallInv, Zenon
<1>4. ASSUME NEW t \in Thread, NEW a \in held, iapp_netbuf_free(t, a) PROVE Inv'
  BY <1>4, FreeInv, Zenon
<1>5. ASSUME NEW t \in Thread, pthread_mutex_lock(t) PROVE Inv'
  BY <1>5, CallInv, Zenon
<1>6. ASSUME NEW t \in Thread, shm_alloc_lookup_freelist(t) PROVE Inv'
  BY <1>6, LookupInv
<1>7. ASSUME NEW t \in Thread, CarveOff(t) PROVE Inv'
  BY <1>7, CarveInv
<1>8. ASSUME NEW t \in Thread, NoRoom(t) \/ NoNode(t) PROVE Inv'
  BY <1>8, CallInv, Zenon
<1>9. ASSUME NEW t \in Thread, shm_alloc_add_freelist(t) PROVE Inv'
  BY <1>9, GiveBackInv
<1> QED
  BY <1>1, <1>2, <1>3, <1>4, <1>5, <1>6, <1>7, <1>8, <1>9, Zenon DEF Next, Locked

\* Inv is an invariant of the allocator.
THEOREM ShmInvariant == Spec => []Inv
BY InvInit, InvNext, PTL DEF Spec

\* For any threads, sizes and slabs, two buffers in use never overlap and none
\* reaches beyond its slab (shm_alloc.c:225-254).
THEOREM DisjointCorrect == Spec => []Disjoint
<1>1. Inv => Disjoint
  <2> SUFFICES ASSUME Inv PROVE Disjoint
    BY Zenon
  <2>1. held \subseteq DOMAIN sa
    BY Zenon DEF Inv, Types
  <2>2. \A a \in DOMAIN sa : /\ sa[a].slab \in DOMAIN slab_list
                             /\ sa[a].offset \in Nat /\ sa[a].len \in Nat
                             /\ slab_list[sa[a].slab].curofs \in Nat
    <3> TAKE a \in DOMAIN sa
    <3>1. sa[a] \in Allocation
      BY ElementOfSeq, LenProperties, Zenon DEF Inv, Types
    <3>2. sa[a].slab \in DOMAIN slab_list
      BY Zenon DEF Inv, Carved
    <3>3. slab_list[sa[a].slab] \in Slab
      BY <3>2, ElementOfSeq, LenProperties, Zenon DEF Inv, Types
    <3> QED BY <3>1, <3>2, <3>3, ShmAssumption, SlabFields, Zenon DEF Allocation
  <2>3. \A a \in DOMAIN sa : sa[a].offset + sa[a].len <= SlabSize
    BY <2>2, ShmAssumption DEF Inv, Carved
  <2>4. \A a, b \in DOMAIN sa : a # b => Apart(sa[a], sa[b])
    BY Zenon DEF Inv, Carved
  <2> QED BY <2>1, <2>2, <2>3, <2>4, Zenon DEF Disjoint, Apart
<1> QED BY <1>1, ShmInvariant, PTL

-----------------------------------------------------------------------------
(* No buffer is lost or in two hands.  Accounted is restated with one fact  *)
(* per pair of places a buffer can be in, which is what a step disturbs.    *)

OnList(a) == \E s \in DOMAIN slab_list : \E i \in DOMAIN slab_list[s].free_list :
                 slab_list[s].free_list[i] = a

GoingBack(a) == \E t \in Thread : pc[t] = "free" /\ item[t] = a

\* Where a buffer can be, and that it is in no second place.
Hands ==
    /\ \A a \in DOMAIN sa : sa[a].active <=> a \in held
    /\ \A t \in Thread : pc[t] = "free" => item[t] \notin held
    /\ \A t, u \in Thread : pc[t] = "free" /\ pc[u] = "free" /\ item[t] = item[u] => t = u
    /\ \A s \in DOMAIN slab_list : \A i \in DOMAIN slab_list[s].free_list :
          LET a == slab_list[s].free_list[i]
          IN  a \notin held /\ ~GoingBack(a) /\ sa[a].slab = s
    /\ \A a \in DOMAIN sa : a \in held \/ OnList(a) \/ GoingBack(a)

\* A free list holds an entry once, and free_list_cnt is its length.
Lists ==
    \A s \in DOMAIN slab_list :
       /\ \A i, j \in DOMAIN slab_list[s].free_list :
             slab_list[s].free_list[i] = slab_list[s].free_list[j] => i = j
       /\ slab_list[s].cnt = Len(slab_list[s].free_list)

HandInv == Inv /\ Hands /\ Lists

\* No buffer exists when shm_alloc_init returns.
LEMMA HandInit == Init => Hands /\ Lists
<1> SUFFICES ASSUME Init PROVE Hands /\ Lists
  BY Zenon
<1>1. DOMAIN sa = {} /\ held = {} /\ \A t \in Thread : pc[t] = "idle"
  BY DEF Init
<1>2. \A s \in DOMAIN slab_list : slab_list[s] = EmptySlab
  BY DEF Init
<1>3. EmptySlab.free_list = <<>> /\ EmptySlab.cnt = 0
  BY Zenon DEF EmptySlab
<1>4. Hands
  BY <1>1, <1>2, <1>3 DEF Hands, GoingBack
<1>5. Lists
  BY <1>2, <1>3 DEF Lists
<1> QED BY <1>4, <1>5, Zenon

\* The calls that touch no buffer leave every one where it is; a new slab is
\* empty.
LEMMA CallHands ==
  ASSUME HandInv, NEW t \in Thread,
         \/ \E size \in Size : iapp_netbuf_alloc(t, size)
         \/ pthread_mutex_lock(t) \/ NoRoom(t) \/ NoNode(t)
  PROVE  Hands' /\ Lists'
<1>1. UNCHANGED <<slab_list, sa, held, item>>
  BY DEF iapp_netbuf_alloc, pthread_mutex_lock, NoRoom, NoNode, shmVars
<1>2. \A u \in Thread : pc'[u] = "free" <=> pc[u] = "free"
  <2>1. \/ pc' = pc
        \/ pc[t] \in {"idle", "alloc"} /\ pc' = [pc EXCEPT ![t] = "alloc"]
        \/ pc[t] \in {"idle", "alloc"} /\ pc' = [pc EXCEPT ![t] = "idle"]
    BY Zenon DEF iapp_netbuf_alloc, pthread_mutex_lock, NoRoom, NoNode, Leaves
  <2> QED BY <2>1, Zenon DEF HandInv, Inv, Types
<1>3. \A a : GoingBack(a)' <=> GoingBack(a)
  BY <1>1, <1>2, Zenon DEF GoingBack
<1>4. \A a : OnList(a)' <=> OnList(a)
  BY <1>1, Zenon DEF OnList
<1>5. Hands'
  BY <1>1, <1>2, <1>3, <1>4, Zenon DEF HandInv, Hands
<1>6. Lists'
  BY <1>1 DEF HandInv, Lists
<1> QED BY <1>5, <1>6, Zenon

\* A new slab has nothing on its free list.
LEMMA NewSlabHands ==
  ASSUME HandInv, NEW t \in Thread, shm_alloc_new_slab(t)
  PROVE  Hands' /\ Lists'
<1> DEFINE n == Len(slab_list) + 1
<1>1. EmptySlab \in Slab /\ EmptySlab.cnt = 0 /\ EmptySlab.free_list = <<>>
  BY DEF EmptySlab, Slab
<1>2. /\ slab_list \in Seq(Slab) /\ Len(slab_list) \in Nat
      /\ DOMAIN slab_list = 1..Len(slab_list)
  BY LenProperties, Zenon DEF HandInv, Inv, Types
<1>3. /\ DOMAIN slab_list' = 1..n
      /\ \A s \in DOMAIN slab_list : slab_list'[s] = slab_list[s]
      /\ slab_list'[n] = EmptySlab
  BY <1>1, <1>2, AppendProperties, LenProperties DEF shm_alloc_new_slab
<1>4. /\ DOMAIN slab_list \subseteq DOMAIN slab_list'
      /\ \A s \in DOMAIN slab_list' : s = n \/ s \in DOMAIN slab_list
  BY <1>2, <1>3
<1>5. UNCHANGED <<sa, held, pc, item>>
  BY Zenon DEF shm_alloc_new_slab
<1> HIDE DEF n
<1>6. \A s \in DOMAIN slab_list' : \A i \in DOMAIN slab_list'[s].free_list :
         s \in DOMAIN slab_list /\ slab_list'[s] = slab_list[s]
  BY <1>1, <1>3, <1>4
<1>7. \A a : GoingBack(a)' <=> GoingBack(a)
  BY <1>5, Zenon DEF GoingBack
<1>8. \A a : OnList(a) => OnList(a)'
  BY <1>3, <1>4, Zenon DEF OnList
<1>9. Hands'
  BY <1>5, <1>6, <1>7, <1>8 DEF HandInv, Hands
<1>10. Lists'
  <2>1. EmptySlab.cnt = Len(EmptySlab.free_list) /\ DOMAIN EmptySlab.free_list = {}
    BY <1>1
  <2> QED BY <1>3, <1>4, <2>1, Zenon DEF HandInv, Lists
<1> QED BY <1>9, <1>10, Zenon

\* A buffer found on a list leaves it for the caller's hands.
LEMMA LookupHands ==
  ASSUME HandInv, NEW t \in Thread, shm_alloc_lookup_freelist(t)
  PROVE  Hands' /\ Lists'
<1>1. PICK s \in DOMAIN slab_list : \E i \in DOMAIN slab_list[s].free_list :
          TakesBuffer(t, s, i)
  BY LookupEffect, Zenon DEF HandInv
<1>2. PICK i \in DOMAIN slab_list[s].free_list : TakesBuffer(t, s, i)
  BY <1>1, Zenon
<1>3. PICK q : q = slab_list[s].free_list
  BY Zenon
<1>4. PICK r : r = slab_list'[s].free_list
  BY Zenon
<1>5. PICK a : a = q[i]
  BY Zenon
<1>6. /\ q \in Seq(Nat) /\ i \in DOMAIN q /\ r = RemoveAt(q, i) /\ a \in DOMAIN sa
      /\ DOMAIN slab_list' = DOMAIN slab_list
      /\ \A s2 \in DOMAIN slab_list : s2 # s => slab_list'[s2] = slab_list[s2]
      /\ slab_list'[s].cnt = slab_list[s].cnt - 1
  BY <1>2, <1>3, <1>4, <1>5, Zenon DEF TakesBuffer
<1>7. /\ DOMAIN sa' = DOMAIN sa
      /\ \A x \in DOMAIN sa : /\ sa'[x].slab = sa[x].slab
                             /\ sa'[x].active = IF x = a THEN TRUE ELSE sa[x].active
      /\ held' = held \cup {a} /\ item' = item
  BY <1>2, <1>3, <1>5, Zenon DEF TakesBuffer
<1>8. \A u \in Thread : pc'[u] = "free" <=> pc[u] = "free"
  BY <1>2, Zenon DEF TakesBuffer, shm_alloc_lookup_freelist, HandInv, Inv, Types
<1>9. \A x : GoingBack(x)' <=> GoingBack(x)
  BY <1>7, <1>8, Zenon DEF GoingBack
<1>10. \A j, k \in DOMAIN q : q[j] = q[k] => j = k
  BY <1>3, Zenon DEF HandInv, Lists
<1>11. /\ \A j \in DOMAIN r : \E k \in DOMAIN q \ {i} : r[j] = q[k]
       /\ \A k \in DOMAIN q \ {i} : \E j \in DOMAIN r : r[j] = q[k]
       /\ \A j, k \in DOMAIN r : r[j] = r[k] => j = k
  BY <1>6, <1>10, RemoveAtElements
<1>12. \A j \in DOMAIN r : r[j] # a
  BY <1>5, <1>6, <1>10, <1>11, Zenon
<1>13. ~GoingBack(a) /\ sa[a].slab = s /\ a \notin held
  BY <1>3, <1>5, Zenon DEF HandInv, Hands
<1>14. \A x \in DOMAIN sa' : sa'[x].active <=> x \in held'
  BY <1>7, Zenon DEF HandInv, Hands
<1>15. \A u \in Thread : pc'[u] = "free" => item'[u] \notin held'
  BY <1>7, <1>8, <1>13, Zenon DEF HandInv, Hands, GoingBack
<1>16. \A u, v \in Thread : pc'[u] = "free" /\ pc'[v] = "free" /\ item'[u] = item'[v] => u = v
  BY <1>7, <1>8 DEF HandInv, Hands
<1>17. ASSUME NEW s2 \in DOMAIN slab_list', NEW j \in DOMAIN slab_list'[s2].free_list,
              NEW x, x = slab_list'[s2].free_list[j]
       PROVE  x \notin held' /\ ~GoingBack(x)' /\ sa'[x].slab = s2
  <2>1. \E k \in DOMAIN slab_list[s2].free_list : x = slab_list[s2].free_list[k] /\ x # a
    <3>1. CASE s2 = s
      BY <1>3, <1>4, <1>11, <1>12, <1>17, <3>1
    <3>2. CASE s2 # s
      <4>1. slab_list'[s2] = slab_list[s2] /\ s2 \in DOMAIN slab_list
        BY <1>6, <3>2, Zenon
      <4>2. sa[x].slab = s2
        BY <1>17, <4>1 DEF HandInv, Hands
      <4> QED BY <1>13, <1>17, <3>2, <4>1, <4>2, Zenon
    <3> QED BY <3>1, <3>2, Zenon
  <2>2. s2 \in DOMAIN slab_list
    BY <1>6, Zenon
  <2>3. x \notin held /\ ~GoingBack(x) /\ sa[x].slab = s2
    BY <2>1, <2>2 DEF HandInv, Hands
  <2>4. x \in DOMAIN sa
    BY <2>1, <2>2, Zenon DEF HandInv, Inv, Known
  <2> QED BY <1>7, <1>9, <2>1, <2>3, <2>4, Zenon
<1>18. ASSUME NEW x, OnList(x), x # a PROVE OnList(x)'
  <2>1. PICK s2 \in DOMAIN slab_list : \E k \in DOMAIN slab_list[s2].free_list :
            slab_list[s2].free_list[k] = x
    BY <1>18, Zenon DEF OnList
  <2>2. CASE s2 = s
    <3>1. PICK k \in DOMAIN q : q[k] = x
      BY <1>3, <2>1, <2>2, Zenon
    <3>2. k # i
      BY <1>5, <1>18, <3>1, Zenon
    <3>3. \E j \in DOMAIN r : r[j] = x
      BY <1>11, <3>1, <3>2, Zenon
    <3> QED BY <1>4, <1>6, <3>3, Zenon DEF OnList
  <2>3. CASE s2 # s
    BY <1>6, <2>1, <2>3, Zenon DEF OnList
  <2> QED BY <2>2, <2>3, Zenon
<1>19. \A x \in DOMAIN sa' : x \in held' \/ OnList(x)' \/ GoingBack(x)'
  <2> TAKE x \in DOMAIN sa'
  <2>1. x \in held \/ OnList(x) \/ GoingBack(x)
    BY <1>7, Zenon DEF HandInv, Hands
  <2> QED BY <1>7, <1>9, <1>18, <2>1, Zenon
<1>20. Hands'
  BY <1>14, <1>15, <1>16, <1>17, <1>19 DEF Hands
<1>21. Lists'
  <2>1. Len(r) = Len(q) - 1
    BY <1>6, RemoveAtProps, Zenon
  <2>2. slab_list[s].cnt = Len(q)
    BY <1>3, Zenon DEF HandInv, Lists
  <2>3. slab_list'[s].cnt = Len(r)
    BY <1>6, <2>1, <2>2, Zenon
  <2> SUFFICES ASSUME NEW s2 \in DOMAIN slab_list'
               PROVE  /\ \A j, k \in DOMAIN slab_list'[s2].free_list :
                            slab_list'[s2].free_list[j] = slab_list'[s2].free_list[k] => j = k
                      /\ slab_list'[s2].cnt = Len(slab_list'[s2].free_list)
    BY Zenon DEF Lists
  <2>4. CASE s2 = s
    BY <1>4, <1>11, <2>3, <2>4, Zenon
  <2>5. CASE s2 # s
    <3>1. slab_list'[s2] = slab_list[s2] /\ s2 \in DOMAIN slab_list
      BY <1>6, <2>5, Zenon
    <3> QED BY <3>1, Zenon DEF HandInv, Lists
  <2> QED BY <2>4, <2>5, Zenon
<1> QED BY <1>20, <1>21, Zenon

\* A piece carved off is nobody's until then.
LEMMA CarveHands ==
  ASSUME HandInv, NEW t \in Thread, CarveOff(t)
  PROVE  Hands' /\ Lists'
<1> DEFINE n == Len(sa) + 1
<1>1. want[t] \in Size /\ want[t] \in Nat
  BY ShmAssumption, Zenon DEF HandInv, Inv, Types, Known, CarveOff
<1>2. PICK s \in DOMAIN slab_list :
          /\ sa' = Append(sa, [slab |-> s, offset |-> slab_list[s].curofs,
                               len |-> want[t], active |-> TRUE])
          /\ slab_list' = [slab_list EXCEPT ![s].curofs = Bumped(slab_list[s], want[t])]
  BY Zenon DEF CarveOff
<1>3. s \in Nat /\ slab_list[s] \in Slab /\ slab_list[s].curofs \in Nat
  BY ElementOfSeq, LenProperties, SlabFields DEF HandInv, Inv, Types
<1>4. PICK piece : piece = [slab |-> s, offset |-> slab_list[s].curofs,
                            len |-> want[t], active |-> TRUE]
  BY Zenon
<1>5. piece \in Allocation /\ piece.active = TRUE
  BY <1>1, <1>3, <1>4, Zenon DEF Allocation
<1>6. sa \in Seq(Allocation) /\ Len(sa) \in Nat /\ DOMAIN sa = 1..Len(sa)
  BY LenProperties, Zenon DEF HandInv, Inv, Types
<1>7. sa' = Append(sa, piece)
  BY <1>2, <1>4, Zenon
<1>8. /\ DOMAIN sa' = 1..n /\ sa'[n] = piece
      /\ \A x \in DOMAIN sa : sa'[x] = sa[x]
  BY <1>5, <1>6, <1>7, AppendProperties, LenProperties
<1>9. /\ n \notin DOMAIN sa /\ DOMAIN sa \subseteq DOMAIN sa'
      /\ \A x \in DOMAIN sa' : x = n \/ x \in DOMAIN sa
  BY <1>6, <1>8
<1>10. held' = held \cup {n} /\ item' = item /\ held \subseteq DOMAIN sa
  BY Zenon DEF CarveOff, HandInv, Inv, Types
<1>11. \A u \in Thread : pc'[u] = "free" <=> pc[u] = "free"
  BY Zenon DEF CarveOff, Leaves, HandInv, Inv, Types
<1>12. /\ DOMAIN slab_list' = DOMAIN slab_list
       /\ \A s2 \in DOMAIN slab_list : /\ slab_list'[s2].free_list = slab_list[s2].free_list
                                      /\ slab_list'[s2].cnt = slab_list[s2].cnt
  <2>1. slab_list' = [slab_list EXCEPT ![s] =
                         [slab_list[s] EXCEPT !.curofs = Bumped(slab_list[s], want[t])]]
    BY <1>2, Zenon
  <2>2. PICK b : b = [slab_list[s] EXCEPT !.curofs = Bumped(slab_list[s], want[t])]
    BY Zenon
  <2>3. b.free_list = slab_list[s].free_list /\ b.cnt = slab_list[s].cnt
    BY <1>3, <2>2, Zenon DEF Slab
  <2>4. slab_list' = [slab_list EXCEPT ![s] = b]
    BY <2>1, <2>2, Zenon
  <2>5. DOMAIN slab_list' = DOMAIN slab_list
    BY <2>4, Zenon
  <2>6. \A s2 \in DOMAIN slab_list : slab_list'[s2] = IF s2 = s THEN b ELSE slab_list[s2]
    BY <2>4, Zenon
  <2> QED BY <2>3, <2>5, <2>6, Zenon
<1> HIDE DEF n
<1>13. \A x : GoingBack(x)' <=> GoingBack(x)
  BY <1>10, <1>11, Zenon DEF GoingBack
<1>14. \A x : OnList(x)' <=> OnList(x)
  BY <1>12, Zenon DEF OnList
<1>15. \A x \in DOMAIN sa' : sa'[x].active <=> x \in held'
  BY <1>5, <1>8, <1>9, <1>10, Zenon DEF HandInv, Hands
<1>16. \A u \in Thread : pc'[u] = "free" => item'[u] \notin held'
  BY <1>9, <1>10, <1>11 DEF HandInv, Inv, Known, Hands
<1>17. \A u, v \in Thread : pc'[u] = "free" /\ pc'[v] = "free" /\ item'[u] = item'[v] => u = v
  BY <1>10, <1>11, Zenon DEF HandInv, Hands
<1>18. ASSUME NEW s2 \in DOMAIN slab_list', NEW j \in DOMAIN slab_list'[s2].free_list,
              NEW x, x = slab_list'[s2].free_list[j]
       PROVE  x \notin held' /\ ~GoingBack(x)' /\ sa'[x].slab = s2
  <2>1. /\ s2 \in DOMAIN slab_list /\ j \in DOMAIN slab_list[s2].free_list
        /\ x = slab_list[s2].free_list[j]
    BY <1>12, <1>18, Zenon
  <2>2. x \notin held /\ ~GoingBack(x) /\ sa[x].slab = s2
    BY <2>1, Zenon DEF HandInv, Hands
  <2>3. x \in DOMAIN sa
    BY <2>1, Zenon DEF HandInv, Inv, Known
  <2> QED BY <1>8, <1>9, <1>10, <1>13, <2>2, <2>3, Zenon
<1>19. \A x \in DOMAIN sa' : x \in held' \/ OnList(x)' \/ GoingBack(x)'
  BY <1>9, <1>10, <1>13, <1>14, Zenon DEF HandInv, Hands
<1>20. Hands'
  BY <1>15, <1>16, <1>17, <1>18, <1>19 DEF Hands
<1>21. Lists'
  BY <1>12, Zenon DEF HandInv, Lists
<1> QED BY <1>20, <1>21, Zenon

\* A buffer that is freed leaves its owner's hands for the thread's.
LEMMA FreeHands ==
  ASSUME HandInv, NEW t \in Thread, NEW a \in held, iapp_netbuf_free(t, a)
  PROVE  Hands' /\ Lists'
<1>1. a \in DOMAIN sa /\ sa' = [sa EXCEPT ![a].active = FALSE]
  BY Zenon DEF iapp_netbuf_free, HandInv, Inv, Types
<1>2. /\ DOMAIN sa' = DOMAIN sa
      /\ \A x \in DOMAIN sa : /\ sa'[x].slab = sa[x].slab
                             /\ sa'[x].active = IF x = a THEN FALSE ELSE sa[x].active
  BY <1>1, MarkProps, Zenon DEF HandInv
<1>3. /\ held' = held \ {a} /\ pc' = [pc EXCEPT ![t] = "free"] /\ pc[t] = "idle"
      /\ item' = [item EXCEPT ![t] = a] /\ slab_list' = slab_list
  BY Zenon DEF iapp_netbuf_free
<1>4. /\ pc'[t] = "free" /\ item'[t] = a
      /\ \A u \in Thread : u # t => pc'[u] = pc[u] /\ item'[u] = item[u]
  BY <1>3, Zenon DEF HandInv, Inv, Types
<1>5. ~GoingBack(a) /\ ~OnList(a)
  BY DEF HandInv, Hands, GoingBack, OnList
<1>6. \A x : GoingBack(x)' <=> x = a \/ GoingBack(x)
  BY <1>3, <1>4, Zenon DEF GoingBack
<1>7. \A x : OnList(x)' <=> OnList(x)
  BY <1>3, Zenon DEF OnList
<1>8. \A x \in DOMAIN sa' : sa'[x].active <=> x \in held'
  BY <1>2, <1>3, Zenon DEF HandInv, Hands
<1>9. \A u \in Thread : pc'[u] = "free" => item'[u] \notin held'
  BY <1>3, <1>4 DEF HandInv, Hands
<1>10. \A u, v \in Thread : pc'[u] = "free" /\ pc'[v] = "free" /\ item'[u] = item'[v] => u = v
  <2> TAKE u, v \in Thread
  <2>1. CASE u = t /\ v # t
    BY <1>4, <1>5, <2>1, Zenon DEF GoingBack
  <2>2. CASE u # t /\ v = t
    BY <1>4, <1>5, <2>2, Zenon DEF GoingBack
  <2>3. CASE u # t /\ v # t
    BY <1>4, <2>3 DEF HandInv, Hands
  <2> QED BY <2>1, <2>2, <2>3, Zenon
<1>11. ASSUME NEW s \in DOMAIN slab_list', NEW j \in DOMAIN slab_list'[s].free_list,
              NEW x, x = slab_list'[s].free_list[j]
       PROVE  x \notin held' /\ ~GoingBack(x)' /\ sa'[x].slab = s
  <2>1. /\ s \in DOMAIN slab_list /\ j \in DOMAIN slab_list[s].free_list
        /\ x = slab_list[s].free_list[j]
    BY <1>3, <1>11, Zenon
  <2>2. x \notin held /\ ~GoingBack(x) /\ sa[x].slab = s
    BY <2>1, Zenon DEF HandInv, Hands
  <2>3. x \in DOMAIN sa /\ x # a
    BY <2>1, <2>2, Zenon DEF HandInv, Inv, Known
  <2> QED BY <1>2, <1>3, <1>6, <2>2, <2>3, Zenon
<1>12. \A x \in DOMAIN sa' : x \in held' \/ OnList(x)' \/ GoingBack(x)'
  BY <1>2, <1>3, <1>6, <1>7, Zenon DEF HandInv, Hands
<1>13. Hands'
  BY <1>8, <1>9, <1>10, <1>11, <1>12 DEF Hands
<1>14. Lists'
  BY <1>3 DEF HandInv, Lists
<1> QED BY <1>13, <1>14, Zenon

\* A buffer given back leaves the thread's hands for the list of its own slab.
LEMMA GiveBackHands ==
  ASSUME HandInv, NEW t \in Thread, shm_alloc_add_freelist(t)
  PROVE  Hands' /\ Lists'
<1>1. PICK a : a = item[t]
  OBVIOUS
<1>2. PICK s : s = sa[a].slab
  OBVIOUS
<1>3. PICK q : q = slab_list[s].free_list
  OBVIOUS
<1>4. PICK r : r = slab_list'[s].free_list
  BY Zenon
<1>5. /\ a \in DOMAIN sa /\ s \in DOMAIN slab_list
      /\ q \in Seq(Nat) /\ r = <<a>> \o q
      /\ DOMAIN slab_list' = DOMAIN slab_list
      /\ slab_list'[s].cnt = slab_list[s].cnt + 1
      /\ \A s2 \in DOMAIN slab_list : s2 # s => slab_list'[s2] = slab_list[s2]
  BY <1>1, <1>2, <1>3, <1>4, GivenBack, Zenon DEF HandInv
<1>6. a \in Nat
  BY <1>5, LenProperties DEF HandInv, Inv, Types
<1>7. /\ Len(r) = Len(q) + 1 /\ 1 \in DOMAIN r /\ r[1] = a
      /\ \A j \in DOMAIN q : j + 1 \in DOMAIN r /\ r[j + 1] = q[j]
      /\ \A j \in DOMAIN r : j = 1 \/ (j - 1 \in DOMAIN q /\ r[j] = q[j - 1])
  BY <1>5, <1>6, InsertHeadProps
<1>8. /\ pc[t] = "free" /\ UNCHANGED <<sa, held>> /\ item' = [item EXCEPT ![t] = 0]
      /\ pc' = [pc EXCEPT ![t] = "idle"]
  BY Zenon DEF shm_alloc_add_freelist, Leaves
<1>9. /\ pc'[t] = "idle"
      /\ \A u \in Thread : u # t => pc'[u] = pc[u] /\ item'[u] = item[u]
  BY <1>8, Zenon DEF HandInv, Inv, Types
<1>10. a \notin held /\ \A u \in Thread : u # t /\ pc[u] = "free" => item[u] # a
  BY <1>1, <1>8, Zenon DEF HandInv, Hands
<1>11. \A x : GoingBack(x)' <=> GoingBack(x) /\ x # a
  BY <1>1, <1>8, <1>9, <1>10, Zenon DEF GoingBack
<1>12. \A j \in DOMAIN q : q[j] # a
  BY <1>1, <1>3, <1>5, <1>8 DEF HandInv, Hands, GoingBack
<1>13. \A x \in DOMAIN sa' : sa'[x].active <=> x \in held'
  BY <1>8, Zenon DEF HandInv, Hands
<1>14. \A u \in Thread : pc'[u] = "free" => item'[u] \notin held'
  BY <1>8, <1>9 DEF HandInv, Hands
<1>15. \A u, v \in Thread : pc'[u] = "free" /\ pc'[v] = "free" /\ item'[u] = item'[v] => u = v
  BY <1>9 DEF HandInv, Hands
<1>16. ASSUME NEW s2 \in DOMAIN slab_list', NEW j \in DOMAIN slab_list'[s2].free_list,
              NEW x, x = slab_list'[s2].free_list[j]
       PROVE  x \notin held' /\ ~GoingBack(x)' /\ sa'[x].slab = s2
  <2>1. CASE s2 = s /\ j = 1
    BY <1>2, <1>4, <1>7, <1>8, <1>10, <1>11, <1>16, <2>1, Zenon
  <2>2. CASE ~(s2 = s /\ j = 1)
    <3>1. \E k \in DOMAIN slab_list[s2].free_list : x = slab_list[s2].free_list[k]
      <4>1. CASE s2 # s
        BY <1>5, <1>16, <4>1, Zenon
      <4>2. CASE s2 = s
        <5>1. j \in DOMAIN r /\ x = r[j] /\ j # 1
          BY <1>4, <1>16, <2>2, <4>2, Zenon
        <5>2. j - 1 \in DOMAIN q /\ x = q[j - 1]
          BY <1>7, <5>1, Zenon
        <5> QED BY <1>3, <4>2, <5>2, Zenon
      <4> QED BY <4>1, <4>2, Zenon
    <3>2. s2 \in DOMAIN slab_list
      BY <1>5, Zenon
    <3> QED BY <1>8, <1>11, <3>1, <3>2 DEF HandInv, Hands
  <2> QED BY <2>1, <2>2, Zenon
<1>17. ASSUME NEW x, OnList(x) \/ x = a PROVE OnList(x)'
  <2>1. CASE x = a
    BY <1>4, <1>5, <1>7, <2>1, Zenon DEF OnList
  <2>2. CASE OnList(x)
    <3>1. PICK s2 \in DOMAIN slab_list : \E k \in DOMAIN slab_list[s2].free_list :
              slab_list[s2].free_list[k] = x
      BY <2>2, Zenon DEF OnList
    <3>2. CASE s2 = s
      <4>1. PICK k \in DOMAIN q : q[k] = x
        BY <1>3, <3>1, <3>2, Zenon
      <4>2. \E j \in DOMAIN r : r[j] = x
        BY <1>7, <4>1, Zenon
      <4> QED BY <1>4, <1>5, <4>2, Zenon DEF OnList
    <3>3. CASE s2 # s
      BY <1>5, <3>1, <3>3, Zenon DEF OnList
    <3> QED BY <3>2, <3>3, Zenon
  <2> QED BY <1>17, <2>1, <2>2, Zenon
<1>18. \A x \in DOMAIN sa' : x \in held' \/ OnList(x)' \/ GoingBack(x)'
  <2> TAKE x \in DOMAIN sa'
  <2>1. x \in held \/ OnList(x) \/ GoingBack(x)
    BY <1>8, Zenon DEF HandInv, Hands
  <2> QED BY <1>8, <1>11, <1>17, <2>1, Zenon
<1>19. Hands'
  BY <1>13, <1>14, <1>15, <1>16, <1>18 DEF Hands
<1>20. \A j, k \in DOMAIN r : r[j] = r[k] => j = k
  <2>1. \A j, k \in DOMAIN q : q[j] = q[k] => j = k
    BY <1>3, <1>5, Zenon DEF HandInv, Lists
  <2>2. DOMAIN r \subseteq Int
    BY <1>5, <1>6, InsertHeadProps, LenProperties
  <2> TAKE j, k \in DOMAIN r
  <2>3. CASE j = 1 \/ k = 1
    BY <1>7, <1>12, <2>3
  <2>4. CASE j # 1 /\ k # 1 /\ r[j] = r[k]
    <3>1. j - 1 = k - 1
      BY <1>7, <2>1, <2>4
    <3> QED BY <2>2, <3>1
  <2> QED BY <2>3, <2>4, Zenon
<1>21. Lists'
  <2>1. slab_list[s].cnt = Len(q)
    BY <1>3, <1>5, Zenon DEF HandInv, Lists
  <2>2. slab_list'[s].cnt = Len(r)
    BY <1>5, <1>7, <2>1, Zenon
  <2> SUFFICES ASSUME NEW s2 \in DOMAIN slab_list'
               PROVE  /\ \A j, k \in DOMAIN slab_list'[s2].free_list :
                            slab_list'[s2].free_list[j] = slab_list'[s2].free_list[k] => j = k
                      /\ slab_list'[s2].cnt = Len(slab_list'[s2].free_list)
    BY Zenon DEF Lists
  <2>3. CASE s2 = s
    BY <1>4, <1>20, <2>2, <2>3, Zenon
  <2>4. CASE s2 # s
    <3>1. slab_list'[s2] = slab_list[s2] /\ s2 \in DOMAIN slab_list
      BY <1>5, <2>4, Zenon
    <3> QED BY <3>1, Zenon DEF HandInv, Lists
  <2> QED BY <2>3, <2>4, Zenon
<1> QED BY <1>19, <1>21

\* Every step leaves each buffer in one place.
LEMMA HandNext == HandInv /\ [Next]_vars => HandInv'
<1> SUFFICES ASSUME HandInv, [Next]_vars PROVE Hands' /\ Lists'
  BY InvNext, Zenon DEF HandInv
<1>1. CASE UNCHANGED vars
  BY <1>1 DEF HandInv, Hands, Lists, OnList, GoingBack, vars, shmVars
<1>2. ASSUME NEW t \in Thread, shm_alloc_new_slab(t) PROVE Hands' /\ Lists'
  BY <1>2, NewSlabHands, Zenon
<1>3. ASSUME NEW t \in Thread, \E size \in Size : iapp_netbuf_alloc(t, size)
      PROVE  Hands' /\ Lists'
  BY <1>3, CallHands, Zenon
<1>4. ASSUME NEW t \in Thread, NEW a \in held, iapp_netbuf_free(t, a)
      PROVE  Hands' /\ Lists'
  BY <1>4, FreeHands, Zenon
<1>5. ASSUME NEW t \in Thread, pthread_mutex_lock(t) PROVE Hands' /\ Lists'
  BY <1>5, CallHands, Zenon
<1>6. ASSUME NEW t \in Thread, shm_alloc_lookup_freelist(t) PROVE Hands' /\ Lists'
  BY <1>6, LookupHands
<1>7. ASSUME NEW t \in Thread, CarveOff(t) PROVE Hands' /\ Lists'
  BY <1>7, CarveHands
<1>8. ASSUME NEW t \in Thread, NoRoom(t) \/ NoNode(t) PROVE Hands' /\ Lists'
  BY <1>8, CallHands, Zenon
<1>9. ASSUME NEW t \in Thread, shm_alloc_add_freelist(t) PROVE Hands' /\ Lists'
  BY <1>9, GiveBackHands
<1> QED
  BY <1>1, <1>2, <1>3, <1>4, <1>5, <1>6, <1>7, <1>8, <1>9, Zenon DEF Next, Locked

\* HandInv says what Accounted says.
LEMMA HandsAccount == HandInv => Accounted
<1> SUFFICES ASSUME HandInv PROVE Accounted
  OBVIOUS
<1>1. \A a : (Listed(a) = {}) <=> ~OnList(a)
  BY Zenon DEF Listed, OnList
<1>2. \A a : (Returning(a) = {}) <=> ~GoingBack(a)
  BY Zenon DEF Returning, GoingBack
<1>3. ASSUME NEW a, OnList(a)
      PROVE  a \notin held /\ Listed(a) = {sa[a].slab} /\ Returning(a) = {}
  <2>1. PICK s \in DOMAIN slab_list : \E i \in DOMAIN slab_list[s].free_list :
            slab_list[s].free_list[i] = a
    BY <1>3, Zenon DEF OnList
  <2>2. a \notin held /\ ~GoingBack(a) /\ sa[a].slab = s
    BY <2>1 DEF HandInv, Hands
  <2>3. \A s2 \in Listed(a) : s2 = sa[a].slab
    BY DEF Listed, HandInv, Hands
  <2>4. s \in Listed(a)
    BY <2>1, Zenon DEF Listed
  <2> QED BY <1>2, <2>2, <2>3, <2>4, Zenon
<1>4. ASSUME NEW a, GoingBack(a)
      PROVE  a \notin held /\ ~OnList(a) /\ Cardinality(Returning(a)) = 1
  <2>1. PICK t \in Thread : pc[t] = "free" /\ item[t] = a
    BY <1>4, Zenon DEF GoingBack
  <2>2. Returning(a) = {t}
    BY <2>1 DEF Returning, HandInv, Hands
  <2>3. Cardinality(Returning(a)) = 1
    BY <2>2, FS_Singleton, Zenon
  <2>4. a \notin held /\ ~OnList(a)
    BY <1>3, <1>4, <2>1, Zenon DEF HandInv, Hands, OnList
  <2> QED BY <2>3, <2>4, Zenon
<1>5. ASSUME NEW a \in DOMAIN sa
      PROVE  /\ sa[a].active <=> a \in held
             /\ a \in held => Listed(a) = {} /\ Returning(a) = {}
             /\ a \notin held => \/ Listed(a) = {sa[a].slab} /\ Returning(a) = {}
                                 \/ Listed(a) = {} /\ Cardinality(Returning(a)) = 1
  <2>1. sa[a].active <=> a \in held
    BY Zenon DEF HandInv, Hands
  <2>2. a \in held \/ OnList(a) \/ GoingBack(a)
    BY Zenon DEF HandInv, Hands
  <2> QED BY <1>1, <1>2, <1>3, <1>4, <2>1, <2>2, Zenon
<1>6. ASSUME NEW s \in DOMAIN slab_list
      PROVE  /\ \A i \in DOMAIN slab_list[s].free_list : slab_list[s].free_list[i] \in DOMAIN sa
             /\ \A i, j \in DOMAIN slab_list[s].free_list :
                   slab_list[s].free_list[i] = slab_list[s].free_list[j] => i = j
             /\ slab_list[s].cnt = Len(slab_list[s].free_list)
  BY Zenon DEF HandInv, Inv, Known, Lists
<1> QED BY <1>5, <1>6, Zenon DEF Accounted

\* For any threads, sizes and slabs, no buffer is lost or in two hands, and the
\* assertion of shm_alloc_add_freelist holds for a buffer in use
\* (shm_alloc.c:136).
THEOREM AccountedCorrect == Spec => []Accounted
<1>1. Init => HandInv
  BY InvInit, HandInit, Zenon DEF HandInv
<1> QED BY <1>1, HandNext, HandsAccount, PTL DEF Spec

-----------------------------------------------------------------------------
\* The types of what the argument above does not need.
OtherTypes == /\ lock \in Thread \cup {None}
              /\ got \in [Thread -> {"nothing", "buffer", "NULL"}]
              /\ failed \in BOOLEAN

\* Every step keeps them.
LEMMA OtherTypesNext == OtherTypes /\ [Next]_vars => OtherTypes'
<1> SUFFICES ASSUME OtherTypes, [Next]_vars PROVE OtherTypes'
  OBVIOUS
<1>1. CASE UNCHANGED vars
  BY <1>1, Zenon DEF OtherTypes, vars
<1>2. ASSUME NEW t \in Thread, shm_alloc_new_slab(t) PROVE OtherTypes'
  BY <1>2, Zenon DEF OtherTypes, shm_alloc_new_slab
<1>3. ASSUME NEW t \in Thread, NEW size \in Size, iapp_netbuf_alloc(t, size) PROVE OtherTypes'
  BY <1>3, Zenon DEF OtherTypes, iapp_netbuf_alloc
<1>4. ASSUME NEW t \in Thread, NEW a \in held, iapp_netbuf_free(t, a) PROVE OtherTypes'
  BY <1>4, Zenon DEF OtherTypes, iapp_netbuf_free
<1>5. ASSUME NEW t \in Thread, pthread_mutex_lock(t) PROVE OtherTypes'
  BY <1>5, Zenon DEF OtherTypes, pthread_mutex_lock
<1>6. ASSUME NEW t \in Thread, shm_alloc_lookup_freelist(t) PROVE OtherTypes'
  <2>1. /\ lock' = None /\ failed' = failed
        /\ got' = [got EXCEPT ![t] = "buffer"]
    BY <1>6, Zenon DEF shm_alloc_lookup_freelist, Leaves, Unlock
  <2> QED BY <2>1, Zenon DEF OtherTypes
<1>7. ASSUME NEW t \in Thread, CarveOff(t) PROVE OtherTypes'
  <2>1. /\ lock' = None /\ failed' = failed
        /\ got' = [got EXCEPT ![t] = "buffer"]
    BY <1>7, Zenon DEF CarveOff, Leaves, Unlock
  <2> QED BY <2>1 DEF OtherTypes
<1>8. ASSUME NEW t \in Thread, NoRoom(t) \/ NoNode(t) PROVE OtherTypes'
  BY <1>8, Zenon DEF OtherTypes, NoRoom, NoNode, Leaves, Unlock
<1>9. ASSUME NEW t \in Thread, shm_alloc_add_freelist(t) PROVE OtherTypes'
  <2>1. lock' = None /\ failed' = failed /\ got' = got
    BY <1>9, Zenon DEF shm_alloc_add_freelist, Leaves, Unlock
  <2> QED BY <2>1, Zenon DEF OtherTypes
<1> QED
  BY <1>1, <1>2, <1>3, <1>4, <1>5, <1>6, <1>7, <1>8, <1>9 DEF Next, Locked

\* Every variable holds a value of its type; that free_list_cnt is never
\* negative rests on AccountedCorrect.
THEOREM ShmTypeCorrect == Spec => []TypeOK
<1>1. Init => HandInv /\ OtherTypes
  BY InvInit, HandInit, Zenon DEF HandInv, OtherTypes, Init
<1>2. HandInv /\ OtherTypes => TypeOK
  <2> SUFFICES ASSUME HandInv, OtherTypes PROVE TypeOK
    BY Zenon
  <2> DEFINE CSlab == [curofs : Nat, free_list : Seq(Nat), cnt : Nat]
  <2>1. \A s \in DOMAIN slab_list : slab_list[s] \in CSlab
    <3> TAKE s \in DOMAIN slab_list
    <3>1. slab_list[s] \in Slab
      BY ElementOfSeq, LenProperties, Zenon DEF HandInv, Inv, Types
    <3>2. slab_list[s].cnt = Len(slab_list[s].free_list)
      BY Zenon DEF HandInv, Lists
    <3>3. slab_list[s].cnt \in Nat
      BY <3>1, <3>2, SlabFields, LenProperties, Zenon
    <3> QED BY <3>1, <3>3, Zenon DEF Slab
  <2>2. slab_list \in Seq(CSlab)
    <3>1. slab_list \in Seq(Slab) /\ Len(slab_list) \in Nat /\ DOMAIN slab_list = 1..Len(slab_list)
      BY LenProperties, Zenon DEF HandInv, Inv, Types
    <3>2. slab_list = [s \in 1..Len(slab_list) |-> slab_list[s]]
      BY <3>1
    <3> HIDE DEF CSlab
    <3>3. slab_list \in [1..Len(slab_list) -> CSlab]
      BY <2>1, <3>1, <3>2, Zenon
    <3> QED BY <3>1, <3>3, SeqDef
  <2> QED BY <2>2, Zenon DEF HandInv, Inv, Types, OtherTypes, TypeOK
<1> QED BY <1>1, <1>2, HandNext, OtherTypesNext, PTL DEF Spec

\* For any threads, sizes and slabs, a netbuf has the bytes that were asked for,
\* whether its memory is new or reused (netbuf.c:62).
THEOREM SizesCorrect == Spec => GivesWhatIsAsked
<1> DEFINE Gives == \A a \in held' \ held : \E t \in Thread :
                       /\ got'[t] = "buffer" /\ pc[t] = "alloc" /\ pc'[t] = "idle"
                       /\ sa'[a].len = want[t]
<1>1. Inv /\ OtherTypes /\ [Next]_vars => [Gives]_vars
  <2> SUFFICES ASSUME Inv, OtherTypes, Next, NEW a \in held' \ held
               PROVE  \E t \in Thread :
                         /\ got'[t] = "buffer" /\ pc[t] = "alloc" /\ pc'[t] = "idle"
                         /\ sa'[a].len = want[t]
    BY Zenon
  <2>1. PICK t \in Thread : shm_alloc_lookup_freelist(t) \/ CarveOff(t)
    BY Zenon DEF Next, Locked, shm_alloc_new_slab, iapp_netbuf_alloc, iapp_netbuf_free,
           pthread_mutex_lock, NoRoom, NoNode, shm_alloc_add_freelist
  <2>2. got'[t] = "buffer" /\ pc[t] = "alloc" /\ pc'[t] = "idle"
    <3>1. /\ pc[t] = "alloc" /\ got' = [got EXCEPT ![t] = "buffer"]
          /\ pc' = [pc EXCEPT ![t] = "idle"]
      BY <2>1, Zenon DEF shm_alloc_lookup_freelist, CarveOff, Leaves
    <3> QED BY <3>1, Zenon DEF Inv, Types, OtherTypes
  <2>3. CASE shm_alloc_lookup_freelist(t)
    <3>1. PICK s \in DOMAIN slab_list : \E i \in DOMAIN slab_list[s].free_list :
              /\ Found(s, i, want[t])
              /\ sa' = [sa EXCEPT ![slab_list[s].free_list[i]].active = TRUE]
              /\ held' = held \cup {slab_list[s].free_list[i]}
      BY <2>3, Zenon DEF shm_alloc_lookup_freelist
    <3>2. PICK i \in DOMAIN slab_list[s].free_list :
              /\ Found(s, i, want[t])
              /\ sa' = [sa EXCEPT ![slab_list[s].free_list[i]].active = TRUE]
              /\ held' = held \cup {slab_list[s].free_list[i]}
      BY <3>1, Zenon
    <3>3. a = slab_list[s].free_list[i]
      BY <3>2, Zenon
    <3>4. a \in DOMAIN sa /\ sa' = [sa EXCEPT ![a].active = TRUE]
      BY <3>2, <3>3, Zenon DEF Inv, Known
    <3>5. sa'[a].len = sa[a].len
      BY <3>4, MarkProps, Zenon
    <3>6. sa[a].len = want[t]
      BY <3>2, <3>3, Zenon DEF Found, Suitable, Suits
    <3> QED BY <2>2, <3>5, <3>6, Zenon
  <2>4. CASE CarveOff(t)
    <3>1. a = Len(sa) + 1
      BY <2>4, Zenon DEF CarveOff
    <3>2. PICK s, ofs : sa' = Append(sa, [slab |-> s, offset |-> ofs,
                                          len |-> want[t], active |-> TRUE])
      BY <2>4, Zenon DEF CarveOff
    <3>3. PICK piece : piece = [slab |-> s, offset |-> ofs, len |-> want[t], active |-> TRUE]
      BY Zenon
    <3>4. sa' = Append(sa, piece) /\ piece.len = want[t]
      BY <3>2, <3>3, Zenon
    <3>5. sa \in Seq(Allocation)
      BY Zenon DEF Inv, Types
    <3>6. sa'[Len(sa) + 1] = piece
      BY <3>4, <3>5
    <3> QED BY <2>2, <3>1, <3>4, <3>6, Zenon
  <2> QED BY <2>1, <2>3, <2>4, Zenon
<1>2. Init => OtherTypes
  BY Zenon DEF Init, OtherTypes
<1> QED
  BY <1>1, <1>2, InvInit, InvNext, OtherTypesNext, PTL DEF Spec, GivesWhatIsAsked

-----------------------------------------------------------------------------
(* Nothing of a slab is lost. *)

\* Byte x of slab s belongs to allocation a.
Covers(a, s, x) == sa[a].slab = s /\ sa[a].offset <= x /\ x < sa[a].offset + sa[a].len

\* Every byte below shm_curofs belongs to an allocation.
Covered ==
    \A s \in DOMAIN slab_list : \A x \in 0 .. slab_list[s].curofs - 1 :
       \E a \in DOMAIN sa : Covers(a, s, x)

\* Every byte below shm_curofs belongs to exactly one allocation.
Tiled ==
    \A s \in DOMAIN slab_list : \A x \in 0 .. slab_list[s].curofs - 1 :
       \E a \in DOMAIN sa : \A b \in DOMAIN sa : Covers(b, s, x) <=> b = a

\* What belongs to an allocation goes on belonging to it when none is moved and
\* no slab but an empty one is added.
LEMMA CoveredKept ==
  ASSUME Covered,
         DOMAIN sa' = DOMAIN sa,
         \A x \in DOMAIN sa : /\ sa'[x].slab = sa[x].slab
                             /\ sa'[x].offset = sa[x].offset
                             /\ sa'[x].len = sa[x].len,
         \A s \in DOMAIN slab_list' : \/ slab_list'[s].curofs = 0
                                      \/ /\ s \in DOMAIN slab_list
                                         /\ slab_list'[s].curofs = slab_list[s].curofs
  PROVE  Covered'
<1> SUFFICES ASSUME NEW s \in DOMAIN slab_list', NEW x \in 0 .. slab_list'[s].curofs - 1
             PROVE  \E a \in DOMAIN sa : Covers(a, s, x)'
  BY Zenon DEF Covered
<1>1. slab_list'[s].curofs # 0
  <2> SUFFICES ASSUME slab_list'[s].curofs = 0 PROVE FALSE
    BY Zenon
  <2>1. x \in 0 .. 0 - 1
    BY Zenon
  <2> HIDE DEF Covered
  <2> QED BY <2>1
<1>2. PICK a \in DOMAIN sa : Covers(a, s, x)
  BY <1>1, Zenon DEF Covered
<1>3. Covers(a, s, x)'
  BY <1>2, Zenon DEF Covers
<1> QED BY <1>3, Zenon

\* A piece carved off takes all bytes between the old shm_curofs and the new.
LEMMA CarveCovered ==
  ASSUME Inv, Covered, NEW t \in Thread, CarveOff(t)
  PROVE  Covered'
<1>1. PICK s \in DOMAIN slab_list :
          /\ sa' = Append(sa, [slab |-> s, offset |-> slab_list[s].curofs,
                               len |-> want[t], active |-> TRUE])
          /\ slab_list' = [slab_list EXCEPT ![s].curofs = slab_list[s].curofs + want[t]]
  BY Zenon DEF CarveOff, Bumped
<1>2. PICK ofs, size, n : ofs = slab_list[s].curofs /\ size = want[t] /\ n = Len(sa) + 1
  BY Zenon
<1>3. slab_list[s] \in Slab /\ s \in Nat /\ size \in Size /\ size \in Nat
  <2>1. slab_list[s] \in Slab /\ s \in Nat
    BY ElementOfSeq, LenProperties DEF Inv, Types
  <2>2. size \in Size /\ size \in Nat
    BY <1>2, ShmAssumption, Zenon DEF Inv, Known, CarveOff
  <2> QED BY <2>1, <2>2
<1>4. ofs \in Nat /\ ofs + size \in Nat
  BY <1>2, <1>3, SlabFields
<1>5. PICK slab : slab = [slab_list[s] EXCEPT !.curofs = ofs + size]
  BY Zenon
<1>6. slab \in Slab /\ slab.curofs = ofs + size
  BY <1>3, <1>4, <1>5, Zenon DEF Slab
<1>7. slab_list' = [slab_list EXCEPT ![s] = slab]
  BY <1>1, <1>2, <1>5, Zenon
<1>8. /\ DOMAIN slab_list' = DOMAIN slab_list /\ slab_list'[s] = slab
      /\ \A s2 \in DOMAIN slab_list : s2 # s => slab_list'[s2] = slab_list[s2]
  BY <1>6, <1>7, SlabChange, Zenon
<1>9. PICK piece : piece = [slab |-> s, offset |-> ofs, len |-> size, active |-> TRUE]
  BY Zenon
<1>10. piece \in Allocation /\ piece.slab = s /\ piece.offset = ofs /\ piece.len = size
  BY <1>3, <1>4, <1>9, Zenon DEF Allocation
<1>11. sa \in Seq(Allocation) /\ sa' = Append(sa, piece)
  BY <1>1, <1>2, <1>9, Zenon DEF Inv, Types
<1>12. /\ DOMAIN sa \subseteq DOMAIN sa' /\ n \in DOMAIN sa' /\ sa'[n] = piece
       /\ \A a \in DOMAIN sa : sa'[a] = sa[a]
  BY <1>2, <1>10, <1>11, AppendProperties, LenProperties
<1> SUFFICES ASSUME NEW s2 \in DOMAIN slab_list, NEW x \in 0 .. slab_list'[s2].curofs - 1
             PROVE  \E a \in DOMAIN sa' : Covers(a, s2, x)'
  BY <1>8, Zenon DEF Covered
<1>13. CASE s2 = s /\ ofs <= x
  <2>1. x < ofs + size
    BY <1>4, <1>6, <1>8, <1>13
  <2>2. Covers(n, s2, x)'
    BY <1>10, <1>12, <1>13, <2>1, Zenon DEF Covers
  <2> QED BY <1>12, <2>2, Zenon
<1>14. CASE s2 # s \/ ~(ofs <= x)
  <2>1. x \in 0 .. slab_list[s2].curofs - 1
    <3>1. CASE s2 # s
      BY <1>8, <3>1, Zenon
    <3>2. CASE s2 = s /\ ~(ofs <= x)
      BY <1>2, <1>4, <1>6, <1>8, <3>2
    <3> QED BY <1>14, <3>1, <3>2, Zenon
  <2>2. PICK a \in DOMAIN sa : Covers(a, s2, x)
    BY <2>1, Zenon DEF Covered
  <2>3. Covers(a, s2, x)'
    BY <1>12, <2>2, Zenon DEF Covers
  <2> QED BY <1>12, <2>3, Zenon
<1> QED BY <1>13, <1>14, Zenon

\* Every step keeps the slabs covered.
LEMMA CoveredNext == Inv /\ Covered /\ [Next]_vars => Covered'
<1> SUFFICES ASSUME Inv, Covered, [Next]_vars PROVE Covered'
  BY Zenon
<1>1. CASE UNCHANGED <<slab_list, sa>>
  BY <1>1, Zenon DEF Covered, Covers
<1>2. ASSUME NEW t \in Thread, shm_alloc_new_slab(t) PROVE Covered'
  <2>1. /\ slab_list \in Seq(Slab) /\ slab_list' = Append(slab_list, EmptySlab)
        /\ UNCHANGED sa
    BY <1>2, Zenon DEF shm_alloc_new_slab, Inv, Types
  <2>2. EmptySlab \in Slab /\ EmptySlab.curofs = 0
    BY DEF EmptySlab, Slab
  <2>3. \A s \in DOMAIN slab_list' : \/ slab_list'[s] = EmptySlab
                                     \/ s \in DOMAIN slab_list /\ slab_list'[s] = slab_list[s]
    <3> HIDE DEF EmptySlab
    <3>1. PICK n, m : n = Len(slab_list) /\ m = Len(slab_list')
      BY Zenon
    <3>2. /\ DOMAIN slab_list = 1..n /\ DOMAIN slab_list' = 1..m /\ n \in Nat /\ m = n + 1
          /\ \A s \in 1..n : slab_list'[s] = slab_list[s]
          /\ slab_list'[m] = EmptySlab
      BY <2>1, <2>2, <3>1, AppendProperties, LenProperties
    <3>3. \A s \in 1..m : s = m \/ s \in 1..n
      BY <3>2
    <3> QED BY <3>2, <3>3, Zenon
  <2> HIDE DEF EmptySlab
  <2> QED BY <2>1, <2>2, <2>3, CoveredKept, Zenon
<1>3. ASSUME NEW t \in Thread, NEW a \in held, iapp_netbuf_free(t, a) PROVE Covered'
  <2>1. a \in DOMAIN sa /\ sa' = [sa EXCEPT ![a].active = FALSE] /\ UNCHANGED slab_list
    BY <1>3, Zenon DEF iapp_netbuf_free, Inv, Types
  <2>2. /\ DOMAIN sa' = DOMAIN sa
        /\ \A x \in DOMAIN sa : /\ sa'[x].slab = sa[x].slab
                               /\ sa'[x].offset = sa[x].offset
                               /\ sa'[x].len = sa[x].len
    BY <2>1, MarkProps, Zenon
  <2> QED BY <2>1, <2>2, CoveredKept, Zenon
<1>4. ASSUME NEW t \in Thread, shm_alloc_lookup_freelist(t) PROVE Covered'
  <2>1. PICK s \in DOMAIN slab_list : \E i \in DOMAIN slab_list[s].free_list :
            TakesBuffer(t, s, i)
    BY <1>4, LookupEffect, Zenon
  <2>2. PICK i \in DOMAIN slab_list[s].free_list : TakesBuffer(t, s, i)
    BY <2>1, Zenon
  <2> QED BY <2>2, CoveredKept, Zenon DEF TakesBuffer
<1>5. ASSUME NEW t \in Thread, shm_alloc_add_freelist(t) PROVE Covered'
  <2>1. PICK s : s = sa[item[t]].slab
    BY Zenon
  <2>2. /\ s \in DOMAIN slab_list /\ DOMAIN slab_list' = DOMAIN slab_list
        /\ slab_list'[s].curofs = slab_list[s].curofs
        /\ \A s2 \in DOMAIN slab_list : s2 # s => slab_list'[s2] = slab_list[s2]
    BY <1>5, <2>1, GivenBack, Zenon
  <2>3. UNCHANGED sa
    BY <1>5, Zenon DEF shm_alloc_add_freelist
  <2> QED BY <2>2, <2>3, CoveredKept, Zenon
<1>6. ASSUME NEW t \in Thread,
             \/ \E size \in Size : iapp_netbuf_alloc(t, size)
             \/ pthread_mutex_lock(t) \/ NoRoom(t) \/ NoNode(t)
      PROVE  UNCHANGED <<slab_list, sa>>
  BY <1>6, Zenon DEF iapp_netbuf_alloc, pthread_mutex_lock, NoRoom, NoNode, shmVars
<1>7. CASE UNCHANGED vars
  BY <1>1, <1>7, Zenon DEF vars, shmVars
<1> QED
  BY <1>1, <1>2, <1>3, <1>4, <1>5, <1>6, <1>7, CarveCovered, Zenon DEF Next, Locked

\* No byte that was ever carved off a slab is lost: it belongs to exactly one
\* allocation, which is in use, on its way back or on a free list (Accounted).
\* So the memory the allocator has taken is what its buffers have.
THEOREM NoByteLost == Spec => []Tiled
<1>1. Init => Covered
  <2> SUFFICES ASSUME Init PROVE Covered
    OBVIOUS
  <2>1. \A s \in DOMAIN slab_list : slab_list[s].curofs = 0
    BY DEF Init, EmptySlab
  <2> QED BY <2>1 DEF Covered
<1>2. Inv /\ Covered => Tiled
  <2> SUFFICES ASSUME Inv, Covered, NEW s \in DOMAIN slab_list,
                      NEW x \in 0 .. slab_list[s].curofs - 1
               PROVE  \E a \in DOMAIN sa : \A b \in DOMAIN sa : Covers(b, s, x) <=> b = a
    BY Zenon DEF Tiled
  <2>1. PICK a \in DOMAIN sa : Covers(a, s, x)
    BY Zenon DEF Covered
  <2>2. \A b \in DOMAIN sa : sa[b].offset \in Nat /\ sa[b].len \in Nat
    <3> TAKE b \in DOMAIN sa
    <3>1. sa[b] \in Allocation
      BY ElementOfSeq, LenProperties, Zenon DEF Inv, Types
    <3> QED BY <3>1, ShmAssumption, Zenon DEF Allocation
  <2>3. ASSUME NEW b \in DOMAIN sa, b # a PROVE ~Covers(b, s, x)
    <3>1. Apart(sa[a], sa[b])
      BY <2>3, Zenon DEF Inv, Carved
    <3>2. x \in Int
      OBVIOUS
    <3> QED BY <2>1, <2>2, <3>1, <3>2 DEF Apart, Covers
  <2> QED BY <2>1, <2>3, Zenon
<1> QED BY <1>1, <1>2, CoveredNext, ShmInvariant, InvInit, PTL DEF Spec
=============================================================================
