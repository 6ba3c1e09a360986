----------------------------- MODULE ListLemmas -----------------------------
(* What the list operations of sys/queue.h do to a list held as a sequence. *)
EXTENDS TailQ, SequenceTheorems, TLAPS

\* Taking the i-th entry out of a list moves the entries behind it up by one.
LEMMA RemoveAtProps ==
  ASSUME NEW S, NEW q \in Seq(S), NEW i \in DOMAIN q
  PROVE  /\ RemoveAt(q, i) \in Seq(S)
         /\ Len(RemoveAt(q, i)) = Len(q) - 1
         /\ \A j \in 1..(Len(q) - 1) :
               RemoveAt(q, i)[j] = IF j < i THEN q[j] ELSE q[j + 1]
<1> DEFINE a == SubSeq(q, 1, i - 1)
           b == SubSeq(q, i + 1, Len(q))
<1>1. i \in 1..Len(q) /\ Len(q) \in Nat /\ \A j \in 1..Len(q) : q[j] \in S
  BY LenProperties, ElementOfSeq
<1>2. /\ a \in Seq(S) /\ Len(a) = i - 1
      /\ \A j \in 1..(i - 1) : a[j] = q[j]
  BY <1>1, SubSeqProperties
<1>3. /\ b \in Seq(S) /\ Len(b) = Len(q) - i
      /\ \A j \in 1..(Len(q) - i) : b[j] = q[i + j]
  <2>1. \A j \in (i + 1)..Len(q) : q[j] \in S
    BY <1>1
  <2> HIDE DEF a
  <2>2. /\ b \in Seq(S)
        /\ Len(b) = IF i + 1 <= Len(q) THEN Len(q) - (i + 1) + 1 ELSE 0
        /\ \A j \in 1..(Len(q) - (i + 1) + 1) : b[j] = q[(i + 1) + j - 1]
    BY <1>1, <2>1, SubSeqProperties
  <2> HIDE DEF b
  <2> QED BY <1>1, <2>2
<1> HIDE DEF a, b
<1>4. /\ a \o b \in Seq(S)
      /\ Len(a \o b) = Len(a) + Len(b)
      /\ \A j \in 1..(Len(a) + Len(b)) :
            (a \o b)[j] = IF j <= Len(a) THEN a[j] ELSE b[j - Len(a)]
  BY <1>2, <1>3, ConcatProperties
<1>5. RemoveAt(q, i) = a \o b
  BY DEF RemoveAt, a, b
<1>6. Len(a) + Len(b) = Len(q) - 1
  BY <1>1, <1>2, <1>3
<1>7. ASSUME NEW j \in 1..(Len(q) - 1)
      PROVE (a \o b)[j] = IF j < i THEN q[j] ELSE q[j + 1]
  <2>1. CASE j < i
    BY <1>1, <1>2, <1>4, <1>6, <2>1
  <2>2. CASE ~(j < i)
    <3>1. (a \o b)[j] = b[j - (i - 1)]
      BY <1>1, <1>2, <1>4, <1>6, <2>2, SMTT(30)
    <3>2. j - (i - 1) \in 1..(Len(q) - i) /\ i + (j - (i - 1)) = j + 1
      BY <1>1, <2>2
    <3> QED BY <1>3, <2>2, <3>1, <3>2
  <2> QED BY <2>1, <2>2
<1> QED BY <1>4, <1>5, <1>6, <1>7

\* No other entry is lost, none is new and none is doubled.
LEMMA RemoveAtElements ==
  ASSUME NEW S, NEW q \in Seq(S), NEW i \in DOMAIN q, NEW r, r = RemoveAt(q, i)
  PROVE  /\ \A j \in DOMAIN r : \E k \in DOMAIN q \ {i} : r[j] = q[k]
         /\ \A k \in DOMAIN q \ {i} : \E j \in DOMAIN r : r[j] = q[k]
         /\ (\A j, k \in DOMAIN q : q[j] = q[k] => j = k)
               => \A j, k \in DOMAIN r : r[j] = r[k] => j = k
<1>1. /\ r \in Seq(S) /\ Len(r) = Len(q) - 1
      /\ \A j \in 1..(Len(q) - 1) : r[j] = IF j < i THEN q[j] ELSE q[j + 1]
  BY RemoveAtProps
<1>2. /\ DOMAIN q = 1..Len(q) /\ Len(q) \in Nat /\ i \in 1..Len(q)
      /\ DOMAIN r = 1..(Len(q) - 1)
  BY <1>1, LenProperties
<1>3. ASSUME NEW j \in DOMAIN r PROVE \E k \in DOMAIN q \ {i} : r[j] = q[k]
  <2>1. CASE j < i
    BY <1>1, <1>2, <2>1
  <2>2. CASE ~(j < i)
    <3>1. j + 1 \in DOMAIN q \ {i} /\ r[j] = q[j + 1]
      BY <1>1, <1>2, <2>2
    <3> QED BY <3>1
  <2> QED BY <2>1, <2>2
<1>4. ASSUME NEW k \in DOMAIN q \ {i} PROVE \E j \in DOMAIN r : r[j] = q[k]
  <2>1. CASE k < i
    BY <1>1, <1>2, <2>1
  <2>2. CASE ~(k < i)
    <3>1. k - 1 \in DOMAIN r /\ ~(k - 1 < i) /\ (k - 1) + 1 = k
      BY <1>2, <2>2
    <3>2. r[k - 1] = q[k]
      BY <1>1, <1>2, <3>1
    <3> QED BY <3>1, <3>2
  <2> QED BY <2>1, <2>2
<1>5. ASSUME \A j, k \in DOMAIN q : q[j] = q[k] => j = k,
             NEW j \in DOMAIN r, NEW k \in DOMAIN r, r[j] = r[k]
      PROVE  j = k
  <2>1. r[j] = (IF j < i THEN q[j] ELSE q[j + 1]) /\ r[k] = IF k < i THEN q[k] ELSE q[k + 1]
    BY <1>1, <1>2
  <2>2. j \in DOMAIN q /\ j + 1 \in DOMAIN q /\ k \in DOMAIN q /\ k + 1 \in DOMAIN q
    BY <1>2
  <2>3. CASE j < i /\ k < i
    BY <1>5, <2>1, <2>2, <2>3
  <2>4. CASE j < i /\ ~(k < i)
    <3>1. j = k + 1
      BY <1>5, <2>1, <2>2, <2>4
    <3> QED BY <1>2, <2>4, <3>1
  <2>5. CASE ~(j < i) /\ k < i
    <3>1. j + 1 = k
      BY <1>5, <2>1, <2>2, <2>5
    <3> QED BY <1>2, <2>5, <3>1
  <2>6. CASE ~(j < i) /\ ~(k < i)
    <3>1. j + 1 = k + 1
      BY <1>5, <2>1, <2>2, <2>6
    <3> QED BY <1>2, <3>1
  <2> QED BY <2>3, <2>4, <2>5, <2>6
<1> QED BY <1>3, <1>4, <1>5

\* TAILQ_INSERT_HEAD puts the new entry before the others, which keep their order.
LEMMA InsertHeadProps ==
  ASSUME NEW S, NEW q \in Seq(S), NEW e \in S, NEW r, r = <<e>> \o q
  PROVE  /\ r \in Seq(S) /\ Len(r) = Len(q) + 1
         /\ 1 \in DOMAIN r /\ r[1] = e
         /\ \A j \in DOMAIN q : j + 1 \in DOMAIN r /\ r[j + 1] = q[j]
         /\ \A j \in DOMAIN r : j = 1 \/ (j - 1 \in DOMAIN q /\ r[j] = q[j - 1])
<1>1. <<e>> \in Seq(S) /\ Len(<<e>>) = 1 /\ <<e>>[1] = e
  OBVIOUS
<1>2. /\ r \in Seq(S) /\ Len(r) = 1 + Len(q)
      /\ \A j \in 1..(1 + Len(q)) : r[j] = IF j <= 1 THEN <<e>>[j] ELSE q[j - 1]
  BY <1>1, ConcatProperties
<1>3. /\ Len(q) \in Nat /\ DOMAIN q = 1..Len(q) /\ DOMAIN r = 1..(1 + Len(q))
  BY <1>2, LenProperties
<1>4. 1 \in DOMAIN r /\ r[1] = e
  BY <1>1, <1>2, <1>3
<1>5. ASSUME NEW j \in DOMAIN q PROVE j + 1 \in DOMAIN r /\ r[j + 1] = q[j]
  <2>1. j + 1 \in 1..(1 + Len(q)) /\ ~(j + 1 <= 1) /\ (j + 1) - 1 = j
    BY <1>3
  <2> QED BY <1>2, <1>3, <2>1
<1>6. ASSUME NEW j \in DOMAIN r PROVE j = 1 \/ (j - 1 \in DOMAIN q /\ r[j] = q[j - 1])
  <2>1. CASE j = 1
    BY <2>1
  <2>2. CASE j # 1
    <3>1. j \in 1..(1 + Len(q)) /\ ~(j <= 1) /\ j - 1 \in DOMAIN q
      BY <1>3, <2>2
    <3> QED BY <1>2, <3>1
  <2> QED BY <2>1, <2>2
<1> QED BY <1>2, <1>3, <1>4, <1>5, <1>6
=============================================================================
