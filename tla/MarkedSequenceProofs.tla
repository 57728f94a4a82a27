-------------------------- MODULE MarkedSequenceProofs --------------------------
(***************************************************************************)
(* Lemmas about the sequences that p2's queues are: what enqueue() and     *)
(* dequeue_at() do to the items, to the marker and to the sum of lengths,  *)
(* for any pids.                                                           *)
(***************************************************************************)
EXTENDS MarkedSequence, SequenceTheorems, WellFoundedInduction, TLAPS

-------------------------------------------------------------------------------
(* The marker *)

MarkerLast(q) == \A k \in DOMAIN q : q[k] = Marker => k = Len(q)

LEMMA MarkerIsNoPid == Marker \notin Pid /\ Marker \in Item /\ Pid \subseteq Item
BY PidAssumption DEF Marker, Item

LEMMA Slice ==
  ASSUME NEW S, NEW q \in Seq(S), NEW a \in 1 .. Len(q)+1, NEW z \in a-1 .. Len(q)
  PROVE  /\ SubSeq(q, a, z) \in Seq(S)
         /\ Len(SubSeq(q, a, z)) = (z-a)+1
         /\ \A k \in 1 .. (z-a)+1 : SubSeq(q, a, z)[k] = q[(a+k)-1]
<1>1. Len(q) \in Nat
  BY LenProperties
<1>2. a \in Int /\ z \in Int /\ \A k \in a .. z : q[k] \in S
  BY <1>1, ElementOfSeq
<1>3. /\ SubSeq(q, a, z) \in Seq(S)
      /\ Len(SubSeq(q, a, z)) = IF a <= z THEN z-a+1 ELSE 0
      /\ \A k \in 1 .. z-a+1 : SubSeq(q, a, z)[k] = q[a+k-1]
  BY <1>2, SubSeqProperties
<1> QED
  BY <1>1, <1>3

LEMMA EnqueuedOpen ==
  ASSUME NEW S, NEW q \in Seq(S), NEW b \in S, ~Closed(q)
  PROVE  /\ Enqueued(q, b) \in Seq(S)
         /\ Len(Enqueued(q, b)) = Len(q) + 1
         /\ \A k \in 1 .. Len(q) : Enqueued(q, b)[k] = q[k]
         /\ Enqueued(q, b)[Len(q) + 1] = b
<1>1. Enqueued(q, b) = Append(q, b)
  BY DEF Enqueued
<1> QED
  BY <1>1, AppendProperties

LEMMA EnqueuedClosed ==
  ASSUME NEW q \in Seq(Item), NEW b \in Pid, Closed(q)
  PROVE  /\ Enqueued(q, b) \in Seq(Item)
         /\ Len(Enqueued(q, b)) = Len(q) + 1
         /\ \A k \in 1 .. Len(q)-1 : Enqueued(q, b)[k] = q[k]
         /\ Enqueued(q, b)[Len(q)] = b
         /\ Enqueued(q, b)[Len(q) + 1] = Marker
<1>1. PICK n \in Nat \ {0} : n = Len(q)
  BY EmptySeq DEF Closed
<1>f. PICK front : front = SubSeq(q, 1, n-1)
  OBVIOUS
<1>2. front \in Seq(Item) /\ Len(front) = n-1 /\ \A k \in 1 .. n-1 : front[k] = q[k]
  <2>1. 1 \in 1 .. Len(q)+1 /\ n-1 \in 1-1 .. Len(q)
    BY <1>1
  <2>2. /\ front \in Seq(Item)
        /\ Len(front) = ((n-1)-1)+1
        /\ \A k \in 1 .. ((n-1)-1)+1 : front[k] = q[(1+k)-1]
    BY <1>f, <2>1, Slice, ZenonT(60)
  <2> QED
    BY <2>2, <1>1
<1>l. PICK last : last = <<b, Marker>>
  OBVIOUS
<1>3. last \in Seq(Item) /\ Len(last) = 2 /\ last[1] = b /\ last[2] = Marker
  BY <1>l, MarkerIsNoPid
<1>4. Enqueued(q, b) = front \o last
  BY <1>1, <1>f, <1>l DEF Enqueued
<1>5. /\ front \o last \in Seq(Item)
      /\ Len(front \o last) = Len(front) + Len(last)
      /\ \A k \in 1 .. Len(front) + Len(last) :
           (front \o last)[k] = IF k <= Len(front) THEN front[k] ELSE last[k - Len(front)]
  BY <1>2, <1>3, ConcatProperties
<1>w. PICK w : w = front \o last
  OBVIOUS
<1>6. /\ w \in Seq(Item)
      /\ Len(w) = n+1
      /\ \A k \in 1 .. n+1 : w[k] = IF k <= n-1 THEN q[k] ELSE last[k - (n-1)]
  BY <1>1, <1>2, <1>3, <1>5, <1>w
<1>7. /\ \A k \in 1 .. n-1 : w[k] = q[k]
      /\ w[n] = b /\ w[n+1] = Marker
  <2>1. w[n] = last[n - (n-1)] /\ w[n+1] = last[(n+1) - (n-1)]
    BY <1>1, <1>6
  <2>2. n - (n-1) = 1 /\ (n+1) - (n-1) = 2
    BY <1>1
  <2>3. \A k \in 1 .. n-1 : w[k] = q[k]
    BY <1>1, <1>6
  <2> QED
    BY <2>1, <2>2, <2>3, <1>3
<1> QED
  BY <1>1, <1>4, <1>6, <1>7, <1>w

LEMMA EnqueuedKeeps ==
  ASSUME NEW q \in Seq(Item), NEW b \in Pid, MarkerLast(q)
  PROVE  /\ Enqueued(q, b) \in Seq(Item)
         /\ MarkerLast(Enqueued(q, b))
         /\ Closed(Enqueued(q, b)) <=> Closed(q)
<1>1. Len(q) \in Nat /\ DOMAIN q = 1 .. Len(q)
  BY LenProperties
<1>2. Marker # b
  BY MarkerIsNoPid
<1>3. CASE Closed(q)
  <2>1. /\ Enqueued(q, b) \in Seq(Item)
        /\ Len(Enqueued(q, b)) = Len(q) + 1
        /\ \A k \in 1 .. Len(q)-1 : Enqueued(q, b)[k] = q[k]
        /\ Enqueued(q, b)[Len(q)] = b
        /\ Enqueued(q, b)[Len(q) + 1] = Marker
    BY <1>3, EnqueuedClosed
  <2>2. DOMAIN Enqueued(q, b) = 1 .. Len(q)+1 /\ Enqueued(q, b) # <<>>
    BY <2>1, <1>1, LenProperties, EmptySeq
  <2>3. MarkerLast(Enqueued(q, b))
    BY <1>1, <1>2, <2>1, <2>2 DEF MarkerLast
  <2> QED
    BY <1>3, <2>1, <2>2, <2>3 DEF Closed
<1>4. CASE ~Closed(q)
  <2>1. /\ Enqueued(q, b) \in Seq(Item)
        /\ Len(Enqueued(q, b)) = Len(q) + 1
        /\ \A k \in 1 .. Len(q) : Enqueued(q, b)[k] = q[k]
        /\ Enqueued(q, b)[Len(q) + 1] = b
    BY <1>4, EnqueuedOpen, MarkerIsNoPid
  <2>2. DOMAIN Enqueued(q, b) = 1 .. Len(q)+1
    BY <2>1, <1>1, LenProperties
  <2>3. \A k \in 1 .. Len(q) : q[k] # Marker
    BY <1>1, <1>4, EmptySeq DEF Closed, MarkerLast
  <2>4. MarkerLast(Enqueued(q, b))
    BY <1>1, <1>2, <2>1, <2>2, <2>3 DEF MarkerLast
  <2> QED
    BY <1>2, <1>4, <2>1, <2>4 DEF Closed
<1> QED
  BY <1>3, <1>4

LEMMA MarkerCloses ==
  ASSUME NEW q \in Seq(Item), MarkerLast(q), ~Closed(q)
  PROVE  /\ Enqueued(q, Marker) \in Seq(Item)
         /\ MarkerLast(Enqueued(q, Marker))
         /\ Closed(Enqueued(q, Marker))
<1>1. Len(q) \in Nat /\ DOMAIN q = 1 .. Len(q)
  BY LenProperties
<1>2. /\ Enqueued(q, Marker) \in Seq(Item)
      /\ Len(Enqueued(q, Marker)) = Len(q) + 1
      /\ \A k \in 1 .. Len(q) : Enqueued(q, Marker)[k] = q[k]
      /\ Enqueued(q, Marker)[Len(q) + 1] = Marker
  BY EnqueuedOpen, MarkerIsNoPid
<1>3. DOMAIN Enqueued(q, Marker) = 1 .. Len(q)+1 /\ Enqueued(q, Marker) # <<>>
  BY <1>1, <1>2, LenProperties, EmptySeq
<1>4. \A k \in 1 .. Len(q) : q[k] # Marker
  BY <1>1, EmptySeq DEF Closed, MarkerLast
<1> QED
  BY <1>1, <1>2, <1>3, <1>4 DEF Closed, MarkerLast

LEMMA WithoutIndex ==
  ASSUME NEW q \in Seq(Item), NEW j \in DOMAIN q
  PROVE  /\ Without(q, j) \in Seq(Item)
         /\ Len(Without(q, j)) = Len(q) - 1
         /\ \A k \in 1 .. j-1 : Without(q, j)[k] = q[k]
         /\ \A k \in j .. Len(q)-1 : Without(q, j)[k] = q[k+1]
<1>1. PICK n \in Nat \ {0} : n = Len(q) /\ DOMAIN q = 1 .. n /\ j \in 1 .. n
  BY LenProperties
<1>h. PICK head : head = SubSeq(q, 1, j-1)
  OBVIOUS
<1>2. head \in Seq(Item) /\ Len(head) = j-1 /\ \A k \in 1 .. j-1 : head[k] = q[k]
  <2>1. 1 \in 1 .. Len(q)+1 /\ j-1 \in 1-1 .. Len(q)
    BY <1>1
  <2>2. /\ head \in Seq(Item)
        /\ Len(head) = ((j-1)-1)+1
        /\ \A k \in 1 .. ((j-1)-1)+1 : head[k] = q[(1+k)-1]
    BY <1>h, <2>1, Slice, ZenonT(60)
  <2> QED
    BY <2>2, <1>1
<1>r. PICK rest : rest = SubSeq(q, j+1, n)
  OBVIOUS
<1>3. rest \in Seq(Item) /\ Len(rest) = n-j /\ \A k \in 1 .. n-j : rest[k] = q[j+k]
  <2>1. j+1 \in 1 .. Len(q)+1 /\ n \in (j+1)-1 .. Len(q)
    BY <1>1
  <2>2. /\ rest \in Seq(Item)
        /\ Len(rest) = (n-(j+1))+1
        /\ \A k \in 1 .. (n-(j+1))+1 : rest[k] = q[((j+1)+k)-1]
    BY <1>r, <2>1, Slice, ZenonT(60)
  <2>3. (n-(j+1))+1 = n-j /\ \A k \in 1 .. n-j : ((j+1)+k)-1 = j+k
    BY <1>1
  <2> QED
    BY <2>2, <2>3
<1>4. Without(q, j) = head \o rest
  BY <1>1, <1>h, <1>r DEF Without
<1>5. /\ head \o rest \in Seq(Item)
      /\ Len(head \o rest) = Len(head) + Len(rest)
      /\ \A k \in 1 .. Len(head) + Len(rest) :
           (head \o rest)[k] = IF k <= Len(head) THEN head[k] ELSE rest[k - Len(head)]
  BY <1>2, <1>3, ConcatProperties
<1>w. PICK w : w = head \o rest
  OBVIOUS
<1>6. /\ w \in Seq(Item)
      /\ Len(w) = n-1
      /\ \A k \in 1 .. j-1 : w[k] = q[k]
      /\ \A k \in j .. n-1 : w[k] = q[k+1]
  <2>1. w \in Seq(Item) /\ Len(w) = n-1
    BY <1>1, <1>2, <1>3, <1>5, <1>w
  <2>2. \A k \in 1 .. n-1 : w[k] = IF k <= j-1 THEN head[k] ELSE rest[k - (j-1)]
    BY <1>1, <1>2, <1>3, <1>5, <1>w, SMTT(40)
  <2>3. ASSUME NEW k \in 1 .. j-1 PROVE w[k] = q[k]
    <3>1. k \in 1 .. n-1 /\ k <= j-1
      BY <1>1
    <3> QED
      BY <3>1, <2>2, <1>2
  <2>4. ASSUME NEW k \in j .. n-1 PROVE w[k] = q[k+1]
    <3>1. /\ k \in 1 .. n-1 /\ ~(k <= j-1) /\ k - (j-1) \in 1 .. n-j
          /\ j + (k - (j-1)) = k+1
      BY <1>1
    <3>2. w[k] = rest[k - (j-1)]
      BY <3>1, <2>2
    <3>3. rest[k - (j-1)] = q[j + (k - (j-1))]
      BY <3>1, <1>3
    <3> QED
      BY <3>1, <3>2, <3>3
  <2> QED
    BY <2>1, <2>3, <2>4
<1> QED
  BY <1>1, <1>4, <1>6, <1>w

\* An item taken out of a queue leaves the marker last, and a burst leaves it there.
LEMMA WithoutKeeps ==
  ASSUME NEW q \in Seq(Item), NEW j \in DOMAIN q, MarkerLast(q)
  PROVE  /\ Without(q, j) \in Seq(Item)
         /\ MarkerLast(Without(q, j))
         /\ q[j] # Marker => (Closed(Without(q, j)) <=> Closed(q))
<1>1. PICK n \in Nat \ {0} : n = Len(q) /\ DOMAIN q = 1 .. n /\ j \in 1 .. n
  BY LenProperties
<1>w. PICK w : w = Without(q, j)
  OBVIOUS
<1>6. /\ w \in Seq(Item)
      /\ Len(w) = n-1
      /\ \A k \in 1 .. j-1 : w[k] = q[k]
      /\ \A k \in j .. n-1 : w[k] = q[k+1]
  BY <1>1, <1>w, WithoutIndex
<1>7. DOMAIN w = 1 .. n-1 /\ (w = <<>> <=> n = 1) /\ q # <<>>
  <2>1. DOMAIN w = 1 .. n-1
    BY <1>6, LenProperties
  <2>2. w # <<>> => n-1 # 0
    BY <1>6, EmptySeq
  <2>3. w = <<>> => n-1 = 0
    BY <1>6
  <2>4. q # <<>>
    BY <1>1
  <2> QED
    BY <2>1, <2>2, <2>3, <2>4
<1>8. \A k \in 1 .. n : q[k] = Marker => k = n
  BY <1>1 DEF MarkerLast
<1>9. MarkerLast(w)
  <2> SUFFICES ASSUME NEW k \in 1 .. n-1, w[k] = Marker PROVE k = n-1
    BY <1>6, <1>7 DEF MarkerLast
  <2>1. CASE k < j
    <3>1. k \in 1 .. j-1 /\ k \in 1 .. n /\ k # n
      BY <1>1, <2>1
    <3> QED
      BY <3>1, <1>6, <1>8
  <2>2. CASE ~(k < j)
    <3>1. k \in j .. n-1 /\ k+1 \in 1 .. n
      BY <1>1, <2>2
    <3> QED
      BY <3>1, <1>6, <1>8
  <2> QED
    BY <2>1, <2>2
<1>10. ASSUME q[j] # Marker PROVE Closed(w) <=> Closed(q)
  <2>1. /\ Closed(q) <=> q[n] = Marker
        /\ Closed(w) <=> n # 1 /\ w[n-1] = Marker
    BY <1>1, <1>6, <1>7 DEF Closed
  <2>2. CASE n = 1
    BY <2>1, <2>2, <1>1, <1>10
  <2>3. CASE n # 1 /\ j = n
    BY <2>1, <2>3, <1>1, <1>6, <1>8, <1>10
  <2>4. CASE n # 1 /\ j # n
    <3>1. n-1 \in j .. n-1 /\ (n-1)+1 = n
      BY <2>4, <1>1
    <3>2. w[n-1] = q[n]
      BY <3>1, <1>6
    <3> QED
      BY <2>1, <2>4, <3>2
  <2> QED
    BY <2>2, <2>3, <2>4
<1> QED
  BY <1>6, <1>9, <1>10, <1>w

-------------------------------------------------------------------------------
(* Counting *)

\* Every non-empty set of naturals has a least element.
LEMMA Least ==
  ASSUME NEW S \in SUBSET Nat, S # {}
  PROVE  \E least \in S : \A n \in S : least <= n
<1>1. PICK least \in S : \A n \in S : ~ (<<n, least>> \in OpToRel(<, Nat))
  BY NatLessThanWellFounded, WFMin
<1>2. \A n \in S : <<n, least>> \in OpToRel(<, Nat) <=> n < least
  BY DEF OpToRel
<1>3. \A n \in S : least \in Nat /\ n \in Nat /\ ~(n < least)
  BY <1>1, <1>2
<1>4. \A n \in S : least <= n
  BY <1>3
<1> QED
  BY <1>4

\* Induction on 0 .. n for membership in a set.
LEMMA CountUp ==
  ASSUME NEW n \in Nat, NEW S, 0 \in S,
         \A k \in 0 .. n : k < n /\ k \in S => k+1 \in S
  PROVE  \A k \in 0 .. n : k \in S
<1> DEFINE Out == {k \in 0 .. n : k \notin S}
<1>1. SUFFICES ASSUME Out # {} PROVE FALSE
  OBVIOUS
<1>2. Out \in SUBSET Nat
  OBVIOUS
<1>3. PICK m \in Out : \A k \in Out : m <= k
  BY <1>1, <1>2, Least
<1>4. m \in 1 .. n /\ m-1 \in 0 .. n
  BY <1>3
<1>5. m-1 \in S
  BY <1>3, <1>4
<1> QED
  BY <1>3, <1>4, <1>5

-------------------------------------------------------------------------------
(* What is in the queue *)

LEMMA EnqueuedItems ==
  ASSUME NEW q \in Seq(Item), NEW b \in Item, Closed(q) => b \in Pid
  PROVE  Items(Enqueued(q, b)) = Items(q) \cup {b}
<1>1. Len(q) \in Nat /\ DOMAIN q = 1 .. Len(q)
  BY LenProperties
<1>2. CASE Closed(q)
  <2>1. /\ Enqueued(q, b) \in Seq(Item)
        /\ Len(Enqueued(q, b)) = Len(q) + 1
        /\ \A k \in 1 .. Len(q)-1 : Enqueued(q, b)[k] = q[k]
        /\ Enqueued(q, b)[Len(q)] = b
        /\ Enqueued(q, b)[Len(q) + 1] = Marker
    BY <1>2, EnqueuedClosed
  <2>2. DOMAIN Enqueued(q, b) = 1 .. Len(q)+1 /\ Len(q) \in 1 .. Len(q) /\ q[Len(q)] = Marker
    BY <1>1, <1>2, <2>1, LenProperties, EmptySeq DEF Closed
  <2> PICK w : w = Enqueued(q, b)
    OBVIOUS
  <2> PICK n \in Nat : n = Len(q)
    BY <1>1
  <2>3. \A k \in 1 .. n+1 : k \in 1 .. n-1 \/ k = n \/ k = n+1
    OBVIOUS
  <2>4. Items(w) \subseteq Items(q) \cup {b}
    BY <1>1, <2>1, <2>2, <2>3 DEF Items
  <2>5. Items(q) \subseteq Items(w)
    <3>1. \A k \in 1 .. n : q[k] = w[IF k = n THEN n+1 ELSE k]
      BY <2>1, <2>2
    <3> QED
      BY <1>1, <2>2, <3>1 DEF Items
  <2>6. b \in Items(w)
    BY <2>1, <2>2 DEF Items
  <2> QED
    BY <2>4, <2>5, <2>6
<1>3. CASE ~Closed(q)
  <2>1. /\ Enqueued(q, b) \in Seq(Item)
        /\ Len(Enqueued(q, b)) = Len(q) + 1
        /\ \A k \in 1 .. Len(q) : Enqueued(q, b)[k] = q[k]
        /\ Enqueued(q, b)[Len(q) + 1] = b
    BY <1>3, EnqueuedOpen
  <2>2. DOMAIN Enqueued(q, b) = 1 .. Len(q)+1
    BY <1>1, <2>1, LenProperties
  <2> PICK w : w = Enqueued(q, b)
    OBVIOUS
  <2> PICK n \in Nat : n = Len(q)
    BY <1>1
  <2>3. \A k : k \in 1 .. n+1 <=> k \in 1 .. n \/ k = n+1
    OBVIOUS
  <2> QED
    BY <1>1, <2>1, <2>2, <2>3 DEF Items
<1> QED
  BY <1>2, <1>3

LEMMA WithoutItems ==
  ASSUME NEW q \in Seq(Item), NEW j \in DOMAIN q
  PROVE  /\ Items(Without(q, j)) \subseteq Items(q)
         /\ Items(q) \subseteq Items(Without(q, j)) \cup {q[j]}
<1>1. PICK n \in Nat \ {0} : n = Len(q) /\ DOMAIN q = 1 .. n /\ j \in 1 .. n
  BY LenProperties
<1>2. PICK w : w = Without(q, j)
  OBVIOUS
<1>3. /\ w \in Seq(Item)
      /\ Len(w) = n-1
      /\ \A k \in 1 .. j-1 : w[k] = q[k]
      /\ \A k \in j .. n-1 : w[k] = q[k+1]
  BY <1>1, <1>2, WithoutIndex
<1>4. DOMAIN w = 1 .. n-1
  BY <1>3, LenProperties
<1>5. ASSUME NEW k \in 1 .. n-1 PROVE w[k] \in Items(q)
  <2>1. \/ k \in 1 .. j-1 /\ k \in 1 .. n
        \/ k \in j .. n-1 /\ k+1 \in 1 .. n
    BY <1>1
  <2> QED
    BY <1>1, <1>3, <2>1 DEF Items
<1>6. ASSUME NEW k \in 1 .. n, k # j PROVE q[k] \in Items(w)
  <2>1. CASE k < j
    <3>1. k \in 1 .. j-1 /\ k \in 1 .. n-1
      BY <1>1, <2>1
    <3> QED
      BY <1>3, <1>4, <3>1 DEF Items
  <2>2. CASE ~(k < j)
    <3>1. k-1 \in j .. n-1 /\ k-1 \in 1 .. n-1 /\ (k-1)+1 = k
      BY <1>1, <1>6, <2>2
    <3>2. w[k-1] = q[k]
      BY <1>3, <3>1
    <3> QED
      BY <1>4, <3>1, <3>2 DEF Items
  <2> QED
    BY <2>1, <2>2
<1>7. Items(w) \subseteq Items(q)
  BY <1>4, <1>5 DEF Items
<1>8. Items(q) \subseteq Items(w) \cup {q[j]}
  BY <1>1, <1>6 DEF Items
<1> QED
  BY <1>2, <1>7, <1>8

\* No item is in the queue twice.
OnceIn(q) == \A k, l \in DOMAIN q : q[k] = q[l] => k = l

LEMMA EnqueuedOnce ==
  ASSUME NEW q \in Seq(Item), NEW b \in Item, Closed(q) => b \in Pid,
         OnceIn(q), b \notin Items(q)
  PROVE  OnceIn(Enqueued(q, b))
<1>1. PICK n \in Nat : n = Len(q) /\ DOMAIN q = 1 .. n
  BY LenProperties
<1>w. PICK w : w = Enqueued(q, b)
  OBVIOUS
<1>2. \A k \in 1 .. n : q[k] # b
  BY <1>1 DEF Items
<1>3. \A k, l \in 1 .. n : q[k] = q[l] => k = l
  BY <1>1 DEF OnceIn
<1>4. CASE Closed(q)
  <2>1. n # 0 /\ q[n] = Marker
    BY <1>1, <1>4, EmptySeq DEF Closed
  <2>2. /\ w \in Seq(Item) /\ Len(w) = n+1
        /\ \A k \in 1 .. n-1 : w[k] = q[k]
        /\ w[n] = b /\ w[n+1] = Marker
    BY <1>1, <1>4, <1>w, EnqueuedClosed
  <2>3. DOMAIN w = 1 .. n+1
    BY <2>2, LenProperties
  <2>4. \A k \in 1 .. n-1 : w[k] # b /\ w[k] # Marker
    BY <1>1, <1>2, <1>3, <2>1, <2>2
  <2>5. b # Marker
    BY <1>4, MarkerIsNoPid
  <2>6. \A k, l \in 1 .. n+1 : w[k] = w[l] => k = l
    BY <1>1, <1>3, <2>1, <2>2, <2>4, <2>5
  <2> QED
    BY <1>w, <2>3, <2>6 DEF OnceIn
<1>5. CASE ~Closed(q)
  <2>1. /\ w \in Seq(Item) /\ Len(w) = n+1
        /\ \A k \in 1 .. n : w[k] = q[k]
        /\ w[n+1] = b
    <3>1. /\ Enqueued(q, b) \in Seq(Item)
          /\ Len(Enqueued(q, b)) = Len(q) + 1
          /\ \A k \in 1 .. Len(q) : Enqueued(q, b)[k] = q[k]
          /\ Enqueued(q, b)[Len(q) + 1] = b
      BY <1>5, EnqueuedOpen
    <3> QED
      BY <1>1, <1>w, <3>1
  <2>2. DOMAIN w = 1 .. n+1
    BY <2>1, LenProperties
  <2>3. \A k, l \in 1 .. n+1 : w[k] = w[l] => k = l
    BY <1>1, <1>2, <1>3, <2>1
  <2> QED
    BY <1>w, <2>2, <2>3 DEF OnceIn
<1> QED
  BY <1>4, <1>5

LEMMA WithoutOnce ==
  ASSUME NEW q \in Seq(Item), NEW j \in DOMAIN q, OnceIn(q)
  PROVE  /\ OnceIn(Without(q, j))
         /\ Items(Without(q, j)) = Items(q) \ {q[j]}
<1>1. PICK n \in Nat \ {0} : n = Len(q) /\ DOMAIN q = 1 .. n /\ j \in 1 .. n
  BY LenProperties
<1>w. PICK w : w = Without(q, j)
  OBVIOUS
<1>2. /\ w \in Seq(Item)
      /\ Len(w) = n-1
      /\ \A k \in 1 .. j-1 : w[k] = q[k]
      /\ \A k \in j .. n-1 : w[k] = q[k+1]
  BY <1>1, <1>w, WithoutIndex
<1>3. DOMAIN w = 1 .. n-1
  BY <1>2, LenProperties
<1>4. \A k, l \in 1 .. n : q[k] = q[l] => k = l
  BY <1>1 DEF OnceIn
<1>5. \A k \in 1 .. n-1 : w[k] = q[IF k < j THEN k ELSE k+1]
  BY <1>1, <1>2
<1>6. \A k \in 1 .. n-1 : /\ (IF k < j THEN k ELSE k+1) \in 1 .. n
                          /\ (IF k < j THEN k ELSE k+1) # j
  BY <1>1
<1>7. \A k, l \in 1 .. n-1 :
        (IF k < j THEN k ELSE k+1) = (IF l < j THEN l ELSE l+1) => k = l
  BY <1>1
<1>8. \A k, l \in 1 .. n-1 : w[k] = w[l] => k = l
  <2> SUFFICES ASSUME NEW k \in 1 .. n-1, NEW l \in 1 .. n-1, w[k] = w[l] PROVE k = l
    OBVIOUS
  <2>1. q[IF k < j THEN k ELSE k+1] = q[IF l < j THEN l ELSE l+1]
    BY <1>5
  <2>2. (IF k < j THEN k ELSE k+1) = (IF l < j THEN l ELSE l+1)
    BY <1>4, <1>6, <2>1
  <2> QED
    BY <1>7, <2>2
<1>9. \A k \in 1 .. n-1 : w[k] # q[j]
  BY <1>1, <1>4, <1>5, <1>6
<1>10. /\ Items(w) \subseteq Items(q)
       /\ Items(q) \subseteq Items(w) \cup {q[j]}
  BY <1>w, WithoutItems
<1>11. q[j] \notin Items(w)
  BY <1>3, <1>9 DEF Items
<1>12. OnceIn(w)
  BY <1>3, <1>8 DEF OnceIn
<1> QED
  BY <1>w, <1>10, <1>11, <1>12

-------------------------------------------------------------------------------
(* What a queueLoad sums *)

Weight(length, b) == IF b = Marker THEN 0 ELSE length[b]

\* s lists the running totals of q's lengths, x is the last of them.
Loads(s, q, length) ==
  /\ s \in [0 .. Len(q) -> Int]
  /\ s[0] = 0
  /\ \A k \in 1 .. Len(q) : s[k] = s[k-1] + Weight(length, q[k])

SumsTo(q, length, x) == \E s : Loads(s, q, length) /\ x = s[Len(q)]

LEMMA WeightType ==
  ASSUME NEW length \in [Pid -> Nat], NEW b \in Item
  PROVE  Weight(length, b) \in Int
BY DEF Weight, Item

LEMMA SumsOnce ==
  ASSUME NEW q \in Seq(Item), NEW length, NEW x, NEW y,
         SumsTo(q, length, x), SumsTo(q, length, y)
  PROVE  x = y
<1>1. PICK s : Loads(s, q, length) /\ x = s[Len(q)]
  BY DEF SumsTo
<1>2. PICK t : Loads(t, q, length) /\ y = t[Len(q)]
  BY DEF SumsTo
<1>n. PICK n \in Nat : n = Len(q)
  BY LenProperties
<1> DEFINE Same == {k \in 0 .. n : s[k] = t[k]}
<1>3. 0 \in Same
  BY <1>1, <1>2 DEF Loads
<1>4. ASSUME NEW k \in 0 .. n, k < n, k \in Same PROVE k+1 \in Same
  <2>1. k+1 \in 1 .. n /\ (k+1)-1 = k /\ k+1 \in 0 .. n
    BY <1>4
  <2> QED
    BY <2>1, <1>1, <1>2, <1>4, <1>n DEF Loads
<1>5. \A k \in 0 .. n : k \in Same
  <2> HIDE DEF Same
  <2> QED
    BY <1>3, <1>4, CountUp
<1> QED
  BY <1>1, <1>2, <1>5, <1>n

\* w is q with item b put in at position j.
Inserted(q, w, j, b) ==
  /\ Len(w) = Len(q) + 1 /\ j \in 1 .. Len(q)+1
  /\ w[j] = b
  /\ \A k \in 1 .. j-1 : w[k] = q[k]
  /\ \A k \in j .. Len(q) : w[k+1] = q[k]

LEMMA SumsInserted ==
  ASSUME NEW length \in [Pid -> Nat], NEW q \in Seq(Item), NEW w \in Seq(Item),
         NEW j, NEW b \in Item, Inserted(q, w, j, b), NEW x, SumsTo(q, length, x)
  PROVE  x \in Int /\ SumsTo(w, length, x + Weight(length, b))
<1>n. PICK n \in Nat : n = Len(q) /\ \A k \in 1 .. n : q[k] \in Item
  BY LenProperties, ElementOfSeq
<1>1. PICK s : Loads(s, q, length) /\ x = s[n]
  BY <1>n DEF SumsTo
<1>v. PICK v \in Int : v = Weight(length, b)
  BY WeightType
<1>2. /\ s \in [0 .. n -> Int] /\ s[0] = 0
      /\ \A k \in 1 .. n : s[k] = s[k-1] + Weight(length, q[k])
  BY <1>1, <1>n DEF Loads
<1>3. /\ Len(w) = n+1 /\ j \in 1 .. n+1 /\ w[j] = b
      /\ \A k \in 1 .. j-1 : w[k] = q[k]
      /\ \A k \in j .. n : w[k+1] = q[k]
  BY <1>n DEF Inserted
<1> DEFINE t == [k \in 0 .. n+1 |-> IF k < j THEN s[k] ELSE s[k-1] + v]
<1>4. t \in [0 .. n+1 -> Int] /\ t[0] = 0 /\ t[n+1] = s[n] + v
  <2>1. ASSUME NEW k \in 0 .. n+1 PROVE t[k] \in Int
    <3>1. CASE k < j
      <4>1. k \in 0 .. n
        BY <3>1, <1>3
      <4> QED
        BY <3>1, <4>1, <1>2
    <3>2. CASE ~(k < j)
      <4>1. k-1 \in 0 .. n
        BY <3>2, <1>3
      <4> QED
        BY <3>2, <4>1, <1>2
    <3> QED
      BY <3>1, <3>2
  <2>2. t[0] = 0
    BY <1>2, <1>3
  <2>3. t[n+1] = s[n] + v
    BY <1>3
  <2> HIDE DEF t
  <2>4. t = [k \in 0 .. n+1 |-> t[k]]
    BY DEF t
  <2> QED
    BY <2>1, <2>2, <2>3, <2>4
<1>5. ASSUME NEW k \in 1 .. n+1 PROVE t[k] = t[k-1] + Weight(length, w[k])
  <2>1. CASE k < j
    <3>1. k \in 1 .. n /\ k \in 1 .. j-1 /\ k-1 < j /\ k-1 \in 0 .. n+1 /\ k \in 0 .. n+1
      BY <2>1, <1>3
    <3>2. t[k] = s[k] /\ t[k-1] = s[k-1]
      BY <2>1, <3>1
    <3> HIDE DEF t
    <3> QED
      BY <3>1, <3>2, <1>2, <1>3
  <2>2. CASE k = j
    <3>1. k-1 < j /\ ~(k < j) /\ k-1 \in 0 .. n+1 /\ k \in 0 .. n+1
      BY <2>2, <1>3
    <3>2. t[k] = s[k-1] + v /\ t[k-1] = s[k-1]
      BY <2>2, <3>1
    <3> HIDE DEF t
    <3> QED
      BY <2>2, <3>2, <1>3, <1>v
  <2>3. CASE k > j
    <3>1. /\ ~(k < j) /\ ~(k-1 < j) /\ k-1 \in 0 .. n+1 /\ k \in 0 .. n+1
          /\ k-1 \in j .. n /\ (k-1)+1 = k /\ k-1 \in 1 .. n /\ (k-1)-1 \in 0 .. n
      BY <2>3, <1>3
    <3>2. t[k] = s[k-1] + v /\ t[k-1] = s[(k-1)-1] + v
      BY <3>1
    <3>3. s[k-1] = s[(k-1)-1] + Weight(length, q[k-1]) /\ w[k] = q[k-1]
      BY <3>1, <1>2, <1>3
    <3>4. Weight(length, q[k-1]) \in Int /\ s[(k-1)-1] \in Int
      BY <3>1, <1>n, <1>2, WeightType
    <3> HIDE DEF t
    <3> QED
      BY <3>2, <3>3, <3>4
  <2> QED
    BY <2>1, <2>2, <2>3, <1>3
<1> HIDE DEF t
<1>6. Loads(t, w, length)
  BY <1>3, <1>4, <1>5 DEF Loads
<1>7. x \in Int
  BY <1>1, <1>2
<1> QED
  BY <1>1, <1>3, <1>4, <1>6, <1>7, <1>v DEF SumsTo

LEMMA SumsRemoved ==
  ASSUME NEW length \in [Pid -> Nat], NEW q \in Seq(Item), NEW w \in Seq(Item),
         NEW j, NEW b \in Item, Inserted(q, w, j, b), NEW x, SumsTo(w, length, x)
  PROVE  x \in Int /\ SumsTo(q, length, x - Weight(length, b))
<1>n. PICK n \in Nat : n = Len(q) /\ \A k \in 1 .. n : q[k] \in Item
  BY LenProperties, ElementOfSeq
<1>3. /\ Len(w) = n+1 /\ j \in 1 .. n+1 /\ w[j] = b
      /\ \A k \in 1 .. j-1 : w[k] = q[k]
      /\ \A k \in j .. n : w[k+1] = q[k]
  BY <1>n DEF Inserted
<1>1. PICK t : Loads(t, w, length) /\ x = t[n+1]
  BY <1>3 DEF SumsTo
<1>v. PICK v \in Int : v = Weight(length, b)
  BY WeightType
<1>2. /\ t \in [0 .. n+1 -> Int] /\ t[0] = 0
      /\ \A k \in 1 .. n+1 : t[k] = t[k-1] + Weight(length, w[k])
  BY <1>1, <1>3 DEF Loads
<1> DEFINE s == [k \in 0 .. n |-> IF k < j THEN t[k] ELSE t[k+1] - v]
<1>4. s \in [0 .. n -> Int] /\ s[0] = 0
  <2>1. ASSUME NEW k \in 0 .. n PROVE s[k] \in Int
    <3>1. k \in 0 .. n+1 /\ k+1 \in 0 .. n+1
      OBVIOUS
    <3> QED
      BY <3>1, <1>2
  <2>2. s[0] = 0
    BY <1>2, <1>3
  <2> HIDE DEF s
  <2>4. s = [k \in 0 .. n |-> s[k]]
    BY DEF s
  <2> QED
    BY <2>1, <2>2, <2>4
<1>e. s[n] = t[n+1] - v
  <2>1. CASE n < j
    <3>1. j = n+1 /\ s[n] = t[n] /\ (n+1)-1 = n
      BY <2>1, <1>3
    <3> HIDE DEF s
    <3>2. t[n+1] = t[n] + v /\ t[n] \in Int
      BY <3>1, <1>2, <1>3, <1>v
    <3> QED
      BY <3>1, <3>2
  <2>2. CASE ~(n < j)
    BY <2>2
  <2> QED
    BY <2>1, <2>2
<1>5. ASSUME NEW k \in 1 .. n PROVE s[k] = s[k-1] + Weight(length, q[k])
  <2>1. CASE k < j
    <3>1. k \in 1 .. n+1 /\ k \in 1 .. j-1 /\ k-1 < j /\ k-1 \in 0 .. n /\ k \in 0 .. n
      BY <2>1, <1>3
    <3>2. s[k] = t[k] /\ s[k-1] = t[k-1]
      BY <2>1, <3>1
    <3> HIDE DEF s
    <3> QED
      BY <3>1, <3>2, <1>2, <1>3
  <2>2. CASE ~(k < j)
    <3>1. /\ k \in j .. n /\ k+1 \in 1 .. n+1 /\ (k+1)-1 = k /\ k-1 \in 0 .. n
          /\ k \in 0 .. n+1 /\ j \in 1 .. n+1 /\ j-1 \in 0 .. n+1
      BY <2>2, <1>3
    <3>2. s[k] = t[k+1] - v
      BY <2>2
    <3>3. s[k-1] = t[k] - v
      <4>1. CASE k = j
        <5>1. s[k-1] = t[k-1] /\ t[k] = t[k-1] + v /\ t[k-1] \in Int
          BY <4>1, <3>1, <1>2, <1>3, <1>v
        <5> HIDE DEF s
        <5> QED
          BY <5>1
      <4>2. CASE k # j
        <5>1. ~(k-1 < j) /\ (k-1)+1 = k
          BY <4>2, <3>1
        <5> QED
          BY <5>1, <3>1
      <4> QED
        BY <4>1, <4>2
    <3>4. t[k+1] = t[k] + Weight(length, q[k])
      BY <3>1, <1>2, <1>3
    <3>5. Weight(length, q[k]) \in Int /\ t[k] \in Int
      BY <3>1, <1>n, <1>2, WeightType
    <3> HIDE DEF s
    <3> QED
      BY <3>2, <3>3, <3>4, <3>5
  <2> QED
    BY <2>1, <2>2
<1> HIDE DEF s
<1>6. Loads(s, q, length)
  BY <1>n, <1>4, <1>5 DEF Loads
<1>7. x \in Int
  BY <1>1, <1>2
<1> QED
  BY <1>1, <1>n, <1>e, <1>6, <1>7, <1>v DEF SumsTo

LEMMA SumsSame ==
  ASSUME NEW q \in Seq(Item), NEW length, NEW other, NEW x, SumsTo(q, length, x),
         \A b \in Items(q) : Weight(length, b) = Weight(other, b)
  PROVE  SumsTo(q, other, x)
<1>1. \A k \in 1 .. Len(q) : Weight(length, q[k]) = Weight(other, q[k])
  BY LenProperties DEF Items
<1>2. PICK s : Loads(s, q, length) /\ x = s[Len(q)]
  BY DEF SumsTo
<1>3. Loads(s, q, other)
  BY <1>1, <1>2 DEF Loads
<1> QED
  BY <1>2, <1>3 DEF SumsTo

LEMMA SumsEnqueued ==
  ASSUME NEW length \in [Pid -> Nat], NEW q \in Seq(Item), NEW b \in Item,
         Closed(q) => b \in Pid, NEW x, SumsTo(q, length, x)
  PROVE  x \in Int /\ SumsTo(Enqueued(q, b), length, x + Weight(length, b))
<1>n. PICK n \in Nat : n = Len(q)
  BY LenProperties
<1>w. PICK w : w = Enqueued(q, b)
  OBVIOUS
<1>1. CASE Closed(q)
  <2>1. n # 0 /\ q[n] = Marker
    BY <1>n, <1>1, EmptySeq DEF Closed
  <2>2. /\ w \in Seq(Item) /\ Len(w) = n+1
        /\ \A k \in 1 .. n-1 : w[k] = q[k]
        /\ w[n] = b /\ w[n+1] = Marker
    BY <1>1, <1>n, <1>w, EnqueuedClosed
  <2>3. Inserted(q, w, n, b)
    BY <1>n, <2>1, <2>2 DEF Inserted
  <2> QED
    BY <1>w, <2>2, <2>3, SumsInserted
<1>2. CASE ~Closed(q)
  <2>1. /\ w \in Seq(Item) /\ Len(w) = n+1
        /\ \A k \in 1 .. n : w[k] = q[k]
        /\ w[n+1] = b
    <3>1. /\ Enqueued(q, b) \in Seq(Item)
          /\ Len(Enqueued(q, b)) = Len(q) + 1
          /\ \A k \in 1 .. Len(q) : Enqueued(q, b)[k] = q[k]
          /\ Enqueued(q, b)[Len(q) + 1] = b
      BY <1>2, EnqueuedOpen
    <3> QED
      BY <1>n, <1>w, <3>1
  <2>2. Inserted(q, w, n+1, b)
    BY <1>n, <2>1 DEF Inserted
  <2> QED
    BY <1>w, <2>1, <2>2, SumsInserted
<1> QED
  BY <1>1, <1>2

LEMMA SumsWithout ==
  ASSUME NEW length \in [Pid -> Nat], NEW q \in Seq(Item), NEW j \in DOMAIN q,
         NEW x, SumsTo(q, length, x)
  PROVE  SumsTo(Without(q, j), length, x - Weight(length, q[j]))
<1>1. PICK n \in Nat \ {0} : n = Len(q) /\ DOMAIN q = 1 .. n /\ j \in 1 .. n
  BY LenProperties
<1>w. PICK w : w = Without(q, j)
  OBVIOUS
<1>2. /\ w \in Seq(Item)
      /\ Len(w) = n-1
      /\ \A k \in 1 .. j-1 : w[k] = q[k]
      /\ \A k \in j .. n-1 : w[k] = q[k+1]
  BY <1>1, <1>w, WithoutIndex
<1>3. Inserted(w, q, j, q[j])
  BY <1>1, <1>2 DEF Inserted
<1>4. q[j] \in Item
  BY <1>1, ElementOfSeq
<1> QED
  BY <1>2, <1>3, <1>4, <1>w, SumsRemoved
===============================================================================
