---------------------------- MODULE ReadyQueueProofs ----------------------------
(***************************************************************************)
(* p2's ready queue is the sequence that readyqueue.h promises, for any    *)
(* bursts and any addresses malloc() may return: its pointers form one     *)
(* list, whatever is enqueued, dequeued, taken out or sorted.              *)
(***************************************************************************)
EXTENDS ReadyQueue, MarkedSequenceProofs

-------------------------------------------------------------------------------
(* The list *)

Lengths == [b \in Pid |-> burstLength[b]]

\* The k-th of the nodes s, NULL before the first and behind the last.
At(s, k) == IF k \in DOMAIN s THEN s[k] ELSE NULL

\* The k-th of the nodes s, with the item and the pointers it has to have.
Cell(s, q, k) == [data |-> q[k], next |-> At(s, k+1), prev |-> At(s, k-1)]

\* The nodes s carry the items of q, in this order.
Linked(s, q) ==
  /\ q \in Seq(Item) /\ OnceIn(q) /\ MarkerLast(q)
  /\ s \in [1 .. Len(q) -> Node]
  /\ \A j, k \in 1 .. Len(q) : s[j] = s[k] => j = k
  /\ node = [a \in {s[k] : k \in 1 .. Len(q)} |-> node[a]]
  /\ \A k \in 1 .. Len(q) : node[s[k]] = Cell(s, q, k)
  /\ head = At(s, 1) /\ tail = At(s, Len(q)) /\ size = Len(q)

\* The nodes on some list are all there are, and queueLoad sums it up.
QInv == \E q, s : Linked(s, q) /\ SumsTo(q, Lengths, queueLoad)

\* The bursts' lengths, without the marker's.
LEMMA LengthsType == Lengths \in [Pid -> Nat]
BY QueueAssumption DEF Lengths, Item

\* An item weighs what burstLength says: the marker nothing.
LEMMA WeightIs ==
  ASSUME NEW b \in Item
  PROVE  Weight(Lengths, b) = burstLength[b]
BY QueueAssumption DEF Weight, Lengths, Item

\* The three fields of a node.
LEMMA CellIs ==
  ASSUME NEW s, NEW q, NEW k
  PROVE  /\ Cell(s, q, k).data = q[k]
         /\ Cell(s, q, k).next = At(s, k+1)
         /\ Cell(s, q, k).prev = At(s, k-1)
BY DEF Cell

\* What Linked says, with a number for the length.
LEMMA LinkedIs ==
  ASSUME NEW s, NEW q, Linked(s, q)
  PROVE  \E n \in Nat :
           /\ n = Len(q) /\ DOMAIN q = 1 .. n /\ n = size
           /\ \A k \in 1 .. n : q[k] \in Item
           /\ s \in [1 .. n -> Node] /\ \A k \in 1 .. n : s[k] \in Node /\ s[k] # NULL
           /\ \A j, k \in 1 .. n : s[j] = s[k] => j = k
           /\ \A j, k \in 1 .. n : q[j] = q[k] => j = k
           /\ \A k \in 1 .. n : q[k] = Marker => k = n
           /\ Allocated = {s[k] : k \in 1 .. n}
           /\ node = [a \in Allocated |-> node[a]]
           /\ \A k \in 1 .. n : node[s[k]] = Cell(s, q, k)
           /\ \A k \in 1 .. n : At(s, k) = s[k]
           /\ At(s, 0) = NULL /\ At(s, n+1) = NULL
           /\ head = At(s, 1) /\ tail = At(s, n)
           /\ (n = 0 <=> head = NULL) /\ (n = 0 <=> tail = NULL)
<1>1. q \in Seq(Item)
  BY DEF Linked
<1>2. PICK n \in Nat : n = Len(q) /\ DOMAIN q = 1 .. n /\ \A k \in 1 .. n : q[k] \in Item
  BY <1>1, LenProperties, ElementOfSeq
<1>3. s \in [1 .. n -> Node] /\ \A k \in 1 .. n : s[k] \in Node /\ s[k] # NULL
  BY <1>2, QueueAssumption DEF Linked
<1>4. Allocated = {s[k] : k \in 1 .. n} /\ node = [a \in Allocated |-> node[a]]
  <2>1. node = [a \in {s[k] : k \in 1 .. n} |-> node[a]]
    BY <1>2 DEF Linked
  <2>2. DOMAIN node = {s[k] : k \in 1 .. n}
    BY <2>1
  <2> QED
    BY <2>1, <2>2 DEF Allocated
<1>5. (\A k \in 1 .. n : At(s, k) = s[k]) /\ At(s, 0) = NULL /\ At(s, n+1) = NULL
  BY <1>3 DEF At
<1>6. head = At(s, 1) /\ tail = At(s, n) /\ size = n
  BY <1>2 DEF Linked
<1>7. (n = 0 <=> head = NULL) /\ (n = 0 <=> tail = NULL)
  BY <1>3, <1>5, <1>6 DEF At
<1>8. /\ \A j, k \in 1 .. n : s[j] = s[k] => j = k
      /\ \A j, k \in 1 .. n : q[j] = q[k] => j = k
      /\ \A k \in 1 .. n : q[k] = Marker => k = n
      /\ \A k \in 1 .. n : node[s[k]] = Cell(s, q, k)
  BY <1>2 DEF Linked, OnceIn, MarkerLast
<1> QED
  BY <1>2, <1>3, <1>4, <1>5, <1>6, <1>7, <1>8

\* Following next from the head meets the nodes in order.
LEMMA NthIs ==
  ASSUME NEW s, NEW q, Linked(s, q)
  PROVE  /\ \A k \in 0 .. size : Nth[k] = At(s, k)
         /\ \A k \in 1 .. size : Nth[k] = s[k] /\ pid(Nth[k]) = q[k]
<1>1. PICK n \in Nat :
           /\ n = Len(q) /\ n = size
           /\ \A k \in 1 .. n : s[k] \in Node /\ s[k] # NULL
           /\ Allocated = {s[k] : k \in 1 .. n}
           /\ \A k \in 1 .. n : node[s[k]] = Cell(s, q, k)
           /\ \A k \in 1 .. n : At(s, k) = s[k]
           /\ At(s, 0) = NULL /\ head = At(s, 1)
  BY LinkedIs
<1>c. ASSUME NEW k \in 1 .. n
      PROVE  node[s[k]].data = q[k] /\ node[s[k]].next = At(s, k+1)
  BY <1>1, CellIs
<1> DEFINE Follows(f) ==
             f = [k \in 0 .. n |-> IF k = 0 THEN NULL
                                   ELSE IF k = 1 THEN head
                                   ELSE IF f[k-1] \notin Allocated THEN NULL
                                   ELSE node[f[k-1]].next]
           nth == CHOOSE f : Follows(f)
<1>2. Nth = nth
  BY <1>1 DEF Nth
<1>3. Follows([k \in 0 .. n |-> At(s, k)])
  <2> DEFINE f == [k \in 0 .. n |-> At(s, k)]
  <2>1. ASSUME NEW k \in 0 .. n
        PROVE  f[k] = IF k = 0 THEN NULL ELSE IF k = 1 THEN head
                      ELSE IF f[k-1] \notin Allocated THEN NULL ELSE node[f[k-1]].next
    <3>1. CASE k = 0 \/ k = 1
      BY <1>1, <3>1
    <3>2. CASE k # 0 /\ k # 1
      <4>1. k-1 \in 1 .. n /\ k-1 \in 0 .. n /\ (k-1)+1 = k
        BY <3>2
      <4>2. f[k-1] = s[k-1] /\ s[k-1] \in Allocated
        BY <1>1, <4>1
      <4>3. node[s[k-1]].next = At(s, k)
        <5>1. node[s[k-1]].next = At(s, (k-1)+1)
          BY <1>c, <4>1
        <5> QED
          BY <5>1, <4>1
      <4> QED
        BY <3>2, <4>2, <4>3
    <3> QED
      BY <3>1, <3>2
  <2> QED
    BY <2>1
<1>4. Follows(nth)
  BY <1>3
<1>5. \A k \in 0 .. n : nth[k] = IF k = 0 THEN NULL
                                 ELSE IF k = 1 THEN head
                                 ELSE IF nth[k-1] \notin Allocated THEN NULL
                                 ELSE node[nth[k-1]].next
  <2> HIDE DEF nth
  <2> QED
    BY <1>4
<1> HIDE DEF nth, Follows
<1> DEFINE Right == {k \in 0 .. n : nth[k] = At(s, k)}
<1>6. 0 \in Right
  BY <1>1, <1>5
<1>7. ASSUME NEW k \in 0 .. n, k < n, k \in Right PROVE k+1 \in Right
  <2>1. k+1 \in 0 .. n /\ (k+1)-1 = k
    BY <1>7
  <2>2. CASE k = 0
    <3>1. 1 \in 0 .. n
      BY <2>1, <2>2
    <3>2. nth[1] = head
      BY <1>5, <3>1
    <3> QED
      BY <1>1, <2>1, <2>2, <3>1, <3>2
  <2>3. CASE k # 0
    <3>1. k \in 1 .. n
      BY <2>3
    <3>2. nth[k] = s[k] /\ s[k] \in Allocated /\ node[s[k]].next = At(s, k+1)
      BY <1>1, <1>7, <3>1, <1>c
    <3>3. nth[k+1] = IF nth[k] \notin Allocated THEN NULL ELSE node[nth[k]].next
      BY <1>5, <2>1, <2>3
    <3> QED
      BY <2>1, <3>2, <3>3
  <2> QED
    BY <2>2, <2>3
<1>8. \A k \in 0 .. n : k \in Right
  <2> HIDE DEF Right
  <2> QED
    BY <1>6, <1>7, CountUp
<1>9. \A k \in 0 .. size : Nth[k] = At(s, k)
  BY <1>1, <1>2, <1>8
<1>10. \A k \in 1 .. size : Nth[k] = s[k] /\ pid(Nth[k]) = q[k]
  BY <1>1, <1>9, <1>c DEF pid
<1> QED
  BY <1>9, <1>10

-------------------------------------------------------------------------------
(* Putting a node in *)

\* A step that links node x, with b, in at place p of the n nodes s.
Spliced(s, q, n, p, x, b) ==
  /\ size' = n+1
  /\ node' = [a \in Allocated \cup {x} |-> node'[a]]
  /\ node'[x] = [data |-> b, next |-> At(s, p), prev |-> At(s, p-1)]
  /\ \A k \in 1 .. n :
       node'[s[k]] = [data |-> q[k],
                      next |-> IF k+1 = p THEN x ELSE At(s, k+1),
                      prev |-> IF k = p THEN x ELSE At(s, k-1)]
  /\ head' = IF p = 1 THEN x ELSE At(s, 1)
  /\ tail' = IF p = n+1 THEN x ELSE At(s, n)

\* It makes w of q.
LEMMA LinkedInsert ==
  ASSUME NEW s, NEW q, Linked(s, q),
         NEW n \in Nat, n = Len(q), NEW p \in 1 .. n+1,
         NEW x \in Node, x \notin Allocated, NEW b \in Item,
         NEW w, w \in Seq(Item), OnceIn(w), MarkerLast(w), Inserted(q, w, p, b),
         Spliced(s, q, n, p, x, b)
  PROVE  \E t : Linked(t, w)'
<1>1. /\ n = Len(q) /\ DOMAIN q = 1 .. n
      /\ s \in [1 .. n -> Node] /\ \A k \in 1 .. n : s[k] \in Node /\ s[k] # NULL
      /\ \A j, k \in 1 .. n : s[j] = s[k] => j = k
      /\ Allocated = {s[k] : k \in 1 .. n}
      /\ \A k \in 1 .. n : At(s, k) = s[k]
      /\ At(s, 0) = NULL /\ At(s, n+1) = NULL
  BY LinkedIs
<1>2. /\ Len(w) = n+1 /\ w[p] = b
      /\ \A k \in 1 .. p-1 : w[k] = q[k]
      /\ \A k \in p .. n : w[k+1] = q[k]
  BY DEF Inserted
<1>h. /\ size' = n+1
      /\ node' = [a \in Allocated \cup {x} |-> node'[a]]
      /\ node'[x] = [data |-> b, next |-> At(s, p), prev |-> At(s, p-1)]
      /\ head' = IF p = 1 THEN x ELSE At(s, 1)
      /\ tail' = IF p = n+1 THEN x ELSE At(s, n)
  BY DEF Spliced
<1>i. ASSUME NEW k \in 1 .. n
      PROVE  node'[s[k]] = [data |-> q[k],
                            next |-> IF k+1 = p THEN x ELSE At(s, k+1),
                            prev |-> IF k = p THEN x ELSE At(s, k-1)]
  BY DEF Spliced
<1>t. PICK t : t = [k \in 1 .. n+1 |-> IF k < p THEN s[k] ELSE IF k = p THEN x ELSE s[k-1]]
  OBVIOUS
<1>3. /\ DOMAIN t = 1 .. n+1
      /\ \A k \in 1 .. p-1 : k \in 1 .. n /\ k \in 1 .. n+1 /\ t[k] = s[k]
      /\ t[p] = x
      /\ \A k \in p .. n : k \in 1 .. n /\ k+1 \in 1 .. n+1 /\ t[k+1] = s[k]
  <2>1. DOMAIN t = 1 .. n+1 /\ t[p] = x
    BY <1>t
  <2>2. ASSUME NEW k \in 1 .. p-1 PROVE k \in 1 .. n /\ k \in 1 .. n+1 /\ t[k] = s[k]
    <3>1. k \in 1 .. n /\ k \in 1 .. n+1 /\ k < p
      OBVIOUS
    <3> QED
      BY <1>t, <3>1
  <2>3. ASSUME NEW k \in p .. n
        PROVE  k \in 1 .. n /\ k+1 \in 1 .. n+1 /\ t[k+1] = s[k]
    <3>1. k \in 1 .. n /\ k+1 \in 1 .. n+1 /\ ~(k+1 < p) /\ k+1 # p /\ (k+1)-1 = k
      OBVIOUS
    <3> QED
      BY <1>t, <3>1
  <2> QED
    BY <2>1, <2>2, <2>3
<1>k. ASSUME NEW k \in 1 .. n+1
      PROVE  \/ k \in 1 .. p-1
             \/ k = p
             \/ k-1 \in p .. n /\ (k-1)+1 = k
  OBVIOUS
<1>4. ASSUME NEW k \in 1 .. n+1 PROVE t[k] \in Node /\ t[k] # NULL
  <2>1. CASE k \in 1 .. p-1
    BY <2>1, <1>1, <1>3
  <2>2. CASE k = p
    BY <2>2, <1>3, QueueAssumption
  <2>3. CASE k-1 \in p .. n /\ (k-1)+1 = k
    BY <2>3, <1>1, <1>3
  <2> QED
    BY <1>k, <2>1, <2>2, <2>3
<1>5. t \in [1 .. n+1 -> Node]
  <2>1. t = [k \in 1 .. n+1 |-> t[k]]
    BY <1>t
  <2> QED
    BY <1>4, <2>1
<1>6. ASSUME NEW j \in 1 .. n+1, NEW k \in 1 .. n+1, t[j] = t[k] PROVE j = k
  <2> DEFINE old(m) == IF m < p THEN m ELSE m-1
  <2>1. \A m \in 1 .. n+1 : m # p => old(m) \in 1 .. n /\ t[m] = s[old(m)]
    BY <1>t
  <2>2. \A m \in 1 .. n : s[m] # x
    BY <1>1
  <2>3. CASE j = p \/ k = p
    BY <2>1, <2>2, <2>3, <1>3, <1>6
  <2>4. CASE j # p /\ k # p
    <3>1. old(j) \in 1 .. n /\ old(k) \in 1 .. n /\ s[old(j)] = s[old(k)]
      BY <2>1, <2>4, <1>6
    <3>2. old(j) = old(k)
      <4> HIDE DEF old
      <4> QED
        BY <3>1, <1>1
    <3> QED
      BY <3>2, <2>4
  <2> QED
    BY <2>3, <2>4
<1>7. {t[k] : k \in 1 .. n+1} = Allocated \cup {x}
  <2>1. \A k \in 1 .. n+1 : t[k] \in Allocated \cup {x}
    <3> TAKE k \in 1 .. n+1
    <3>1. CASE k \in 1 .. p-1
      BY <3>1, <1>1, <1>3
    <3>2. CASE k = p
      BY <3>2, <1>3
    <3>3. CASE k-1 \in p .. n /\ (k-1)+1 = k
      BY <3>3, <1>1, <1>3
    <3> QED
      BY <1>k, <3>1, <3>2, <3>3
  <2>2. \A k \in 1 .. n : \E l \in 1 .. n+1 : t[l] = s[k]
    <3> TAKE k \in 1 .. n
    <3>1. CASE k < p
      <4>1. k \in 1 .. p-1
        BY <3>1
      <4> QED
        BY <4>1, <1>3
    <3>2. CASE ~(k < p)
      <4>1. k \in p .. n
        BY <3>2
      <4> QED
        BY <4>1, <1>3
    <3> QED
      BY <3>1, <3>2
  <2>3. p \in 1 .. n+1 /\ t[p] = x
    BY <1>3
  <2> QED
    BY <1>1, <2>1, <2>2, <2>3
<1>8. ASSUME NEW k \in 0 .. n+2
      PROVE  At(t, k) = IF k < p THEN At(s, k) ELSE IF k = p THEN x ELSE At(s, k-1)
  <2>1. CASE k = 0
    BY <2>1, <1>1, <1>3 DEF At
  <2>2. CASE k = n+2
    <3>1. k \notin 1 .. n+1 /\ ~(k < p) /\ k # p /\ k-1 = n+1
      BY <2>2
    <3> QED
      BY <3>1, <1>1, <1>3 DEF At
  <2>3. CASE k \in 1 .. p-1
    <3>1. k \in 1 .. n+1 /\ k \in 1 .. n /\ k < p /\ t[k] = s[k]
      BY <2>3, <1>3
    <3> QED
      BY <3>1, <1>1, <1>3 DEF At
  <2>4. CASE k = p
    BY <2>4, <1>3 DEF At
  <2>5. CASE k-1 \in p .. n /\ (k-1)+1 = k
    <3>1. k \in 1 .. n+1 /\ k-1 \in 1 .. n /\ ~(k < p) /\ k # p /\ t[k] = s[k-1]
      BY <2>5, <1>3
    <3> QED
      BY <3>1, <1>1, <1>3 DEF At
  <2> QED
    BY <1>k, <2>1, <2>2, <2>3, <2>4, <2>5
<1>9. ASSUME NEW k \in 1 .. n+1 PROVE node'[t[k]] = Cell(t, w, k)
  <2>0. k \in 0 .. n+2 /\ k+1 \in 0 .. n+2 /\ k-1 \in 0 .. n+2
    OBVIOUS
  <2>1. CASE k \in 1 .. p-1
    <3>1. k \in 1 .. n /\ t[k] = s[k] /\ w[k] = q[k] /\ k # p /\ k-1 < p
      BY <2>1, <1>2, <1>3
    <3>2. At(t, k-1) = At(s, k-1)
      BY <1>8, <2>0, <3>1
    <3>3. At(t, k+1) = IF k+1 = p THEN x ELSE At(s, k+1)
      <4>1. k+1 < p \/ k+1 = p
        BY <2>1
      <4> QED
        BY <1>8, <2>0, <4>1
    <3>4. node'[s[k]] = [data |-> q[k],
                         next |-> IF k+1 = p THEN x ELSE At(s, k+1),
                         prev |-> IF k = p THEN x ELSE At(s, k-1)]
      BY <3>1, <1>i
    <3> QED
      BY <3>1, <3>2, <3>3, <3>4 DEF Cell
  <2>2. CASE k = p
    <3>1. At(t, p-1) = At(s, p-1)
      BY <1>8, <2>0, <2>2
    <3>2. At(t, p+1) = At(s, p)
      <4>1. ~(p+1 < p) /\ p+1 # p /\ (p+1)-1 = p
        OBVIOUS
      <4> QED
        BY <1>8, <2>0, <2>2, <4>1
    <3> QED
      BY <2>2, <1>2, <1>3, <1>h, <3>1, <3>2 DEF Cell
  <2>3. CASE k-1 \in p .. n /\ (k-1)+1 = k
    <3>1. PICK j \in p .. n : j = k-1 /\ j+1 = k
      BY <2>3
    <3>2. j \in 1 .. n /\ t[k] = s[j] /\ w[k] = q[j] /\ j+1 # p
      BY <3>1, <1>2, <1>3
    <3>3. At(t, k-1) = IF j = p THEN x ELSE At(s, j-1)
      <4>1. k-1 = j /\ ~(j < p)
        BY <3>1
      <4> QED
        BY <1>8, <2>0, <4>1
    <3>4. At(t, k+1) = At(s, j+1)
      <4>1. ~(k+1 < p) /\ k+1 # p /\ (k+1)-1 = j+1
        BY <3>1
      <4> QED
        BY <1>8, <2>0, <4>1
    <3>5. node'[s[j]] = [data |-> q[j],
                         next |-> IF j+1 = p THEN x ELSE At(s, j+1),
                         prev |-> IF j = p THEN x ELSE At(s, j-1)]
      BY <3>2, <1>i
    <3> QED
      BY <3>2, <3>3, <3>4, <3>5 DEF Cell
  <2> QED
    BY <1>k, <2>1, <2>2, <2>3
<1>10. head' = At(t, 1) /\ tail' = At(t, n+1)
  <2>1. At(t, 1) = IF 1 < p THEN At(s, 1) ELSE IF 1 = p THEN x ELSE At(s, 1-1)
    BY <1>8
  <2>2. At(t, n+1) = IF n+1 < p THEN At(s, n+1) ELSE IF n+1 = p THEN x ELSE At(s, (n+1)-1)
    BY <1>8
  <2>3. (n+1)-1 = n /\ ~(n+1 < p) /\ (~(1 < p) => p = 1)
    OBVIOUS
  <2> QED
    BY <1>h, <2>1, <2>2, <2>3
<1>11. Linked(t, w)'
  <2>1. node' = [a \in {t[k] : k \in 1 .. n+1} |-> node'[a]]
    BY <1>h, <1>7
  <2> QED
    BY <1>h, <1>2, <1>5, <1>6, <1>9, <1>10, <2>1 DEF Linked
<1> QED
  BY <1>11

-------------------------------------------------------------------------------
(* Taking a node out *)

\* The p-th node, unlinked and freed, leaves q without its p-th item.
LEMMA LinkedRemove ==
  ASSUME NEW s, NEW q, Linked(s, q),
         NEW n \in Nat, n = Len(q), NEW p \in 1 .. n,
         size' = n-1,
         node' = [a \in Allocated \ {s[p]} |-> node'[a]],
         \A k \in 1 .. n : k # p =>
           node'[s[k]] = [data |-> q[k],
                          next |-> IF k+1 = p THEN At(s, p+1) ELSE At(s, k+1),
                          prev |-> IF k-1 = p THEN At(s, p-1) ELSE At(s, k-1)],
         head' = IF p = 1 THEN At(s, 2) ELSE At(s, 1),
         tail' = IF p = n THEN At(s, n-1) ELSE At(s, n)
  PROVE  \E t : Linked(t, Without(q, p))'
<1>1. /\ n = Len(q) /\ DOMAIN q = 1 .. n
      /\ s \in [1 .. n -> Node] /\ \A k \in 1 .. n : s[k] \in Node /\ s[k] # NULL
      /\ \A j, k \in 1 .. n : s[j] = s[k] => j = k
      /\ Allocated = {s[k] : k \in 1 .. n}
      /\ \A k \in 1 .. n : At(s, k) = s[k]
      /\ At(s, 0) = NULL /\ At(s, n+1) = NULL
  BY LinkedIs
<1>q. q \in Seq(Item) /\ OnceIn(q) /\ MarkerLast(q)
  BY DEF Linked
<1>w. PICK w : w = Without(q, p)
  OBVIOUS
<1>2. /\ w \in Seq(Item) /\ OnceIn(w) /\ MarkerLast(w)
      /\ Len(w) = n-1
      /\ \A k \in 1 .. p-1 : w[k] = q[k]
      /\ \A k \in p .. n-1 : w[k] = q[k+1]
  <2>1. p \in DOMAIN q
    BY <1>1
  <2> QED
    BY <1>q, <1>w, <2>1, WithoutIndex, WithoutKeeps, WithoutOnce
<1>t. PICK t : t = [k \in 1 .. n-1 |-> IF k < p THEN s[k] ELSE s[k+1]]
  OBVIOUS
<1>3. /\ DOMAIN t = 1 .. n-1
      /\ \A k \in 1 .. p-1 : k \in 1 .. n /\ k \in 1 .. n-1 /\ t[k] = s[k]
      /\ \A k \in p .. n-1 : k \in 1 .. n-1 /\ k+1 \in 1 .. n /\ t[k] = s[k+1]
  <2>1. DOMAIN t = 1 .. n-1
    BY <1>t
  <2>2. ASSUME NEW k \in 1 .. p-1 PROVE k \in 1 .. n /\ k \in 1 .. n-1 /\ t[k] = s[k]
    <3>1. k \in 1 .. n /\ k \in 1 .. n-1 /\ k < p
      OBVIOUS
    <3> QED
      BY <1>t, <3>1
  <2>3. ASSUME NEW k \in p .. n-1
        PROVE  k \in 1 .. n-1 /\ k+1 \in 1 .. n /\ t[k] = s[k+1]
    <3>1. k \in 1 .. n-1 /\ k+1 \in 1 .. n /\ ~(k < p)
      OBVIOUS
    <3> QED
      BY <1>t, <3>1
  <2> QED
    BY <2>1, <2>2, <2>3
<1>k. ASSUME NEW k \in 1 .. n-1 PROVE k \in 1 .. p-1 \/ k \in p .. n-1
  OBVIOUS
<1>4. ASSUME NEW k \in 1 .. n-1 PROVE t[k] \in Node
  <2>1. CASE k \in 1 .. p-1
    BY <2>1, <1>1, <1>3
  <2>2. CASE k \in p .. n-1
    BY <2>2, <1>1, <1>3
  <2> QED
    BY <1>k, <2>1, <2>2
<1>5. t \in [1 .. n-1 -> Node]
  <2>1. t = [k \in 1 .. n-1 |-> t[k]]
    BY <1>t
  <2> QED
    BY <1>4, <2>1
<1> DEFINE old(m) == IF m < p THEN m ELSE m+1
<1>o. \A m \in 1 .. n-1 : old(m) \in 1 .. n /\ old(m) # p /\ t[m] = s[old(m)]
  BY <1>t
<1>6. ASSUME NEW j \in 1 .. n-1, NEW k \in 1 .. n-1, t[j] = t[k] PROVE j = k
  <2>1. old(j) \in 1 .. n /\ old(k) \in 1 .. n /\ s[old(j)] = s[old(k)]
    BY <1>o, <1>6
  <2>2. old(j) = old(k)
    <3> HIDE DEF old
    <3> QED
      BY <2>1, <1>1
  <2> QED
    BY <2>2
<1>7. {t[k] : k \in 1 .. n-1} = Allocated \ {s[p]}
  <2>1. \A k \in 1 .. n-1 : t[k] \in Allocated \ {s[p]}
    <3> TAKE k \in 1 .. n-1
    <3>1. old(k) \in 1 .. n /\ old(k) # p /\ t[k] = s[old(k)]
      BY <1>o
    <3> HIDE DEF old
    <3> QED
      BY <3>1, <1>1
  <2>2. ASSUME NEW k \in 1 .. n, k # p PROVE \E l \in 1 .. n-1 : t[l] = s[k]
    <3>1. CASE k < p
      <4>1. k \in 1 .. p-1
        BY <3>1
      <4> QED
        BY <4>1, <1>3
    <3>2. CASE ~(k < p)
      <4>1. k-1 \in p .. n-1 /\ (k-1)+1 = k
        BY <3>2, <2>2
      <4> QED
        BY <4>1, <1>3
    <3> QED
      BY <3>1, <3>2
  <2> HIDE DEF old
  <2> QED
    BY <1>1, <2>1, <2>2
<1> HIDE DEF old
<1>8. ASSUME NEW k \in 0 .. n PROVE At(t, k) = IF k < p THEN At(s, k) ELSE At(s, k+1)
  <2>1. CASE k = 0
    BY <2>1, <1>1, <1>3 DEF At
  <2>2. CASE k = n
    BY <2>2, <1>1, <1>3 DEF At
  <2>3. CASE k \in 1 .. p-1
    <3>1. k \in 1 .. n-1 /\ k \in 1 .. n /\ k < p /\ t[k] = s[k]
      BY <2>3, <1>3
    <3> QED
      BY <3>1, <1>1, <1>3 DEF At
  <2>4. CASE k \in p .. n-1
    <3>1. k \in 1 .. n-1 /\ k+1 \in 1 .. n /\ ~(k < p) /\ t[k] = s[k+1]
      BY <2>4, <1>3
    <3> QED
      BY <3>1, <1>1, <1>3 DEF At
  <2> QED
    BY <1>k, <2>1, <2>2, <2>3, <2>4
<1>9. ASSUME NEW k \in 1 .. n-1 PROVE node'[t[k]] = Cell(t, w, k)
  <2>0. k \in 0 .. n /\ k+1 \in 0 .. n /\ k-1 \in 0 .. n
    OBVIOUS
  <2>1. CASE k \in 1 .. p-1
    <3>1. k \in 1 .. n /\ t[k] = s[k] /\ w[k] = q[k] /\ k # p /\ k-1 # p /\ k-1 < p
      BY <2>1, <1>2, <1>3
    <3>2. At(t, k-1) = At(s, k-1)
      BY <1>8, <2>0, <3>1
    <3>3. At(t, k+1) = IF k+1 = p THEN At(s, p+1) ELSE At(s, k+1)
      <4>1. k+1 < p \/ k+1 = p
        BY <2>1
      <4> QED
        BY <1>8, <2>0, <4>1
    <3>4. node'[s[k]] = [data |-> q[k],
                         next |-> IF k+1 = p THEN At(s, p+1) ELSE At(s, k+1),
                         prev |-> IF k-1 = p THEN At(s, p-1) ELSE At(s, k-1)]
      BY <3>1
    <3> QED
      BY <3>1, <3>2, <3>3, <3>4 DEF Cell
  <2>2. CASE k \in p .. n-1
    <3>1. PICK j \in 1 .. n : j = k+1 /\ j-1 = k /\ j # p /\ j+1 # p
      BY <2>2
    <3>2. t[k] = s[j] /\ w[k] = q[j]
      BY <3>1, <2>2, <1>2, <1>3
    <3>3. At(t, k-1) = IF j-1 = p THEN At(s, p-1) ELSE At(s, j-1)
      <4>1. CASE k = p
        <5>1. k-1 < p
          BY <4>1
        <5> QED
          BY <1>8, <2>0, <3>1, <4>1, <5>1
      <4>2. CASE k # p
        <5>1. ~(k-1 < p) /\ (k-1)+1 = k
          BY <4>2, <2>2
        <5> QED
          BY <1>8, <2>0, <3>1, <4>2, <5>1
      <4> QED
        BY <4>1, <4>2
    <3>4. At(t, k+1) = At(s, j+1)
      <4>1. ~(k+1 < p) /\ k+1 = j
        BY <2>2, <3>1
      <4> QED
        BY <1>8, <2>0, <4>1
    <3>5. node'[s[j]] = [data |-> q[j],
                         next |-> IF j+1 = p THEN At(s, p+1) ELSE At(s, j+1),
                         prev |-> IF j-1 = p THEN At(s, p-1) ELSE At(s, j-1)]
      BY <3>1
    <3> QED
      BY <3>1, <3>2, <3>3, <3>4, <3>5 DEF Cell
  <2> QED
    BY <1>k, <2>1, <2>2
<1>10. head' = At(t, 1) /\ tail' = At(t, n-1)
  <2>1. At(t, 1) = IF 1 < p THEN At(s, 1) ELSE At(s, 1+1)
    BY <1>8
  <2>2. At(t, n-1) = IF n-1 < p THEN At(s, n-1) ELSE At(s, (n-1)+1)
    BY <1>8
  <2>3. (n-1)+1 = n /\ (n-1 < p <=> p = n) /\ (~(1 < p) <=> p = 1) /\ 1+1 = 2
    OBVIOUS
  <2> QED
    BY <2>1, <2>2, <2>3
<1>11. Linked(t, w)'
  <2>1. node' = [a \in {t[k] : k \in 1 .. n-1} |-> node'[a]]
    BY <1>7
  <2> QED
    BY <1>2, <1>5, <1>6, <1>9, <1>10, <2>1 DEF Linked
<1> QED
  BY <1>w, <1>11

\* What a step finds: the items, the nodes and the sum are as QInv has them.
Found(s, q, n) ==
  /\ Linked(s, q) /\ SumsTo(q, Lengths, queueLoad)
  /\ n \in Nat /\ n = Len(q)

\* What enqueue() asks of the head and of the tail, said of the items.
LEMMA Closes ==
  ASSUME NEW s, NEW q, NEW n, Found(s, q, n)
  PROVE  /\ (head = NULL) <=> (n = 0)
         /\ head # NULL => head = s[1] /\ pid(head) = q[1] /\ tail = s[n] /\ pid(tail) = q[n]
         /\ Closed(q) <=> (n # 0 /\ q[n] = Marker)
         /\ \A b \in Item : Out(b) <=> b \notin Items(q)
<1>1. /\ n = Len(q) /\ DOMAIN q = 1 .. n /\ n \in Nat
      /\ Allocated = {s[k] : k \in 1 .. n}
      /\ \A k \in 1 .. n : node[s[k]] = Cell(s, q, k)
      /\ \A k \in 1 .. n : At(s, k) = s[k]
      /\ head = At(s, 1) /\ tail = At(s, n)
      /\ (n = 0 <=> head = NULL)
  BY LinkedIs DEF Found
<1>2. \A k \in 1 .. n : pid(s[k]) = q[k]
  BY <1>1, CellIs DEF pid
<1>3. Closed(q) <=> (n # 0 /\ q[n] = Marker)
  <2>1. q \in Seq(Item)
    BY DEF Found, Linked
  <2> QED
    BY <1>1, <2>1, EmptySeq DEF Closed
<1>4. head # NULL => 1 \in 1 .. n /\ n \in 1 .. n
  BY <1>1
<1>5. \A b \in Item : Out(b) <=> b \notin Items(q)
  BY <1>1, <1>2 DEF Out, Items
<1> QED
  BY <1>1, <1>2, <1>3, <1>4, <1>5

\* All four branches of enqueue() link one new node in, before the marker if the
\* list is closed and at the end if it is not.
LEMMA EnqueueSplice ==
  ASSUME NEW s, NEW q, NEW n, Found(s, q, n), NEW b \in Item, enqueue(b)
  PROVE  \E x \in Node \ Allocated :
           \E p \in 1 .. n+1 :
             p = (IF Closed(q) THEN n ELSE n+1) /\ Spliced(s, q, n, p, x, b)
<1>1. /\ n = Len(q) /\ DOMAIN q = 1 .. n /\ n = size /\ n \in Nat
      /\ \A j, k \in 1 .. n : s[j] = s[k] => j = k
      /\ \A k \in 1 .. n : q[k] = Marker => k = n
      /\ Allocated = {s[k] : k \in 1 .. n}
      /\ \A k \in 1 .. n : node[s[k]] = Cell(s, q, k)
      /\ \A k \in 1 .. n : At(s, k) = s[k]
      /\ At(s, 0) = NULL /\ At(s, n+1) = NULL
      /\ head = At(s, 1) /\ tail = At(s, n)
  BY LinkedIs DEF Found
<1>2. /\ (head = NULL) <=> (n = 0)
      /\ head # NULL => head = s[1] /\ pid(head) = q[1] /\ tail = s[n] /\ pid(tail) = q[n]
      /\ Closed(q) <=> (n # 0 /\ q[n] = Marker)
  BY Closes
<1>x. PICK x \in Node \ Allocated :
        EnqueueFirst(b, x) \/ EnqueueBeforeLoneMarker(b, x)
          \/ EnqueueBeforeMarker(b, x) \/ EnqueueLast(b, x)
  BY DEF enqueue
<1>z. size' = n+1
  BY <1>1 DEF enqueue, Counted
<1>s. \A k \in 1 .. n : s[k] \in Allocated /\ s[k] # x
  BY <1>1, <1>x
<1>c. \A k \in 1 .. n : node[s[k]] = [data |-> q[k], next |-> At(s, k+1), prev |-> At(s, k-1)]
  BY <1>1 DEF Cell
<1>3. CASE EnqueueFirst(b, x)
  <2>1. n = 0 /\ ~Closed(q)
    BY <1>2, <1>3 DEF EnqueueFirst
  <2>2. node' = [m \in Allocated \cup {x} |->
                   IF m = x THEN [data |-> b, next |-> NULL, prev |-> NULL] ELSE node[m]]
    BY <1>3 DEF EnqueueFirst, New
  <2>3. node' = [a \in Allocated \cup {x} |-> node'[a]]
    BY <2>2
  <2>4. head' = x /\ tail' = x
    BY <1>3 DEF EnqueueFirst
  <2>5. node'[x] = [data |-> b, next |-> At(s, 1), prev |-> At(s, 1-1)]
    BY <2>1, <2>2, <1>1
  <2> QED
    BY <1>1, <1>x, <1>z, <2>1, <2>3, <2>4, <2>5 DEF Spliced
<1>4. CASE EnqueueBeforeLoneMarker(b, x)
  <2>1. n = 1 /\ Closed(q) /\ tail = s[1]
    <3>1. head # NULL /\ pid(head) = Marker
      BY <1>4 DEF EnqueueBeforeLoneMarker
    <3>2. n # 0 /\ q[1] = Marker /\ tail = s[n]
      BY <1>2, <3>1
    <3>3. 1 = n
      BY <1>1, <3>2
    <3> QED
      BY <1>2, <3>2, <3>3
  <2>f. PICK new : new = New(x, b, tail, NULL)
    OBVIOUS
  <2>2. new = [m \in Allocated \cup {x} |->
                 IF m = x THEN [data |-> b, next |-> tail, prev |-> NULL] ELSE node[m]]
    BY <2>f DEF New
  <2>3. node' = [new EXCEPT ![tail].prev = x] /\ head' = x /\ tail' = tail
    BY <1>4, <2>f DEF EnqueueBeforeLoneMarker
  <2>4. node' = [a \in Allocated \cup {x} |-> node'[a]]
    BY <2>2, <2>3
  <2>5. node'[x] = [data |-> b, next |-> s[1], prev |-> NULL]
    BY <1>s, <2>1, <2>2, <2>3
  <2>6. node'[s[1]] = [data |-> q[1], next |-> At(s, 2), prev |-> x]
    <3>1. new[s[1]] = [data |-> q[1], next |-> At(s, 1+1), prev |-> At(s, 1-1)]
      BY <1>c, <1>s, <2>1, <2>2
    <3> QED
      BY <1>s, <2>1, <2>2, <2>3, <3>1
  <2>7. \A k \in 1 .. n :
          node'[s[k]] = [data |-> q[k], next |-> IF k+1 = 1 THEN x ELSE At(s, k+1),
                         prev |-> IF k = 1 THEN x ELSE At(s, k-1)]
    <3> TAKE k \in 1 .. n
    <3>1. k = 1 /\ k+1 = 2
      BY <2>1
    <3> QED
      BY <2>6, <3>1
  <2>8. node'[x] = [data |-> b, next |-> At(s, 1), prev |-> At(s, 1-1)]
    BY <1>1, <2>1, <2>5
  <2>9. head' = x /\ tail' = At(s, n)
    BY <1>1, <2>1, <2>3
  <2> QED
    BY <1>x, <1>z, <2>1, <2>4, <2>7, <2>8, <2>9 DEF Spliced
<1>5. CASE EnqueueBeforeMarker(b, x)
  <2>1. n # 0 /\ q[1] # Marker /\ q[n] = Marker /\ tail = s[n] /\ Closed(q)
    BY <1>2, <1>5 DEF EnqueueBeforeMarker
  <2>2. n-1 \in 1 .. n /\ n \in 1 .. n /\ (n-1)+1 = n /\ n \in 1 .. n+1 /\ n # n-1
    BY <1>1, <2>1
  <2>p. node[tail].prev = s[n-1]
    <3>1. node[s[n]].prev = At(s, n-1)
      <4>1. node[s[n]] = [data |-> q[n], next |-> At(s, n+1), prev |-> At(s, n-1)]
        BY <1>c, <2>2
      <4> QED
        BY <4>1
    <3> QED
      BY <1>1, <2>1, <2>2, <3>1
  <2>f. PICK new : new = New(x, b, s[n], s[n-1])
    OBVIOUS
  <2>g. new = [m \in Allocated \cup {x} |->
                 IF m = x THEN [data |-> b, next |-> s[n], prev |-> s[n-1]] ELSE node[m]]
    BY <2>f DEF New
  <2>3. /\ node' = [new EXCEPT ![s[n-1]].next = x, ![s[n]].prev = x]
        /\ head' = head /\ tail' = tail
    BY <1>5, <2>1, <2>p, <2>f DEF EnqueueBeforeMarker
  <2>4. node' = [a \in Allocated \cup {x} |-> node'[a]]
    BY <2>g, <2>3
  <2>s. s[n-1] # s[n] /\ s[n] # x /\ s[n-1] # x
    BY <1>1, <1>s, <2>2
  <2>5. node'[x] = [data |-> b, next |-> At(s, n), prev |-> At(s, n-1)]
    <3>1. node'[x] = new[x]
      BY <2>g, <2>3, <2>s
    <3> QED
      BY <1>1, <2>2, <2>g, <3>1
  <2>6. \A k \in 1 .. n :
          node'[s[k]] = [data |-> q[k], next |-> IF k+1 = n THEN x ELSE At(s, k+1),
                         prev |-> IF k = n THEN x ELSE At(s, k-1)]
    <3> TAKE k \in 1 .. n
    <3>1. /\ new[s[k]] = [data |-> q[k], next |-> At(s, k+1), prev |-> At(s, k-1)]
          /\ s[k] \in DOMAIN new
      BY <1>c, <1>s, <2>g
    <3>2. CASE k = n
      <4>1. node'[s[k]] = [new[s[k]] EXCEPT !.prev = x]
        BY <2>3, <2>s, <3>1, <3>2
      <4>2. k+1 # n
        BY <3>2
      <4> QED
        BY <3>1, <3>2, <4>1, <4>2
    <3>3. CASE k = n-1
      <4>1. node'[s[k]] = [new[s[k]] EXCEPT !.next = x]
        BY <2>3, <2>s, <3>1, <3>3
      <4>2. k # n /\ k+1 = n
        BY <2>2, <3>3
      <4> QED
        BY <3>1, <4>1, <4>2
    <3>4. CASE k # n /\ k # n-1
      <4>1. s[k] # s[n] /\ s[k] # s[n-1]
        BY <1>1, <2>2, <3>4
      <4>2. node'[s[k]] = new[s[k]]
        BY <2>3, <3>1, <4>1
      <4>3. k+1 # n
        BY <1>1, <3>4
      <4> QED
        BY <3>1, <3>4, <4>2, <4>3
    <3> QED
      BY <3>2, <3>3, <3>4
  <2>7. head' = IF n = 1 THEN x ELSE At(s, 1)
    BY <1>1, <2>1, <2>3
  <2>8. tail' = IF n = n+1 THEN x ELSE At(s, n)
    BY <1>1, <2>3
  <2> QED
    BY <1>x, <1>z, <2>1, <2>2, <2>4, <2>5, <2>6, <2>7, <2>8 DEF Spliced
<1>6. CASE EnqueueLast(b, x)
  <2>1. n # 0 /\ q[n] # Marker /\ tail = s[n] /\ ~Closed(q)
    BY <1>2, <1>6 DEF EnqueueLast
  <2>2. n \in 1 .. n /\ n+1 \in 1 .. n+1 /\ n+1 # n /\ (n+1)-1 = n
    BY <1>1, <2>1
  <2>f. PICK new : new = New(x, b, NULL, s[n])
    OBVIOUS
  <2>g. new = [m \in Allocated \cup {x} |->
                 IF m = x THEN [data |-> b, next |-> NULL, prev |-> s[n]] ELSE node[m]]
    BY <2>f DEF New
  <2>3. node' = [new EXCEPT ![s[n]].next = x] /\ head' = head /\ tail' = x
    BY <1>6, <2>1, <2>f DEF EnqueueLast
  <2>4. node' = [a \in Allocated \cup {x} |-> node'[a]]
    BY <2>g, <2>3
  <2>5. node'[x] = [data |-> b, next |-> At(s, n+1), prev |-> At(s, (n+1)-1)]
    <3>1. node'[x] = new[x]
      BY <1>s, <2>2, <2>g, <2>3
    <3> QED
      BY <1>1, <2>2, <2>g, <3>1
  <2>6. \A k \in 1 .. n :
          node'[s[k]] = [data |-> q[k], next |-> IF k+1 = n+1 THEN x ELSE At(s, k+1),
                         prev |-> IF k = n+1 THEN x ELSE At(s, k-1)]
    <3> TAKE k \in 1 .. n
    <3>1. /\ new[s[k]] = [data |-> q[k], next |-> At(s, k+1), prev |-> At(s, k-1)]
          /\ s[k] \in DOMAIN new /\ k # n+1 /\ (k+1 = n+1 <=> k = n)
      BY <1>1, <1>c, <1>s, <2>g
    <3>2. CASE k = n
      <4>1. node'[s[k]] = [new[s[k]] EXCEPT !.next = x]
        BY <2>3, <3>1, <3>2
      <4> QED
        BY <3>1, <3>2, <4>1
    <3>3. CASE k # n
      <4>1. s[k] # s[n]
        BY <1>1, <2>2, <3>3
      <4>2. node'[s[k]] = new[s[k]]
        BY <2>3, <3>1, <4>1
      <4> QED
        BY <3>1, <3>3, <4>2
    <3> QED
      BY <3>2, <3>3
  <2>7. head' = IF n+1 = 1 THEN x ELSE At(s, 1)
    BY <1>1, <2>1, <2>3
  <2>8. tail' = IF n+1 = n+1 THEN x ELSE At(s, n)
    BY <2>3
  <2> QED
    BY <1>x, <1>z, <2>1, <2>2, <2>4, <2>5, <2>6, <2>7, <2>8 DEF Spliced
<1> QED
  BY <1>x, <1>3, <1>4, <1>5, <1>6

\* enqueue() puts an item in that is not there, and counts it.
LEMMA EnqueueKeeps ==
  ASSUME NEW s, NEW q, NEW n, Found(s, q, n), NEW b \in Item, enqueue(b)
  PROVE  /\ b \notin Items(q)
         /\ \E t : Linked(t, Enqueued(q, b))'
         /\ SumsTo(Enqueued(q, b), Lengths, queueLoad')
<1>1. n \in Nat /\ n = Len(q) /\ q \in Seq(Item) /\ OnceIn(q) /\ MarkerLast(q)
  BY DEF Found, Linked
<1>2. b \notin Items(q)
  BY Closes DEF enqueue
<1>3. Closed(q) => b \in Pid
  <2>1. CASE Closed(q)
    <3>1. n # 0 /\ q[n] = Marker
      BY <2>1, Closes
    <3>2. Marker \in Items(q)
      BY <1>1, <3>1, LenProperties DEF Items
    <3> QED
      BY <1>2, <3>2 DEF Item
  <2> QED
    BY <2>1
<1>4. PICK x \in Node \ Allocated :
           \E p \in 1 .. n+1 :
             p = (IF Closed(q) THEN n ELSE n+1) /\ Spliced(s, q, n, p, x, b)
  BY EnqueueSplice
<1>p. PICK p \in 1 .. n+1 :
        p = (IF Closed(q) THEN n ELSE n+1) /\ Spliced(s, q, n, p, x, b)
  BY <1>4
<1>w. PICK w : w = Enqueued(q, b)
  OBVIOUS
<1>5. w \in Seq(Item) /\ MarkerLast(w)
  <2>1. CASE b \in Pid
    BY <1>1, <1>w, <2>1, EnqueuedKeeps
  <2>2. CASE b \notin Pid
    <3>1. b = Marker /\ ~Closed(q)
      BY <1>3, <2>2 DEF Item
    <3> QED
      BY <1>1, <1>w, <3>1, MarkerCloses
  <2> QED
    BY <2>1, <2>2
<1>6. OnceIn(w)
  BY <1>1, <1>2, <1>3, <1>w, EnqueuedOnce
<1>7. Inserted(q, w, p, b)
  <2>1. CASE Closed(q)
    <3>1. n # 0 /\ q[n] = Marker /\ p = n
      BY <2>1, <1>p, Closes
    <3>2. /\ Enqueued(q, b) \in Seq(Item)
          /\ Len(Enqueued(q, b)) = Len(q) + 1
          /\ \A k \in 1 .. Len(q)-1 : Enqueued(q, b)[k] = q[k]
          /\ Enqueued(q, b)[Len(q)] = b
          /\ Enqueued(q, b)[Len(q) + 1] = Marker
      BY <1>1, <1>3, <2>1, EnqueuedClosed
    <3> QED
      BY <1>1, <1>w, <3>1, <3>2 DEF Inserted
  <2>2. CASE ~Closed(q)
    <3>1. p = n+1
      BY <2>2, <1>p
    <3>2. /\ Enqueued(q, b) \in Seq(Item)
          /\ Len(Enqueued(q, b)) = Len(q) + 1
          /\ \A k \in 1 .. Len(q) : Enqueued(q, b)[k] = q[k]
          /\ Enqueued(q, b)[Len(q) + 1] = b
      BY <1>1, <2>2, EnqueuedOpen
    <3> QED
      BY <1>1, <1>w, <3>1, <3>2 DEF Inserted
  <2> QED
    BY <2>1, <2>2
<1>8. \E t : Linked(t, w)'
  <2>1. x \in Node /\ x \notin Allocated /\ Linked(s, q)
    BY <1>4 DEF Found
  <2> QED
    BY <1>1, <1>p, <1>5, <1>6, <1>7, <2>1, LinkedInsert
<1>9. SumsTo(w, Lengths, queueLoad')
  <2>1. SumsTo(w, Lengths, queueLoad + Weight(Lengths, b))
    BY <1>1, <1>3, <1>w, LengthsType, SumsEnqueued DEF Found
  <2>2. queueLoad' = queueLoad + Weight(Lengths, b)
    BY WeightIs DEF enqueue, Counted
  <2> QED
    BY <2>1, <2>2
<1> QED
  BY <1>w, <1>2, <1>8, <1>9

-------------------------------------------------------------------------------
(* The calls that take a burst *)

\* Freeing the p-th node, whatever pointers were set before.
LEMMA RemoveKeeps ==
  ASSUME NEW s, NEW q, NEW n, Found(s, q, n), NEW p \in 1 .. n,
         NEW new, new = [a \in Allocated |-> new[a]],
         \A k \in 1 .. n : k # p =>
           new[s[k]] = [data |-> q[k],
                        next |-> IF k+1 = p THEN At(s, p+1) ELSE At(s, k+1),
                        prev |-> IF k-1 = p THEN At(s, p-1) ELSE At(s, k-1)],
         node' = Free(new, s[p]), Uncounted(s[p]),
         head' = IF p = 1 THEN At(s, 2) ELSE At(s, 1),
         tail' = IF p = n THEN At(s, n-1) ELSE At(s, n)
  PROVE  /\ \E t : Linked(t, Without(q, p))'
         /\ SumsTo(Without(q, p), Lengths, queueLoad')
<1>1. /\ n = Len(q) /\ n \in Nat /\ n = size /\ DOMAIN q = 1 .. n
      /\ \A k \in 1 .. n : q[k] \in Item
      /\ \A j, k \in 1 .. n : s[j] = s[k] => j = k
      /\ Allocated = {s[k] : k \in 1 .. n}
      /\ \A k \in 1 .. n : node[s[k]] = Cell(s, q, k)
  BY LinkedIs DEF Found
<1>2. q \in Seq(Item) /\ Linked(s, q) /\ SumsTo(q, Lengths, queueLoad)
  BY DEF Found, Linked
<1>3. node' = [a \in Allocated \ {s[p]} |-> new[a]]
  <2>1. DOMAIN new = Allocated
    OBVIOUS
  <2> QED
    BY <2>1 DEF Free
<1>4. node' = [a \in Allocated \ {s[p]} |-> node'[a]]
  BY <1>3
<1>5. \A k \in 1 .. n : k # p =>
           node'[s[k]] = [data |-> q[k],
                          next |-> IF k+1 = p THEN At(s, p+1) ELSE At(s, k+1),
                          prev |-> IF k-1 = p THEN At(s, p-1) ELSE At(s, k-1)]
  <2> SUFFICES ASSUME NEW k \in 1 .. n, k # p
               PROVE  node'[s[k]] = new[s[k]]
    OBVIOUS
  <2>1. s[k] \in Allocated \ {s[p]}
    BY <1>1
  <2> QED
    BY <1>3, <2>1
<1>6. size' = n-1 /\ queueLoad' = queueLoad - Weight(Lengths, q[p])
  <2>1. pid(s[p]) = q[p]
    BY <1>1, CellIs DEF pid
  <2> QED
    BY <1>1, <2>1, WeightIs DEF Uncounted
<1>7. \E t : Linked(t, Without(q, p))'
  BY <1>1, <1>2, <1>4, <1>5, <1>6, LinkedRemove
<1>8. SumsTo(Without(q, p), Lengths, queueLoad - Weight(Lengths, q[p]))
  BY <1>1, <1>2, LengthsType, SumsWithout
<1> QED
  BY <1>6, <1>7, <1>8

\* removeHead(), with one node or with more.
LEMMA RemoveHeadKeeps ==
  ASSUME NEW s, NEW q, NEW n, Found(s, q, n), head # NULL, RemoveHead
  PROVE  /\ n # 0 /\ head = s[1]
         /\ \E t : Linked(t, Without(q, 1))'
         /\ SumsTo(Without(q, 1), Lengths, queueLoad')
<1>1. /\ n = Len(q) /\ n \in Nat
      /\ node = [a \in Allocated |-> node[a]]
      /\ \A k \in 1 .. n : s[k] \in Node /\ s[k] # NULL
      /\ \A j, k \in 1 .. n : s[j] = s[k] => j = k
      /\ Allocated = {s[k] : k \in 1 .. n}
      /\ \A k \in 1 .. n : node[s[k]] = Cell(s, q, k)
      /\ \A k \in 1 .. n : At(s, k) = s[k]
      /\ At(s, 0) = NULL /\ At(s, n+1) = NULL
      /\ head = At(s, 1) /\ tail = At(s, n)
  BY LinkedIs DEF Found
<1>2. n # 0 /\ head = s[1]
  BY Closes
<1>c. \A k \in 1 .. n : node[s[k]] = [data |-> q[k], next |-> At(s, k+1), prev |-> At(s, k-1)]
  BY <1>1 DEF Cell
<1>3. 1 \in 1 .. n
  BY <1>1, <1>2
<1>4. PICK second : second = node[s[1]].next /\ second = At(s, 2)
  <2>1. node[s[1]] = [data |-> q[1], next |-> At(s, 1+1), prev |-> At(s, 1-1)]
    BY <1>c, <1>3
  <2> QED
    BY <2>1
<1>5. PICK new : new = IF second = NULL THEN node ELSE [node EXCEPT ![second].prev = NULL]
  OBVIOUS
<1>6. /\ head' = second
      /\ tail' = IF second = NULL THEN NULL ELSE tail
      /\ node' = Free(new, s[1])
      /\ Uncounted(s[1])
  BY <1>2, <1>4, <1>5 DEF RemoveHead
<1>7. new = [a \in Allocated |-> new[a]]
  BY <1>1, <1>5
<1>8. (second = NULL <=> n = 1) /\ (n # 1 => 2 \in 1 .. n /\ second = s[2])
  <2>1. CASE n = 1
    BY <2>1, <1>1, <1>4
  <2>2. CASE n # 1
    <3>1. 2 \in 1 .. n
      BY <2>2, <1>1, <1>2
    <3> QED
      BY <3>1, <2>2, <1>1, <1>4
  <2> QED
    BY <2>1, <2>2
<1>9. \A k \in 1 .. n : k # 1 =>
           new[s[k]] = [data |-> q[k],
                        next |-> IF k+1 = 1 THEN At(s, 1+1) ELSE At(s, k+1),
                        prev |-> IF k-1 = 1 THEN At(s, 1-1) ELSE At(s, k-1)]
  <2> TAKE k \in 1 .. n
  <2> HAVE k # 1
  <2>1. n # 1 /\ k+1 # 1 /\ 2 \in 1 .. n /\ second = s[2] /\ second # NULL
    BY <1>1, <1>8
  <2>2. node[s[k]] = [data |-> q[k], next |-> At(s, k+1), prev |-> At(s, k-1)]
    BY <1>c
  <2>3. s[k] \in DOMAIN node
    BY <1>1 DEF Allocated
  <2>4. new = [node EXCEPT ![s[2]].prev = NULL]
    BY <1>5, <2>1
  <2>5. CASE k = 2
    <3>1. new[s[k]] = [node[s[k]] EXCEPT !.prev = NULL]
      BY <2>3, <2>4, <2>5
    <3>2. k-1 = 1 /\ At(s, 1-1) = NULL /\ k+1 # 1
      BY <1>1, <2>1, <2>5
    <3> QED
      BY <2>2, <3>1, <3>2
  <2>6. CASE k # 2
    <3>1. s[k] # s[2]
      BY <1>1, <2>1, <2>6
    <3>2. new[s[k]] = node[s[k]]
      BY <2>3, <2>4, <3>1
    <3>3. k-1 # 1
      BY <2>6
    <3> QED
      BY <2>1, <2>2, <3>2, <3>3
  <2> QED
    BY <2>5, <2>6
<1>10. head' = IF 1 = 1 THEN At(s, 2) ELSE At(s, 1)
  BY <1>4, <1>6
<1>11. tail' = IF 1 = n THEN At(s, n-1) ELSE At(s, n)
  <2>1. CASE n = 1
    <3>1. n-1 = 0
      BY <2>1
    <3> QED
      BY <2>1, <1>1, <1>6, <1>8, <3>1
  <2>2. CASE n # 1
    BY <2>2, <1>1, <1>6, <1>8
  <2> QED
    BY <2>1, <2>2
<1>12. /\ \E t : Linked(t, Without(q, 1))'
       /\ SumsTo(Without(q, 1), Lengths, queueLoad')
  BY <1>2, <1>3, <1>6, <1>7, <1>9, <1>10, <1>11, RemoveKeeps
<1> QED
  BY <1>2, <1>12

\* Taking out a node m behind the head.
RemoveInner(m) ==
  LET before == node[m].prev
      after  == node[m].next
  IN  /\ head' = head
      /\ tail' = IF after = NULL THEN before ELSE tail
      /\ node' = Free(IF after = NULL
                        THEN [node EXCEPT ![before].next = NULL]
                        ELSE [node EXCEPT ![before].next = after,
                                          ![after].prev = before], m)
      /\ Uncounted(m)

\* It joins the nodes before and behind, or cuts the last one off.
LEMMA RemoveInnerKeeps ==
  ASSUME NEW s, NEW q, NEW n, Found(s, q, n), NEW p \in 2 .. n,
         RemoveInner(s[p])
  PROVE  /\ \E t : Linked(t, Without(q, p))'
         /\ SumsTo(Without(q, p), Lengths, queueLoad')
<1>1. /\ n = Len(q) /\ n \in Nat
      /\ node = [a \in Allocated |-> node[a]]
      /\ \A k \in 1 .. n : s[k] \in Node /\ s[k] # NULL
      /\ \A j, k \in 1 .. n : s[j] = s[k] => j = k
      /\ Allocated = {s[k] : k \in 1 .. n}
      /\ \A k \in 1 .. n : node[s[k]] = Cell(s, q, k)
      /\ \A k \in 1 .. n : At(s, k) = s[k]
      /\ At(s, n+1) = NULL
      /\ head = At(s, 1) /\ tail = At(s, n)
  BY LinkedIs DEF Found
<1>c. \A k \in 1 .. n : node[s[k]] = [data |-> q[k], next |-> At(s, k+1), prev |-> At(s, k-1)]
  BY <1>1 DEF Cell
<1>2. p \in 1 .. n /\ p-1 \in 1 .. n /\ p # 1 /\ p-1 # p /\ (p-1)+1 = p
  BY <1>1
<1>b. PICK before : before = node[s[p]].prev
  OBVIOUS
<1>a. PICK after : after = node[s[p]].next
  OBVIOUS
<1>3. before = s[p-1] /\ after = At(s, p+1)
  <2>1. node[s[p]] = [data |-> q[p], next |-> At(s, p+1), prev |-> At(s, p-1)]
    BY <1>c, <1>2
  <2>2. At(s, p-1) = s[p-1]
    BY <1>1, <1>2
  <2> QED
    BY <1>a, <1>b, <2>1, <2>2
<1>4. (after = NULL <=> p = n) /\ (p # n => p+1 \in 1 .. n /\ after = s[p+1])
  <2>1. CASE p = n
    BY <2>1, <1>1, <1>3
  <2>2. CASE p # n
    <3>1. p+1 \in 1 .. n
      BY <2>2, <1>1
    <3> QED
      BY <3>1, <2>2, <1>1, <1>3
  <2> QED
    BY <2>1, <2>2
<1>5. PICK new : new = IF after = NULL
                         THEN [node EXCEPT ![before].next = NULL]
                         ELSE [node EXCEPT ![before].next = after, ![after].prev = before]
  OBVIOUS
<1>d. /\ head' = head /\ tail' = IF after = NULL THEN before ELSE tail
      /\ node' = Free(new, s[p]) /\ Uncounted(s[p])
  BY <1>a, <1>b, <1>5 DEF RemoveInner
<1>6. new = [a \in Allocated |-> new[a]]
  BY <1>1, <1>5
<1>s. \A k \in 1 .. n : s[k] \in DOMAIN node
  BY <1>1 DEF Allocated
<1>7. \A k \in 1 .. n : k # p =>
           new[s[k]] = [data |-> q[k],
                        next |-> IF k+1 = p THEN At(s, p+1) ELSE At(s, k+1),
                        prev |-> IF k-1 = p THEN At(s, p-1) ELSE At(s, k-1)]
  <2> TAKE k \in 1 .. n
  <2> HAVE k # p
  <2>1. node[s[k]] = [data |-> q[k], next |-> At(s, k+1), prev |-> At(s, k-1)]
    BY <1>c
  <2>2. s[k] \in DOMAIN node
    BY <1>s
  <2>3. (k+1 = p <=> k = p-1) /\ (k-1 = p <=> k = p+1)
    OBVIOUS
  <2>4. CASE k = p-1
    <3>1. s[k] = before /\ k-1 # p /\ k+1 = p
      BY <2>4, <1>3
    <3>2. new[s[k]] = [node[s[k]] EXCEPT !.next = after]
      <4>1. CASE after = NULL
        BY <2>2, <3>1, <1>5, <4>1
      <4>2. CASE after # NULL
        <5>1. p+1 \in 1 .. n /\ after = s[p+1] /\ p+1 # p-1
          BY <4>2, <1>4
        <5>2. after # before
          BY <1>1, <1>2, <1>3, <5>1
        <5>3. new = [node EXCEPT ![before].next = after, ![after].prev = before]
          BY <4>2, <1>5
        <5> QED
          BY <2>2, <3>1, <5>2, <5>3
      <4> QED
        BY <4>1, <4>2
    <3> QED
      BY <2>1, <3>1, <3>2, <1>3
  <2>5. CASE k = p+1
    <3>1. p # n /\ k-1 = p /\ k+1 # p
      BY <2>5, <1>1
    <3>2. after # NULL /\ after = s[k] /\ before = At(s, p-1)
      BY <2>5, <3>1, <1>1, <1>2, <1>3, <1>4
    <3>3. after # before
      <4>1. p-1 # k
        BY <2>5
      <4> QED
        BY <1>1, <1>2, <1>3, <3>2, <4>1
    <3>4. new[s[k]] = [node[s[k]] EXCEPT !.prev = before]
      <4>1. new = [node EXCEPT ![before].next = after, ![after].prev = before]
        BY <3>2, <1>5
      <4> QED
        BY <2>2, <3>2, <3>3, <4>1
    <3> QED
      BY <2>1, <3>1, <3>2, <3>4
  <2>6. CASE k # p-1 /\ k # p+1
    <3>1. s[k] # before
      BY <2>6, <1>1, <1>2, <1>3
    <3>2. after # NULL => s[k] # after
      <4>1. after # NULL => p+1 \in 1 .. n /\ after = s[p+1]
        BY <1>4
      <4> QED
        BY <2>6, <1>1, <4>1
    <3>3. new[s[k]] = node[s[k]]
      <4>1. CASE after = NULL
        BY <2>2, <3>1, <1>5, <4>1
      <4>2. CASE after # NULL
        <5>1. new = [node EXCEPT ![before].next = after, ![after].prev = before]
          BY <4>2, <1>5
        <5> QED
          BY <2>2, <3>1, <3>2, <4>2, <5>1
      <4> QED
        BY <4>1, <4>2
    <3> QED
      BY <2>1, <2>3, <2>6, <3>3
  <2> QED
    BY <2>4, <2>5, <2>6
<1>8. head' = IF p = 1 THEN At(s, 2) ELSE At(s, 1)
  BY <1>1, <1>2, <1>d
<1>9. tail' = IF p = n THEN At(s, n-1) ELSE At(s, n)
  <2>1. CASE p = n
    BY <2>1, <1>1, <1>2, <1>3, <1>4, <1>d
  <2>2. CASE p # n
    BY <2>2, <1>1, <1>4, <1>d
  <2> QED
    BY <2>1, <2>2
<1> QED
  BY <1>2, <1>d, <1>6, <1>7, <1>8, <1>9, RemoveKeeps

\* dequeue() takes the first item, be it a burst or the marker.
LEMMA DequeueKeeps ==
  ASSUME NEW s, NEW q, NEW n, Found(s, q, n), dequeue
  PROVE  /\ n # 0
         /\ \E t : Linked(t, Without(q, 1))'
         /\ SumsTo(Without(q, 1), Lengths, queueLoad')
BY RemoveHeadKeeps DEF dequeue

\* dequeue_at() takes one item, wherever it is.
LEMMA DequeueAtKeeps ==
  ASSUME NEW s, NEW q, NEW n, Found(s, q, n), NEW b, dequeue_at(b)
  PROVE  \E p \in 1 .. n :
           /\ \E t : Linked(t, Without(q, p))'
           /\ SumsTo(Without(q, p), Lengths, queueLoad')
<1>1. /\ n = Len(q) /\ n \in Nat
      /\ \A j, k \in 1 .. n : s[j] = s[k] => j = k
      /\ Allocated = {s[k] : k \in 1 .. n}
      /\ \A k \in 1 .. n : node[s[k]] = Cell(s, q, k)
      /\ \A k \in 1 .. n : At(s, k) = s[k]
      /\ head = At(s, 1) /\ (n = 0 <=> head = NULL)
  BY LinkedIs DEF Found
<1>2. PICK m \in Allocated :
        /\ pid(m) = b
        /\ IF m = head THEN RemoveHead ELSE RemoveInner(m)
  BY DEF dequeue_at, RemoveInner
<1>3. PICK p \in 1 .. n : m = s[p]
  BY <1>1, <1>2
<1>5. n # 0 /\ 1 \in 1 .. n /\ head # NULL /\ head = s[1] /\ pid(head) = q[1]
  <2>1. n # 0 /\ 1 \in 1 .. n
    BY <1>1
  <2> QED
    BY <1>1, <2>1, Closes
<1>6. CASE p = 1
  <2>1. RemoveHead
    BY <1>2, <1>3, <1>5, <1>6
  <2>2. /\ \E t : Linked(t, Without(q, 1))'
        /\ SumsTo(Without(q, 1), Lengths, queueLoad')
    BY <1>5, <2>1, RemoveHeadKeeps
  <2> QED
    BY <1>6, <2>2
<1>7. CASE p # 1
  <2>1. m # head
    BY <1>1, <1>3, <1>5, <1>7
  <2>2. p \in 2 .. n
    BY <1>1, <1>7
  <2>3. RemoveInner(s[p])
    BY <1>2, <1>3, <2>1
  <2> QED
    BY <2>2, <2>3, RemoveInnerKeeps
<1> QED
  BY <1>6, <1>7

-------------------------------------------------------------------------------
(* The order in which sort() takes the pairs *)

\* What a division by n says; a divisor that is no numeral is beyond the provers,
\* who need QuotientUnique.
LEMMA Quotient ==
  ASSUME NEW v \in Nat, NEW n \in Nat \ {0}
  PROVE  /\ v \div n \in Nat /\ v % n \in 0 .. n-1
         /\ v = n * (v \div n) + (v % n)
OBVIOUS

\* The multiples of n are n apart.
LEMMA Multiples ==
  ASSUME NEW n \in Nat, NEW c \in Nat, NEW a \in Nat, a < c
  PROVE  n * a + n <= n * c
<1>1. PICK k \in Nat : c = a + 1 + k
  <2>1. c - a - 1 \in Nat /\ c = a + 1 + (c - a - 1)
    OBVIOUS
  <2> QED
    BY <2>1
<1>2. n * c = n * a + n + n * k
  BY <1>1
<1>3. n * k \in Nat /\ n * a \in Nat
  OBVIOUS
<1> QED
  BY <1>2, <1>3

\* A number has one quotient and one remainder.
LEMMA QuotientUnique ==
  ASSUME NEW n \in Nat \ {0}, NEW v \in Nat, NEW a \in Nat, NEW b \in 0 .. n-1,
         v = n * a + b
  PROVE  v \div n = a /\ v % n = b
<1>1. PICK c \in Nat, d \in 0 .. n-1 : c = v \div n /\ d = v % n /\ n * a + b = n * c + d
  BY Quotient
<1>2. n * a \in Nat /\ n * c \in Nat
  OBVIOUS
<1>3. ~(a < c)
  <2> SUFFICES ASSUME a < c PROVE FALSE
    OBVIOUS
  <2>1. n * a + n <= n * c
    BY Multiples
  <2> QED
    BY <1>1, <1>2, <2>1
<1>4. ~(c < a)
  <2> SUFFICES ASSUME c < a PROVE FALSE
    OBVIOUS
  <2>1. n * c + n <= n * a
    BY Multiples
  <2> QED
    BY <1>1, <1>2, <2>1
<1>5. a = c
  BY <1>3, <1>4
<1> QED
  BY <1>1, <1>2, <1>5

\* After a pair comes the next one of its row, or the first one of the next row.
LEMMA NextPair ==
  ASSUME NEW n \in Nat \ {0}, NEW p \in Nat
  PROVE  IF (p % n) + 1 < n
           THEN (p+1) \div n = p \div n /\ (p+1) % n = (p % n) + 1
           ELSE (p+1) \div n = (p \div n) + 1 /\ (p+1) % n = 0 /\ p % n = n-1
<1>1. PICK a \in Nat, b \in 0 .. n-1 : a = p \div n /\ b = p % n /\ p = n * a + b
  BY Quotient
<1>2. n * a \in Nat
  OBVIOUS
<1>3. CASE b + 1 < n
  <2>1. b+1 \in 0 .. n-1 /\ p+1 \in Nat /\ p+1 = n * a + (b+1)
    BY <1>1, <1>2, <1>3
  <2>2. (p+1) \div n = a /\ (p+1) % n = b+1
    BY <2>1, QuotientUnique, Zenon
  <2> QED
    BY <1>1, <1>3, <2>2
<1>4. CASE ~(b + 1 < n)
  <2>1. b = n-1
    BY <1>4
  <2>2. n * (a+1) = n * a + n
    OBVIOUS
  <2>3. p+1 = n * (a+1) + 0 /\ p+1 \in Nat /\ a+1 \in Nat /\ 0 \in 0 .. n-1
    BY <1>1, <1>2, <2>1, <2>2
  <2>4. (p+1) \div n = a+1 /\ (p+1) % n = 0
    BY <2>3, QuotientUnique, Zenon
  <2> QED
    BY <1>1, <1>4, <2>1, <2>4
<1> QED
  BY <1>1, <1>3, <1>4

\* n rows of n pairs each.
LEMMA AllPairs ==
  ASSUME NEW n \in Nat \ {0}
  PROVE  /\ n * n \in Nat
         /\ 0 \div n = 0 /\ 0 % n = 0
         /\ (n * n) \div n = n
         /\ \A p \in 0 .. n * n : p < n * n => p \div n < n
<1>1. n * n \in Nat /\ n * n = n * n + 0
  OBVIOUS
<1>2. (n * n) \div n = n
  BY <1>1, QuotientUnique
<1>3. 0 = n * 0 + 0
  OBVIOUS
<1>4. 0 \div n = 0 /\ 0 % n = 0
  BY <1>3, QuotientUnique
<1>5. ASSUME NEW p \in 0 .. n * n, p < n * n PROVE p \div n < n
  <2>1. PICK a \in Nat, b \in 0 .. n-1 : a = p \div n /\ p = n * a + b
    BY <1>1, Quotient
  <2>2. n * a \in Nat
    OBVIOUS
  <2>3. CASE n < a
    <3>1. n * n + n <= n * a
      BY <2>3, Multiples
    <3> QED
      BY <1>1, <1>5, <2>1, <2>2, <3>1
  <2>4. CASE n = a
    <3>1. n * a = n * n
      BY <2>4
    <3> QED
      BY <1>1, <1>5, <2>1, <3>1
  <2> QED
    BY <2>1, <2>3, <2>4
<1> QED
  BY <1>1, <1>2, <1>4, <1>5

-------------------------------------------------------------------------------
(* One comparison *)

\* w is q with items i and j exchanged.
Swapped(q, w, i, j) ==
  w = [k \in DOMAIN q |-> IF k = i THEN q[j] ELSE IF k = j THEN q[i] ELSE q[k]]

\* An exchange of two items leaves the sum of the lengths as it is.
LEMMA SumsSwapped ==
  ASSUME NEW length \in [Pid -> Nat], NEW n \in Nat,
         NEW q \in [1 .. n -> Item], NEW w \in [1 .. n -> Item],
         NEW i \in 1 .. n, NEW j \in 1 .. n, i < j, Swapped(q, w, i, j),
         NEW x, SumsTo(q, length, x)
  PROVE  SumsTo(w, length, x)
<1>0. Len(q) = n /\ Len(w) = n
  <2>1. q \in Seq(Item) /\ w \in Seq(Item)
    OBVIOUS
  <2> QED
    BY <2>1, LenProperties
<1>1. PICK s : Loads(s, q, length) /\ x = s[n]
  BY <1>0 DEF SumsTo
<1>2. /\ s \in [0 .. n -> Int] /\ s[0] = 0
      /\ \A k \in 1 .. n : s[k] = s[k-1] + Weight(length, q[k])
  BY <1>0, <1>1 DEF Loads
<1>3. \A k \in 1 .. n : Weight(length, q[k]) \in Int
  <2> TAKE k \in 1 .. n
  <2>1. q[k] \in Item
    OBVIOUS
  <2> QED
    BY <2>1, WeightType
<1>4. PICK wi \in Int, wj \in Int : wi = Weight(length, q[i]) /\ wj = Weight(length, q[j])
  BY <1>3
<1>5. /\ w[i] = q[j] /\ w[j] = q[i]
      /\ \A k \in 1 .. n : k # i /\ k # j => w[k] = q[k]
  BY DEF Swapped
<1>t. PICK t : t = [k \in 0 .. n |-> IF i <= k /\ k < j THEN s[k] + (wj - wi) ELSE s[k]]
  OBVIOUS
<1>6. t \in [0 .. n -> Int]
  <2>1. wj - wi \in Int
    OBVIOUS
  <2>2. ASSUME NEW k \in 0 .. n PROVE t[k] \in Int
    <3>1. PICK y \in Int : y = s[k]
      BY <1>2
    <3>2. t[k] = y \/ t[k] = y + (wj - wi)
      BY <1>t, <3>1
    <3> QED
      BY <2>1, <3>2
  <2> QED
    BY <1>t, <2>2
<1>7. t[0] = 0 /\ t[n] = s[n]
  <2>1. 0 \in 0 .. n /\ n \in 0 .. n /\ ~(i <= 0) /\ ~(n < j)
    OBVIOUS
  <2> QED
    BY <1>2, <1>t, <2>1
<1>8. ASSUME NEW k \in 1 .. n PROVE t[k] = t[k-1] + Weight(length, w[k])
  <2>1. /\ k \in 0 .. n /\ k-1 \in 0 .. n /\ s[k] \in Int /\ s[k-1] \in Int
        /\ s[k] = s[k-1] + Weight(length, q[k])
    BY <1>2
  <2>2. /\ t[k] = IF i <= k /\ k < j THEN s[k] + (wj - wi) ELSE s[k]
        /\ t[k-1] = IF i <= k-1 /\ k-1 < j THEN s[k-1] + (wj - wi) ELSE s[k-1]
    BY <1>t, <2>1
  <2>3. CASE k = i
    <3>1. i <= k /\ k < j /\ ~(i <= k-1) /\ Weight(length, w[k]) = wj
      BY <2>3, <1>4, <1>5
    <3> QED
      BY <2>1, <2>2, <2>3, <3>1, <1>4
  <2>4. CASE k = j
    <3>1. ~(k < j) /\ i <= k-1 /\ k-1 < j /\ Weight(length, w[k]) = wi
      BY <2>4, <1>4, <1>5
    <3> QED
      BY <2>1, <2>2, <2>4, <3>1, <1>4
  <2>5. CASE k # i /\ k # j
    <3>1. w[k] = q[k] /\ ((i <= k /\ k < j) <=> (i <= k-1 /\ k-1 < j))
      BY <2>5, <1>5
    <3>2. PICK v \in Int : v = Weight(length, q[k])
      BY <1>3
    <3> QED
      BY <2>1, <2>2, <3>1, <3>2
  <2> QED
    BY <2>3, <2>4, <2>5
<1>9. Loads(t, w, length)
  BY <1>0, <1>6, <1>7, <1>8 DEF Loads
<1> QED
  BY <1>0, <1>1, <1>7, <1>9 DEF SumsTo

\* What sort() has done after p of its n * n comparisons: a holds q's items, and
\* of every pair that it has compared the smaller one is in front.
Done(n, p, k, l) == k <= p \div n \/ (k = (p \div n) + 1 /\ l <= p % n)

SortedSoFar(a, q, n, p) ==
  /\ a \in [1 .. n -> Item]
  /\ OnceIn(a) /\ Items(a) = Items(q)
  /\ \A x : SumsTo(q, Lengths, x) => SumsTo(a, Lengths, x)
  /\ \A k, l \in 1 .. n : k < l /\ Done(n, p, k, l) => a[k] < a[l]

\* Comparison p+1 makes one more pair right and spoils none.
LEMMA ExchangeKeeps ==
  ASSUME NEW n \in Nat \ {0}, NEW p \in 0 .. n * n, p < n * n,
         NEW q, NEW a, SortedSoFar(a, q, n, p)
  PROVE  SortedSoFar(Exchanged(a, (p \div n) + 1, (p % n) + 1), q, n, p+1)
<1>n. n * n \in Nat /\ p \in Nat
  BY AllPairs
<1>r. PICK r \in 0 .. n-1 : r = p \div n
  <2>1. p \div n \in Nat
    BY <1>n, Quotient
  <2>2. p \div n < n
    BY AllPairs
  <2> QED
    BY <2>1, <2>2
<1>m. PICK m \in 0 .. n-1 : m = p % n
  BY <1>n, Quotient
<1>i. PICK i \in 1 .. n : i = r+1
  OBVIOUS
<1>j. PICK j \in 1 .. n : j = m+1
  OBVIOUS
<1>1. /\ a \in [1 .. n -> Item] /\ DOMAIN a = 1 .. n
      /\ \A k \in 1 .. n : a[k] \in Int
      /\ \A k, l \in 1 .. n : a[k] = a[l] => k = l
      /\ Items(a) = Items(q)
      /\ \A x : SumsTo(q, Lengths, x) => SumsTo(a, Lengths, x)
  <2>1. Item \subseteq Int
    BY PidAssumption DEF Item, Marker
  <2>2. a \in [1 .. n -> Item] /\ DOMAIN a = 1 .. n
    BY DEF SortedSoFar
  <2> QED
    BY <2>1, <2>2 DEF SortedSoFar, OnceIn
<1>2. \A k, l \in 1 .. n : k < l /\ (k <= r \/ (k = i /\ l <= m)) => a[k] < a[l]
  BY <1>r, <1>m, <1>i DEF SortedSoFar, Done
\* Compared by now: the pairs compared before, and i with j.
<1>3. \A k, l \in 1 .. n : k < l /\ Done(n, p+1, k, l) =>
        \/ k < i
        \/ k = i /\ l <= j
  <2> TAKE k, l \in 1 .. n
  <2> HAVE k < l /\ Done(n, p+1, k, l)
  <2>1. CASE m + 1 < n
    <3>1. (p+1) \div n = r /\ (p+1) % n = m+1
      BY <1>n, <1>r, <1>m, <2>1, NextPair
    <3> QED
      BY <1>i, <1>j, <3>1 DEF Done
  <2>2. CASE ~(m + 1 < n)
    <3>1. (p+1) \div n = r+1 /\ (p+1) % n = 0 /\ m = n-1
      BY <1>n, <1>r, <1>m, <2>2, NextPair
    <3>2. k <= i
      BY <1>i, <3>1 DEF Done
    <3> QED
      BY <1>j, <3>1, <3>2
  <2> QED
    BY <2>1, <2>2
<1>w. PICK w : w = Exchanged(a, i, j)
  OBVIOUS
<1>4. CASE i < j /\ a[i] > a[j]
  <2>1. w = [a EXCEPT ![i] = a[j], ![j] = a[i]]
    BY <1>w, <1>4 DEF Exchanged
  <2>2. /\ DOMAIN w = 1 .. n /\ w[i] = a[j] /\ w[j] = a[i]
        /\ \A k \in 1 .. n : k # i /\ k # j => w[k] = a[k]
    BY <1>1, <1>4, <2>1
  <2>3. Swapped(a, w, i, j)
    <3>1. w = [k \in 1 .. n |-> w[k]]
      BY <1>1, <2>1
    <3> QED
      BY <1>1, <2>2, <3>1 DEF Swapped
  <2>4. w \in [1 .. n -> Item]
    <3>1. \A k \in 1 .. n : a[k] \in Item
      BY <1>1
    <3> QED
      BY <1>1, <2>3, <3>1 DEF Swapped
  <2> DEFINE from(k) == IF k = i THEN j ELSE IF k = j THEN i ELSE k
  <2>5. \A k \in 1 .. n : from(k) \in 1 .. n /\ w[k] = a[from(k)] /\ from(from(k)) = k
    BY <2>2
  <2>6. OnceIn(w)
    <3> SUFFICES ASSUME NEW k \in 1 .. n, NEW l \in 1 .. n, w[k] = w[l] PROVE k = l
      BY <2>2 DEF OnceIn
    <3>1. from(k) \in 1 .. n /\ from(l) \in 1 .. n /\ a[from(k)] = a[from(l)]
      BY <2>5
    <3>2. from(k) = from(l)
      <4> HIDE DEF from
      <4> QED
        BY <1>1, <3>1
    <3>3. from(from(k)) = k /\ from(from(l)) = l
      BY <2>5
    <3> HIDE DEF from
    <3> QED
      BY <3>2, <3>3
  <2>7. Items(w) = Items(a)
    <3>1. \A k \in 1 .. n : \E l \in 1 .. n : w[k] = a[l]
      BY <2>5
    <3>2. \A k \in 1 .. n : \E l \in 1 .. n : a[k] = w[l]
      <4> TAKE k \in 1 .. n
      <4>1. from(k) \in 1 .. n /\ w[from(k)] = a[from(from(k))] /\ from(from(k)) = k
        BY <2>5
      <4> HIDE DEF from
      <4> QED
        BY <4>1
    <3>3. DOMAIN a = 1 .. n /\ DOMAIN w = 1 .. n
      BY <1>1, <2>2
    <3>4. Items(w) \subseteq Items(a)
      BY <3>1, <3>3 DEF Items
    <3>5. Items(a) \subseteq Items(w)
      BY <3>2, <3>3 DEF Items
    <3> QED
      BY <3>4, <3>5
  <2>8. \A x : SumsTo(q, Lengths, x) => SumsTo(w, Lengths, x)
    <3> TAKE x
    <3> HAVE SumsTo(q, Lengths, x)
    <3>1. SumsTo(a, Lengths, x)
      BY <1>1
    <3> QED
      BY <1>1, <1>4, <2>3, <2>4, <3>1, LengthsType, SumsSwapped
  <2>9. \A k, l \in 1 .. n : k < l /\ Done(n, p+1, k, l) => w[k] < w[l]
    <3> TAKE k, l \in 1 .. n
    <3> HAVE k < l /\ Done(n, p+1, k, l)
    <3>1. CASE k < i
      <4>1. k # i /\ k # j /\ k <= r /\ w[k] = a[k]
        BY <1>4, <1>i, <2>2, <3>1
      <4>2. from(l) \in 1 .. n /\ w[l] = a[from(l)] /\ k < from(l)
        BY <1>4, <2>5, <3>1
      <4> HIDE DEF from
      <4> QED
        BY <1>2, <4>1, <4>2
    <3>2. CASE k = i /\ l = j
      BY <1>4, <2>2, <3>2
    <3>3. CASE k = i /\ l < j
      <4>1. l # i /\ l # j /\ l <= m /\ w[l] = a[l] /\ w[k] = a[j]
        BY <1>j, <2>2, <3>3
      <4>2. a[i] < a[l]
        BY <1>2, <3>3, <4>1
      <4>3. a[i] \in Int /\ a[j] \in Int /\ a[l] \in Int
        BY <1>1
      <4> QED
        BY <1>4, <4>1, <4>2, <4>3
    <3>4. k < i \/ (k = i /\ l <= j)
      BY <1>3
    <3> QED
      BY <3>1, <3>2, <3>3, <3>4
  <2> QED
    BY <1>1, <1>w, <1>r, <1>m, <1>i, <1>j, <2>4, <2>6, <2>7, <2>8, <2>9 DEF SortedSoFar
<1>5. CASE ~(i < j /\ a[i] > a[j])
  <2>1. w = a
    BY <1>w, <1>5 DEF Exchanged
  <2>2. \A k, l \in 1 .. n : k < l /\ Done(n, p+1, k, l) => a[k] < a[l]
    <3> TAKE k, l \in 1 .. n
    <3> HAVE k < l /\ Done(n, p+1, k, l)
    <3>1. CASE k < i
      <4>1. k <= r
        BY <1>i, <3>1
      <4> QED
        BY <1>2, <4>1
    <3>2. CASE k = i /\ l = j
      <4>1. a[i] \in Int /\ a[j] \in Int /\ a[i] # a[j]
        BY <1>1, <3>2
      <4> QED
        BY <1>5, <3>2, <4>1
    <3>3. CASE k = i /\ l < j
      <4>1. l <= m
        BY <1>j, <3>3
      <4> QED
        BY <1>2, <3>3, <4>1
    <3>4. k < i \/ (k = i /\ l <= j)
      BY <1>3
    <3> QED
      BY <3>1, <3>2, <3>3, <3>4
  <2>3. a \in [1 .. n -> Item] /\ OnceIn(a)
    BY DEF SortedSoFar
  <2> QED
    BY <1>1, <1>w, <1>r, <1>m, <1>i, <1>j, <2>1, <2>2, <2>3 DEF SortedSoFar
<1> QED
  BY <1>4, <1>5

\* sort() exchanges the items into ascending order, each pid once and none lost.
LEMMA SortSorts ==
  ASSUME NEW n \in Nat, n = size, NEW q \in [1 .. n -> Item], OnceIn(q)
  PROVE  /\ sorted(q) \in [1 .. n -> Item]
         /\ OnceIn(sorted(q)) /\ Items(sorted(q)) = Items(q)
         /\ \A x : SumsTo(q, Lengths, x) => SumsTo(sorted(q), Lengths, x)
         /\ \A k, l \in 1 .. n : k < l => sorted(q)[k] < sorted(q)[l]
<1>n. PICK nn \in Nat : nn = n * n /\ nn = size * size
  OBVIOUS
<1> DEFINE Turn(a, p) == Exchanged(a, ((p-1) \div n) + 1, ((p-1) % n) + 1)
           Ran(m, f) ==
             /\ f = [p \in 0 .. m |-> IF p = 0 THEN q ELSE Turn(f[p-1], p)]
             /\ \A p \in 0 .. m : n # 0 => SortedSoFar(f[p], q, n, p)
           Ok == {m \in 0 .. nn : \E f : Ran(m, f)}
<1>0. n # 0 => SortedSoFar(q, q, n, 0)
  <2> SUFFICES ASSUME n # 0 PROVE SortedSoFar(q, q, n, 0)
    OBVIOUS
  <2>1. 0 \div n = 0 /\ 0 % n = 0
    BY AllPairs
  <2> QED
    BY <2>1 DEF SortedSoFar, Done
<1>s. ASSUME NEW p \in 0 .. nn, p < nn, NEW a, n # 0, SortedSoFar(a, q, n, p)
      PROVE  SortedSoFar(Turn(a, p+1), q, n, p+1)
  <2>1. (p+1)-1 = p
    OBVIOUS
  <2> QED
    BY <1>n, <1>s, <2>1, ExchangeKeeps
<1> HIDE DEF Turn
<1>1. 0 \in Ok
  <2>1. Ran(0, [p \in 0 .. 0 |-> q])
    BY <1>0
  <2> HIDE DEF Ran
  <2> QED
    BY <2>1, <1>n
<1>2. ASSUME NEW m \in 0 .. nn, m < nn, m \in Ok
      PROVE  m+1 \in Ok
  <2>1. PICK f : Ran(m, f)
    BY <1>2
  <2>t. PICK t : t = [p \in 0 .. m+1 |-> IF p = m+1 THEN Turn(f[m], m+1) ELSE f[p]]
    OBVIOUS
  <2>2. \A p \in 0 .. m+1 : t[p] = IF p = 0 THEN q ELSE Turn(t[p-1], p)
    <3> TAKE p \in 0 .. m+1
    <3>1. CASE p = m+1
      <4>1. p-1 = m /\ m \in 0 .. m+1 /\ m # m+1 /\ p # 0
        BY <3>1
      <4> QED
        BY <2>t, <3>1, <4>1
    <3>2. CASE p # m+1
      <4>1. p \in 0 .. m
        BY <3>2
      <4>2. f[p] = IF p = 0 THEN q ELSE Turn(f[p-1], p)
        BY <2>1, <4>1
      <4>3. p # 0 => t[p-1] = f[p-1]
        BY <2>t, <4>1
      <4> QED
        BY <2>t, <3>2, <4>2, <4>3
    <3> QED
      BY <3>1, <3>2
  <2>3. \A p \in 0 .. m+1 : n # 0 => SortedSoFar(t[p], q, n, p)
    <3> TAKE p \in 0 .. m+1
    <3> HAVE n # 0
    <3>1. CASE p = m+1
      <4>1. SortedSoFar(f[m], q, n, m)
        BY <2>1
      <4>2. SortedSoFar(Turn(f[m], m+1), q, n, m+1)
        BY <1>2, <1>s, <4>1
      <4> QED
        BY <2>t, <3>1, <4>2
    <3>2. CASE p # m+1
      <4>1. p \in 0 .. m /\ t[p] = f[p]
        BY <2>t, <3>2
      <4> QED
        BY <2>1, <4>1
    <3> QED
      BY <3>1, <3>2
  <2>4. Ran(m+1, t)
    <3>1. t = [p \in 0 .. m+1 |-> t[p]]
      BY <2>t
    <3> QED
      BY <2>2, <2>3, <3>1
  <2> HIDE DEF Ran
  <2>5. m+1 \in 0 .. nn
    BY <1>2
  <2> QED
    BY <2>4, <2>5
<1>3. nn \in Ok
  <2> HIDE DEF Ok
  <2>1. \A m \in 0 .. nn : m \in Ok
    BY <1>1, <1>2, CountUp
  <2> QED
    BY <2>1
<1> DEFINE Follows(f) == f = [p \in 0 .. nn |-> IF p = 0 THEN q ELSE Turn(f[p-1], p)]
           pass == CHOOSE f : Follows(f)
<1>4. PICK f : Ran(nn, f)
  BY <1>3
<1>5. Follows(pass)
  BY <1>4
<1>6. sorted(q) = pass[nn]
  BY <1>n DEF sorted, Turn
<1>7. CASE n = 0
  <2>1. nn = 0
    BY <1>7, <1>n
  <2>2. pass[0] = q
    <3> HIDE DEF pass
    <3> QED
      BY <1>5, <2>1
  <2>3. sorted(q) = q
    BY <1>6, <2>1, <2>2
  <2> QED
    BY <2>3, <1>7
<1>8. CASE n # 0
  <2> HIDE DEF pass
  <2> DEFINE Fine == {p \in 0 .. nn : SortedSoFar(pass[p], q, n, p)}
  <2>0. \A p \in 0 .. nn : pass[p] = IF p = 0 THEN q ELSE Turn(pass[p-1], p)
    BY <1>5
  <2>1. 0 \in Fine
    BY <1>0, <1>8, <2>0
  <2>2. ASSUME NEW p \in 0 .. nn, p < nn, p \in Fine PROVE p+1 \in Fine
    <3>1. p+1 \in 0 .. nn /\ p+1 # 0 /\ (p+1)-1 = p
      BY <2>2
    <3>2. pass[p+1] = Turn(pass[p], p+1)
      BY <2>0, <3>1
    <3>3. SortedSoFar(Turn(pass[p], p+1), q, n, p+1)
      BY <1>s, <1>8, <2>2
    <3> QED
      BY <3>1, <3>2, <3>3
  <2>3. \A p \in 0 .. nn : p \in Fine
    <3> HIDE DEF Fine
    <3> QED
      BY <2>1, <2>2, CountUp
  <2>4. SortedSoFar(sorted(q), q, n, nn)
    BY <1>6, <2>3
  <2>5. nn \div n = n
    BY <1>n, <1>8, AllPairs
  <2>6. \A k, l \in 1 .. n : Done(n, nn, k, l)
    BY <2>5 DEF Done
  <2> QED
    BY <2>4, <2>6 DEF SortedSoFar
<1> QED
  BY <1>7, <1>8

\* sort() writes the sorted items into the nodes and leaves the pointers alone.
LEMMA SortKeeps ==
  ASSUME NEW s, NEW q, NEW n, Found(s, q, n), sort
  PROVE  /\ ~Closed(q)
         /\ \E w : /\ w \in [DOMAIN q -> Items(q)]
                   /\ \A k, l \in DOMAIN q : k < l => w[k] < w[l]
                   /\ Linked(s, w)'
                   /\ SumsTo(w, Lengths, queueLoad')
<1>1. /\ n = Len(q) /\ n \in Nat /\ n = size /\ DOMAIN q = 1 .. n
      /\ \A k \in 1 .. n : q[k] \in Item
      /\ s \in [1 .. n -> Node]
      /\ \A j, k \in 1 .. n : s[j] = s[k] => j = k
      /\ Allocated = {s[k] : k \in 1 .. n}
      /\ \A k \in 1 .. n : node[s[k]] = Cell(s, q, k)
      /\ head = At(s, 1) /\ tail = At(s, n)
  BY LinkedIs DEF Found
<1>2. q \in Seq(Item) /\ OnceIn(q) /\ Linked(s, q) /\ SumsTo(q, Lengths, queueLoad)
  BY DEF Found, Linked
<1>3. Marker \notin Items(q) /\ ~Closed(q)
  <2>1. Marker \notin Items(q)
    BY Closes, MarkerIsNoPid DEF sort
  <2>2. n # 0 => q[n] \in Items(q)
    BY <1>1 DEF Items
  <2> QED
    BY <2>1, <2>2, Closes
<1>4. q \in [1 .. n -> Item]
  BY <1>1, <1>2
<1>5. \A k \in 1 .. n : Nth[k] = s[k] /\ pid(Nth[k]) = q[k]
  BY <1>1, <1>2, NthIs
<1>6. [k \in 1 .. size |-> pid(Nth[k])] = q
  <2>1. q = [k \in 1 .. n |-> q[k]]
    BY <1>4
  <2> QED
    BY <1>1, <1>5, <2>1
<1>w. PICK w : w = sorted(q)
  OBVIOUS
<1>7. /\ w \in [1 .. n -> Item] /\ OnceIn(w) /\ Items(w) = Items(q)
      /\ SumsTo(w, Lengths, queueLoad)
      /\ \A k, l \in 1 .. n : k < l => w[k] < w[l]
  BY <1>1, <1>2, <1>4, <1>w, SortSorts
<1>8. /\ node' = [m \in Allocated |-> [node[m] EXCEPT !.data = w[Position(m)]]]
      /\ head' = head /\ tail' = tail /\ size' = size /\ queueLoad' = queueLoad
  BY <1>6, <1>w DEF sort
<1>9. ASSUME NEW k \in 1 .. n PROVE Position(s[k]) = k
  <2>1. \A l \in 1 .. size : Nth[l] = s[k] <=> l = k
    BY <1>1, <1>5
  <2>2. k \in 1 .. size
    BY <1>1
  <2> QED
    BY <2>1, <2>2 DEF Position
<1>10. ASSUME NEW k \in 1 .. n PROVE node'[s[k]] = Cell(s, w, k)
  <2>1. s[k] \in Allocated
    BY <1>1
  <2>2. node'[s[k]] = [node[s[k]] EXCEPT !.data = w[k]]
    BY <1>8, <1>9, <2>1
  <2>3. node[s[k]] = Cell(s, q, k)
    BY <1>1
  <2> QED
    BY <2>2, <2>3 DEF Cell
<1>11. w \in Seq(Item) /\ Len(w) = n /\ DOMAIN w = 1 .. n
  <2>1. w \in Seq(Item)
    BY <1>1, <1>7
  <2> QED
    BY <1>1, <1>7, <2>1, LenProperties
<1>12. MarkerLast(w)
  BY <1>3, <1>7 DEF MarkerLast, Items
<1>13. node' = [m \in {s[k] : k \in 1 .. n} |-> node'[m]]
  BY <1>1, <1>8
<1>14. Linked(s, w)'
  <2>1. head' = At(s, 1) /\ tail' = At(s, n) /\ size' = n
    BY <1>1, <1>8
  <2> QED
    BY <1>1, <1>7, <1>10, <1>11, <1>12, <1>13, <2>1 DEF Linked
<1>15. w \in [DOMAIN q -> Items(q)]
  <2>1. \A k \in 1 .. n : w[k] \in Items(q)
    BY <1>7, <1>11 DEF Items
  <2> QED
    BY <1>1, <1>7, <2>1
<1> QED
  BY <1>1, <1>3, <1>7, <1>8, <1>14, <1>15

-------------------------------------------------------------------------------
(* The list is kept *)

\* The invariant names a list of items and its nodes.
LEMMA QInvFound == QInv => \E s, q, n : Found(s, q, n)
BY LinkedIs DEF QInv, Found

\* The empty queue.
LEMMA QInvInit == QInit => QInv
<1> SUFFICES ASSUME QInit PROVE QInv
  OBVIOUS
<1> DEFINE q == <<>>
           s == [k \in 1 .. 0 |-> NULL]
<1>1. q \in Seq(Item) /\ Len(q) = 0 /\ DOMAIN q = 1 .. 0
  OBVIOUS
<1>2. OnceIn(q) /\ MarkerLast(q)
  BY <1>1 DEF OnceIn, MarkerLast
<1>3. s \in [1 .. 0 -> Node] /\ DOMAIN s = {}
  OBVIOUS
<1>4. At(s, 1) = NULL /\ At(s, 0) = NULL
  BY <1>3 DEF At
<1>5. head = NULL /\ tail = NULL /\ size = 0 /\ queueLoad = 0 /\ node = [m \in {} |-> NULL]
  BY DEF QInit
<1>6. SumsTo(q, Lengths, queueLoad)
  <2> DEFINE t == [k \in 0 .. 0 |-> 0]
  <2>1. Loads(t, q, Lengths) /\ queueLoad = t[Len(q)]
    BY <1>1, <1>5 DEF Loads
  <2> HIDE DEF t
  <2> QED
    BY <2>1 DEF SumsTo
<1> HIDE DEF q, s
<1>7. node = [a \in {s[k] : k \in 1 .. 0} |-> node[a]]
  <2>1. {s[k] : k \in 1 .. 0} = {}
    OBVIOUS
  <2> QED
    BY <1>5, <2>1
<1>8. Linked(s, q)
  BY <1>1, <1>2, <1>3, <1>4, <1>5, <1>7 DEF Linked
<1> QED
  BY <1>6, <1>8 DEF QInv

\* From a list that carries q, a call leads to one that carries w.
Steps(q, w) ==
  \/ \E b \in Item \ Items(q) : w = Enqueued(q, b)
  \/ q # <<>> /\ w = Without(q, 1)
  \/ \E k \in DOMAIN q : w = Without(q, k)
  \/ /\ ~Closed(q)
     /\ w \in [DOMAIN q -> Items(q)]
     /\ \A k, l \in DOMAIN q : k < l => w[k] < w[l]

\* Every call is one of these steps, and leaves the nodes linked and counted.
LEMMA CallKeeps ==
  ASSUME NEW s, NEW q, NEW n, Found(s, q, n), QNext
  PROVE  \E w : Steps(q, w) /\ (\E t : Linked(t, w)') /\ SumsTo(w, Lengths, queueLoad')
<1>1. n = Len(q) /\ DOMAIN q = 1 .. n /\ n \in Nat /\ q \in Seq(Item)
  <2>1. q \in Seq(Item) /\ n = Len(q) /\ n \in Nat
    BY DEF Found, Linked
  <2> QED
    BY <2>1, LenProperties
<1>2. ASSUME NEW b \in Item, enqueue(b)
      PROVE  \E w : Steps(q, w) /\ (\E t : Linked(t, w)') /\ SumsTo(w, Lengths, queueLoad')
  <2>1. PICK w : w = Enqueued(q, b)
    OBVIOUS
  <2>2. b \notin Items(q) /\ (\E t : Linked(t, w)') /\ SumsTo(w, Lengths, queueLoad')
    BY <1>2, <2>1, EnqueueKeeps
  <2> QED
    BY <2>1, <2>2 DEF Steps
<1>3. ASSUME dequeue
      PROVE  \E w : Steps(q, w) /\ (\E t : Linked(t, w)') /\ SumsTo(w, Lengths, queueLoad')
  <2>1. PICK w : w = Without(q, 1)
    OBVIOUS
  <2>2. n # 0 /\ (\E t : Linked(t, w)') /\ SumsTo(w, Lengths, queueLoad')
    BY <1>3, <2>1, DequeueKeeps
  <2>3. q # <<>>
    BY <1>1, <2>2, EmptySeq
  <2> QED
    BY <2>1, <2>2, <2>3 DEF Steps
<1>4. ASSUME NEW b \in Item, dequeue_at(b)
      PROVE  \E w : Steps(q, w) /\ (\E t : Linked(t, w)') /\ SumsTo(w, Lengths, queueLoad')
  <2>1. PICK p \in 1 .. n :
          /\ \E t : Linked(t, Without(q, p))'
          /\ SumsTo(Without(q, p), Lengths, queueLoad')
    BY <1>4, DequeueAtKeeps
  <2>2. PICK w : w = Without(q, p)
    OBVIOUS
  <2>3. (\E t : Linked(t, w)') /\ SumsTo(w, Lengths, queueLoad')
    BY <2>1, <2>2
  <2> QED
    BY <1>1, <2>1, <2>2, <2>3 DEF Steps
<1>5. ASSUME sort
      PROVE  \E w : Steps(q, w) /\ (\E t : Linked(t, w)') /\ SumsTo(w, Lengths, queueLoad')
  BY <1>5, SortKeeps DEF Steps
<1> QED
  BY <1>2, <1>3, <1>4, <1>5 DEF QNext

\* No call breaks the list.
LEMMA QInvNext == QInv /\ [QNext]_qvars => QInv'
<1> SUFFICES ASSUME QInv, [QNext]_qvars PROVE QInv'
  OBVIOUS
<1>1. CASE QNext
  <2>1. PICK s, q, n : Found(s, q, n)
    BY QInvFound
  <2>2. PICK w, t : Linked(t, w)' /\ SumsTo(w, Lengths, queueLoad')
    BY <1>1, <2>1, CallKeeps
  <2>3. Lengths' = Lengths
    BY DEF Lengths
  <2> QED
    BY <2>2, <2>3 DEF QInv
<1>2. CASE UNCHANGED qvars
  BY <1>2 DEF QInv, Linked, qvars
<1> QED
  BY <1>1, <1>2

\* So the queue is a list for good.
LEMMA QInvAlways == QSpec => []QInv
BY QInvInit, QInvNext, PTL DEF QSpec

\* Such a list has every part that WellLinked asks for.
LEMMA ListFormed == QInv => WellLinked
<1> SUFFICES ASSUME QInv PROVE WellLinked
  OBVIOUS
<1>1. PICK s, q, n : Found(s, q, n)
  BY QInvFound
<1>2. /\ n = Len(q) /\ n \in Nat /\ n = size /\ DOMAIN q = 1 .. n
      /\ \A k \in 1 .. n : q[k] \in Item
      /\ \A k \in 1 .. n : s[k] # NULL
      /\ Allocated = {s[k] : k \in 1 .. n}
      /\ \A k \in 1 .. n : node[s[k]] = Cell(s, q, k)
      /\ \A k \in 1 .. n : At(s, k) = s[k]
      /\ At(s, 0) = NULL /\ At(s, n+1) = NULL
      /\ head = At(s, 1) /\ tail = At(s, n)
      /\ (n = 0 <=> head = NULL) /\ (n = 0 <=> tail = NULL)
  BY <1>1, LinkedIs DEF Found
<1>3. /\ \A k \in 0 .. n : Nth[k] = At(s, k)
      /\ \A k \in 1 .. n : Nth[k] = s[k] /\ pid(Nth[k]) = q[k]
  BY <1>1, <1>2, NthIs DEF Found
<1>4. Nth[size] = tail
  BY <1>2, <1>3
<1>5. {Nth[k] : k \in 1 .. size} = Allocated
  BY <1>2, <1>3
<1>6. ASSUME NEW k \in 1 .. size PROVE node[Nth[k]].prev = Nth[k-1]
  <2>1. node[s[k]].prev = At(s, k-1)
    BY <1>2, CellIs
  <2>2. k-1 \in 0 .. n /\ k \in 1 .. n
    BY <1>2
  <2> QED
    BY <1>3, <2>1, <2>2
<1>7. tail # NULL => node[tail].next = NULL
  <2> SUFFICES ASSUME tail # NULL PROVE node[tail].next = NULL
    OBVIOUS
  <2>1. n \in 1 .. n /\ tail = s[n]
    BY <1>2
  <2>2. node[s[n]].next = At(s, n+1)
    BY <1>2, <2>1, CellIs
  <2> QED
    BY <1>2, <2>1, <2>2
<1> DEFINE Follows(f) == f = [k \in 0 .. size |-> IF k = 0 THEN 0
                                ELSE f[k-1] + burstLength[pid(Nth[k])]]
           load == CHOOSE f : Follows(f)
<1>8. PICK sum : Loads(sum, q, Lengths) /\ queueLoad = sum[n]
  BY <1>1, <1>2 DEF Found, SumsTo
<1>9. /\ sum \in [0 .. n -> Int] /\ sum[0] = 0
      /\ \A k \in 1 .. n : sum[k] = sum[k-1] + burstLength[pid(Nth[k])]
  <2>1. /\ sum \in [0 .. n -> Int] /\ sum[0] = 0
        /\ \A k \in 1 .. n : sum[k] = sum[k-1] + Weight(Lengths, q[k])
    BY <1>2, <1>8 DEF Loads
  <2>2. \A k \in 1 .. n : Weight(Lengths, q[k]) = burstLength[pid(Nth[k])]
    BY <1>2, <1>3, WeightIs
  <2> QED
    BY <2>1, <2>2
<1>10. Follows(sum)
  BY <1>2, <1>9
<1>11. Follows(load)
  BY <1>10
<1>12. load[size] = queueLoad
  <2> HIDE DEF load
  <2> DEFINE Same == {k \in 0 .. n : load[k] = sum[k]}
  <2>0. \A k \in 0 .. n : load[k] = IF k = 0 THEN 0
                                    ELSE load[k-1] + burstLength[pid(Nth[k])]
    BY <1>2, <1>11
  <2>1. 0 \in Same
    BY <1>2, <1>9, <2>0
  <2>2. ASSUME NEW k \in 0 .. n, k < n, k \in Same PROVE k+1 \in Same
    <3>1. k+1 \in 0 .. n /\ k+1 \in 1 .. n /\ k+1 # 0 /\ (k+1)-1 = k
      BY <1>2, <2>2
    <3>2. load[k+1] = load[k] + burstLength[pid(Nth[k+1])]
      BY <2>0, <3>1
    <3>3. sum[k+1] = sum[k] + burstLength[pid(Nth[k+1])]
      BY <1>9, <3>1
    <3> QED
      BY <2>2, <3>1, <3>2, <3>3
  <2>3. \A k \in 0 .. n : k \in Same
    <3> HIDE DEF Same
    <3> QED
      BY <1>2, <2>1, <2>2, CountUp
  <2> QED
    BY <1>2, <1>8, <2>3
<1>13. size >= 0 /\ ((size = 0) <=> (head = NULL))
  BY <1>2
<1> QED
  BY <1>4, <1>5, <1>6, <1>7, <1>12, <1>13 DEF WellLinked

\* The pointers form one list in both directions, whatever is enqueued, dequeued,
\* taken out of the middle or sorted: nothing is lost or linked twice, size and
\* queueLoad count exactly what is in it.
THEOREM PointersFormAList == QSpec => []WellLinked
BY QInvAlways, ListFormed, PTL

-------------------------------------------------------------------------------
(* The list is what readyqueue.h promises *)

\* The list the callers see.
Shown == [k \in 1 .. size |-> pid(Nth[k])]

\* On a linked list, the nodes met from the head show the items.
ShownRight == \A s, q : Linked(s, q) => Shown = q

\* They are the items the nodes carry.
LEMMA ShownIs == ShownRight
<1> USE DEF ShownRight
<1> SUFFICES ASSUME NEW s, NEW q, Linked(s, q) PROVE Shown = q
  OBVIOUS
<1>1. PICK n \in Nat : n = size /\ DOMAIN q = 1 .. n
  BY LinkedIs
<1>2. \A k \in 1 .. n : pid(Nth[k]) = q[k]
  BY <1>1, NthIs
<1>3. q \in Seq(Item)
  BY DEF Linked
<1>4. q = [k \in 1 .. n |-> q[k]]
  BY <1>1, <1>3
<1> QED
  BY <1>1, <1>2, <1>4 DEF Shown

\* An empty queue shows an empty list.
LEMMA ListInit == QInit => Abstract!LInit
<1> SUFFICES ASSUME QInit PROVE Shown = <<>>
  BY DEF Abstract!LInit, Shown
<1> QED
  BY DEF QInit, Shown

\* Each call is a step of the list.
LEMMA ListNext == QInv /\ [QNext]_qvars => [Abstract!LNext]_Shown
<1> SUFFICES ASSUME QInv, [QNext]_qvars PROVE Abstract!LNext \/ Shown' = Shown
  OBVIOUS
<1>1. CASE QNext
  <2>1. PICK s, q, n : Found(s, q, n)
    BY QInvFound
  <2>2. PICK w : Steps(q, w) /\ (\E t : Linked(t, w)')
    BY <1>1, <2>1, CallKeeps
  <2>3. Shown = q
    BY <2>1, ShownIs DEF Found, ShownRight
  <2>4. Shown' = w
    <3>1. ShownRight'
      BY ShownIs, PTL
    <3> QED
      BY <2>2, <3>1 DEF ShownRight
  <2>5. Abstract!LNext <=> Steps(Shown, Shown')
    <3>1. Abstract!Marker = Marker /\ Abstract!Item = Item
      BY DEF Abstract!Marker, Marker, Abstract!Item, Item
    <3>2. \A v : Abstract!Items(v) = Items(v)
      BY DEF Abstract!Items, Items
    <3>3. \A v : Abstract!Closed(v) <=> Closed(v)
      BY <3>1 DEF Abstract!Closed, Closed
    <3>4. \A v, b : Abstract!Enqueued(v, b) = Enqueued(v, b)
      BY <3>1, <3>3 DEF Abstract!Enqueued, Enqueued
    <3>5. \A v, k : Abstract!Without(v, k) = Without(v, k)
      BY DEF Abstract!Without, Without
    <3>6. Abstract!LEnqueue <=> \E b \in Item \ Items(Shown) : Shown' = Enqueued(Shown, b)
      BY <3>1, <3>2, <3>4 DEF Abstract!LEnqueue, Shown
    <3>7. Abstract!LDequeue <=>
            Shown # <<>> /\ Shown' = Without(Shown, 1)
      BY <3>1, <3>5 DEF Abstract!LDequeue, Shown
    <3>8. Abstract!LDequeueAt <=>
            \E k \in DOMAIN Shown : Shown' = Without(Shown, k)
      BY <3>1, <3>5 DEF Abstract!LDequeueAt, Shown
    <3>9. Abstract!LSort <=>
            /\ ~Closed(Shown)
            /\ Shown' \in [DOMAIN Shown -> Items(Shown)]
            /\ \A k, l \in DOMAIN Shown : k < l => Shown'[k] < Shown'[l]
      BY <3>2, <3>3 DEF Abstract!LSort, Shown
    <3> QED
      BY <3>6, <3>7, <3>8, <3>9 DEF Abstract!LNext, Steps
  <2> QED
    BY <2>2, <2>3, <2>4, <2>5
<1>2. CASE UNCHANGED qvars
  BY <1>2 DEF Shown, qvars, Nth, pid, Allocated
<1> QED
  BY <1>1, <1>2

\* Seen from its callers the queue is a sequence: what goes in goes in at the end
\* or in front of the marker, what leaves leaves the rest in its order, and
\* sort() orders by pid and loses nothing.
THEOREM ImplementsList == QSpec => ImplementsReadyList
<1>1. QInit => Abstract!LInit
  BY ListInit
<1>2. QInv /\ [QNext]_qvars => [Abstract!LNext]_Shown
  BY ListNext
<1>3. QSpec => []QInv
  BY QInvAlways
<1> QED
  BY <1>1, <1>2, <1>3, PTL DEF QSpec, ImplementsReadyList, Abstract!LSpec, Shown
===============================================================================
