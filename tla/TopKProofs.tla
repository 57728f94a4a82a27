------------------------------- MODULE TopKProofs -------------------------------
(***************************************************************************)
(* However p1's children race for the offset in shared memory, none of     *)
(* them writes behind the slots that the parent reads; and when they take  *)
(* turns, in whatever order, or are threads, the parent prints the sum of  *)
(* their results: for any number of files, any files and any K.            *)
(***************************************************************************)
EXTENDS TopKPrograms, SequenceTheorems, WellFoundedInduction, FiniteSetTheorems,
        FunctionTheorems, TLAPS

-------------------------------------------------------------------------------
(* The invariant *)

\* The cells that a child has added to the offset, if none of its updates was lost.
Added(s) == Slot * (s.i - 1) + IF s.field = "count" THEN MAX_STR ELSE 0

\* What all children have added, and what all but c have.
AllAdded       == SumOver([d \in Child |-> Added(child[d])])
OthersAdded(c) == SumOver([d \in Child |-> IF d = c THEN 0 ELSE Added(child[d])])

\* A child that is before or behind its words has no count to copy, and one that is among
\* them has at most K of them.
ChildOK(s) ==
  /\ s = [pc |-> s.pc, res |-> s.res, i |-> s.i, field |-> s.field, cur |-> s.cur, read |-> s.read]
  /\ s.pc \in {"start", "locate", "copy", "load", "store", "ended"}
  /\ s.i \in Nat \ {0} /\ s.field \in {"word", "count"} /\ s.cur \in Nat /\ s.read \in Nat
  /\ Len(s.res) \in 0 .. K /\ s.i <= Len(s.res) + 1
  /\ s.pc \in {"start", "locate"} => s.i = 1
  /\ s.pc \in {"start", "locate", "ended"} => s.field = "word"
  /\ s.pc \in {"locate", "copy", "load", "store"} => s.i <= Len(s.res)

\* The offset, what a child has read of it, and where a child began to copy were all
\* reached by what others had added, so none of them is beyond the sum.
TInv ==
  /\ files \in Inputs
  /\ child = [c \in Child |-> child[c]]
  /\ \A c \in Child : ChildOK(child[c])
  /\ offset \in Nat /\ offset <= AllAdded
  /\ \A c \in Child :
       /\ child[c].pc = "store" => child[c].read <= AllAdded
       /\ Copying(c) => child[c].cur - Slot * (child[c].i - 1) <= OthersAdded(c)

-------------------------------------------------------------------------------
(* Counting *)

\* Every non-empty set of naturals has a least element.
LEMMA Least ==
  ASSUME NEW S \in SUBSET Nat, S # {}
  PROVE  \E least \in S : \A n \in S : least <= n
<1>1. PICK least \in S : \A n \in S : ~ (<<n, least>> \in OpToRel(<, Nat))
  BY NatLessThanWellFounded, WFMin
<1>2. \A n \in S : <<n, least>> \in OpToRel(<, Nat) <=> n < least
  BY DEF OpToRel
<1>3. \A n \in S : least \in Nat /\ n \in Nat /\ ~(n < least)
  BY <1>1, <1>2
<1>4. \A n \in S : least <= n
  BY <1>3
<1> QED
  BY <1>4

\* Induction on 0 .. n for membership in a set.
LEMMA CountUp ==
  ASSUME NEW n \in Nat, NEW S, 0 \in S,
         \A k \in 0 .. n : k < n /\ k \in S => k+1 \in S
  PROVE  \A k \in 0 .. n : k \in S
<1> DEFINE Out == {k \in 0 .. n : k \notin S}
<1>1. SUFFICES ASSUME Out # {} PROVE FALSE
  OBVIOUS
<1>2. Out \in SUBSET Nat
  OBVIOUS
<1>3. PICK m \in Out : \A k \in Out : m <= k
  BY <1>1, <1>2, Least
<1>4. m \in 1 .. n /\ m-1 \in 0 .. n
  BY <1>3
<1>5. m-1 \in S
  BY <1>3, <1>4
<1> QED
  BY <1>3, <1>4, <1>5

\* f is start at 0, and at each other k of 0 .. n what next makes of its value at k-1.
Recursion(f, n, start, next) ==
  f = [k \in 0 .. n |-> IF k = 0 THEN start ELSE next[k][f[k-1]]]

LEMMA StepByStep ==
  ASSUME NEW n \in Nat, NEW start, NEW next
  PROVE  \E f : Recursion(f, n, start, next)
<1> USE DEF Recursion
<1> DEFINE Upto(m, f) == Recursion(f, m, start, next)
           Ok == {m \in 0 .. n : \E f : Upto(m, f)}
<1>1. 0 \in Ok
  <2>1. Upto(0, [k \in 0 .. 0 |-> start])
    OBVIOUS
  <2> HIDE DEF Upto
  <2> QED
    BY <2>1
<1>2. ASSUME NEW m \in 0 .. n, m < n, m \in Ok
      PROVE  m+1 \in Ok
  <2>1. PICK f : Upto(m, f)
    BY <1>2
  <2>2. PICK g : g = [k \in 0 .. m+1 |-> IF k = m+1 THEN next[m+1][f[m]] ELSE f[k]]
    OBVIOUS
  <2>3. ASSUME NEW k \in 0 .. m+1
        PROVE  g[k] = IF k = 0 THEN start ELSE next[k][g[k-1]]
    <3>1. CASE k = m+1
      <4>1. k-1 = m /\ m \in 0 .. m+1 /\ m # m+1 /\ k # 0
        BY <3>1
      <4> QED
        BY <2>2, <3>1, <4>1
    <3>2. CASE k # m+1
      <4>1. k \in 0 .. m
        BY <3>2
      <4>2. f[k] = IF k = 0 THEN start ELSE next[k][f[k-1]]
        BY <2>1, <4>1
      <4>3. k # 0 => g[k-1] = f[k-1]
        BY <2>2, <4>1
      <4> QED
        BY <2>2, <3>2, <4>2, <4>3
    <3> QED
      BY <3>1, <3>2
  <2>4. Upto(m+1, g)
    BY <2>2, <2>3
  <2> HIDE DEF Upto
  <2> QED
    BY <1>2, <2>4
<1>3. n \in Ok
  <2> HIDE DEF Ok
  <2>1. \A m \in 0 .. n : m \in Ok
    BY <1>1, <1>2, CountUp
  <2> QED
    BY <2>1
<1>4. PICK f : Upto(n, f)
  BY <1>3
<1> QED
  BY <1>4

LEMMA RecursionIs ==
  ASSUME NEW n \in Nat, NEW start, NEW next, NEW f, Recursion(f, n, start, next)
  PROVE  /\ f = [k \in 0 .. n |-> f[k]]
         /\ f[0] = start
         /\ \A k \in 1 .. n : f[k] = next[k][f[k-1]]
<1>1. f = [k \in 0 .. n |-> f[k]]
  BY DEF Recursion
<1>2. \A k \in 0 .. n : f[k] = IF k = 0 THEN start ELSE next[k][f[k-1]]
  BY DEF Recursion
<1>3. f[0] = start
  BY <1>2
<1>4. ASSUME NEW k \in 1 .. n PROVE f[k] = next[k][f[k-1]]
  <2>1. k \in 0 .. n /\ k # 0
    OBVIOUS
  <2> QED
    BY <1>2, <2>1
<1> QED
  BY <1>1, <1>3, <1>4

-------------------------------------------------------------------------------
(* Sums over the children *)

\* s lists the running totals of v.
Totals(s, v) ==
  /\ s \in [0 .. N -> Int]
  /\ s[0] = 0
  /\ \A c \in Child : s[c] = s[c-1] + v[c]

LEMMA SumDefined ==
  ASSUME NEW v \in [Child -> Int]
  PROVE  \E s : Totals(s, v) /\ SumOver(v) = s[N]
<1>n. N \in Nat /\ Child = 1 .. N
  BY TopKAssumption DEF Child
<1> USE <1>n
<1> DEFINE next == [c \in 1 .. N |-> [x \in Int |-> x + v[c]]]
<1>1. PICK s : /\ s = [c \in 0 .. N |-> s[c]]
               /\ s[0] = 0
               /\ \A c \in 1 .. N : s[c] = next[c][s[c-1]]
  <2> HIDE DEF next
  <2>1. PICK f : Recursion(f, N, 0, next)
    BY StepByStep
  <2> QED
    BY <2>1, RecursionIs
<1>2. ASSUME NEW x \in Int, NEW c \in 1 .. N PROVE next[c][x] = x + v[c] /\ x + v[c] \in Int
  BY DEF Child
<1> HIDE DEF next
<1>3. \A c \in 0 .. N : s[c] \in Int
  <2> DEFINE Fine == {c \in 0 .. N : s[c] \in Int}
  <2>1. 0 \in Fine
    BY <1>1
  <2>2. ASSUME NEW c \in 0 .. N, c < N, c \in Fine PROVE c+1 \in Fine
    <3>1. c+1 \in 1 .. N /\ (c+1)-1 = c /\ c+1 \in 0 .. N
      BY <2>2
    <3>2. s[c] \in Int
      BY <2>2
    <3>3. s[c+1] = next[c+1][s[c]]
      BY <1>1, <3>1
    <3>4. next[c+1][s[c]] \in Int
      BY <1>2, <3>1, <3>2
    <3>5. s[c+1] \in Int
      BY <3>3, <3>4
    <3> QED
      BY <3>1, <3>5
  <2> HIDE DEF Fine
  <2>3. \A c \in 0 .. N : c \in Fine
    BY <2>1, <2>2, CountUp
  <2> QED
    BY <2>3 DEF Fine
<1>4. \A c \in 1 .. N : s[c] = s[c-1] + v[c]
  <2> TAKE c \in 1 .. N
  <2>1. c-1 \in 0 .. N
    OBVIOUS
  <2> QED
    BY <1>1, <1>2, <1>3, <2>1
<1> DEFINE Follows(f) == f = [c \in 0 .. N |-> IF c = 0 THEN 0 ELSE f[c-1] + v[c]]
           sum == CHOOSE f : Follows(f)
<1>5. Follows(s)
  <2>1. ASSUME NEW c \in 0 .. N PROVE s[c] = IF c = 0 THEN 0 ELSE s[c-1] + v[c]
    <3>1. CASE c = 0
      BY <1>1, <3>1
    <3>2. CASE c # 0
      <4>1. c \in 1 .. N
        BY <3>2
      <4> QED
        BY <1>4, <3>2, <4>1
    <3> QED
      BY <3>1, <3>2
  <2>2. s = [c \in 0 .. N |-> s[c]]
    BY <1>1
  <2> QED
    BY <2>1, <2>2
<1>6. Follows(sum)
  BY <1>5
<1> HIDE DEF sum
<1>7. sum[0] = 0 /\ \A c \in 1 .. N : sum[c] = sum[c-1] + v[c]
  <2>1. \A c \in 0 .. N : sum[c] = IF c = 0 THEN 0 ELSE sum[c-1] + v[c]
    BY <1>6
  <2> QED
    BY <2>1
<1>8. \A c \in 0 .. N : sum[c] = s[c]
  <2> DEFINE Fine == {c \in 0 .. N : sum[c] = s[c]}
  <2>1. 0 \in Fine
    BY <1>1, <1>7
  <2>2. ASSUME NEW c \in 0 .. N, c < N, c \in Fine PROVE c+1 \in Fine
    <3>1. c+1 \in 1 .. N /\ (c+1)-1 = c /\ c+1 \in 0 .. N
      BY <2>2
    <3>2. s[c+1] = s[c] + v[c+1] /\ sum[c+1] = sum[c] + v[c+1]
      BY <1>4, <1>7, <3>1
    <3> QED
      BY <2>2, <3>1, <3>2
  <2> HIDE DEF Fine
  <2>3. \A c \in 0 .. N : c \in Fine
    BY <2>1, <2>2, CountUp
  <2> QED
    BY <2>3 DEF Fine
<1>9. SumOver(v) = sum[N]
  BY DEF SumOver, sum
<1>10. s \in [0 .. N -> Int]
  BY <1>1, <1>3
<1>11. Totals(s, v)
  BY <1>1, <1>4, <1>10 DEF Totals
<1>12. SumOver(v) = s[N]
  BY <1>8, <1>9
<1> QED
  BY <1>11, <1>12

LEMMA SumType ==
  ASSUME NEW v \in [Child -> Int]
  PROVE  SumOver(v) \in Int
<1>1. PICK s : Totals(s, v) /\ SumOver(v) = s[N]
  BY SumDefined
<1> QED
  BY <1>1, TopKAssumption DEF Totals

\* Sums that differ in one place differ by what differs there.
LEMMA SumChanged ==
  ASSUME NEW u \in [Child -> Int], NEW v \in [Child -> Int], NEW c \in Child,
         \A d \in Child : d # c => v[d] = u[d]
  PROVE  SumOver(v) = SumOver(u) + v[c] - u[c]
<1>n. N \in Nat /\ Child = 1 .. N
  BY TopKAssumption DEF Child
<1> USE <1>n
<1>1. PICK s : Totals(s, u) /\ SumOver(u) = s[N]
  BY SumDefined
<1>2. PICK t : Totals(t, v) /\ SumOver(v) = t[N]
  BY SumDefined
<1> DEFINE Fine == {d \in 0 .. N : t[d] = s[d] + (IF d < c THEN 0 ELSE v[c] - u[c])}
<1>3. 0 \in Fine
  BY <1>1, <1>2 DEF Totals
<1>4. ASSUME NEW d \in 0 .. N, d < N, d \in Fine PROVE d+1 \in Fine
  <2>1. d+1 \in Child /\ (d+1)-1 = d
    BY <1>4
  <2>2. t[d+1] = t[d] + v[d+1] /\ s[d+1] = s[d] + u[d+1]
    BY <1>1, <1>2, <2>1 DEF Totals
  <2>3. s[d] \in Int /\ t[d] \in Int /\ u[d+1] \in Int /\ v[d+1] \in Int /\ u[c] \in Int /\ v[c] \in Int
    BY <1>1, <1>2, <2>1 DEF Totals
  <2>4. d+1 # c => v[d+1] = u[d+1]
    BY <2>1
  <2>5. t[d] = s[d] + (IF d < c THEN 0 ELSE v[c] - u[c])
    BY <1>4
  <2>6. t[d+1] = s[d+1] + (IF d+1 < c THEN 0 ELSE v[c] - u[c])
    <3> HIDE DEF Fine
    <3>1. CASE d+1 = c
      <4>1. d < c /\ ~(d+1 < c)
        BY <3>1
      <4>2. t[d] = s[d] /\ v[d+1] = v[c] /\ u[d+1] = u[c]
        BY <2>3, <2>5, <3>1, <4>1
      <4>3. t[d+1] = s[d] + v[c] /\ s[d+1] = s[d] + u[c]
        BY <2>2, <4>2
      <4> QED
        BY <2>3, <4>1, <4>3
    <3>2. CASE d+1 # c
      BY <2>2, <2>3, <2>4, <2>5, <3>2
    <3> QED
      BY <3>1, <3>2
  <2> QED
    BY <2>1, <2>6
<1>5. N \in Fine
  <2> HIDE DEF Fine
  <2>1. \A d \in 0 .. N : d \in Fine
    BY <1>3, <1>4, CountUp
  <2> QED
    BY <2>1
<1>6. SumOver(u) \in Int /\ SumOver(v) \in Int /\ u[c] \in Int /\ v[c] \in Int
  BY SumType
<1> QED
  BY <1>1, <1>2, <1>5, <1>6

\* A sum of N numbers is at most N times their bound.
LEMMA SumBound ==
  ASSUME NEW v \in [Child -> Int], NEW b \in Int, \A d \in Child : v[d] <= b
  PROVE  SumOver(v) <= N * b
<1>n. N \in Nat /\ Child = 1 .. N
  BY TopKAssumption DEF Child
<1> USE <1>n
<1>1. PICK s : Totals(s, v) /\ SumOver(v) = s[N]
  BY SumDefined
<1> DEFINE Fine == {d \in 0 .. N : s[d] <= d * b}
<1>2. 0 \in Fine
  BY <1>1 DEF Totals
<1>3. ASSUME NEW d \in 0 .. N, d < N, d \in Fine PROVE d+1 \in Fine
  <2>1. d+1 \in Child /\ (d+1)-1 = d
    BY <1>3
  <2>2. s[d+1] = s[d] + v[d+1] /\ v[d+1] <= b /\ s[d] <= d * b
    BY <1>1, <1>3, <2>1 DEF Totals
  <2>3. s[d] \in Int /\ v[d+1] \in Int /\ d * b \in Int
    BY <1>1, <2>1 DEF Totals
  <2>4. (d+1) * b = d * b + b
    OBVIOUS
  <2> QED
    BY <2>1, <2>2, <2>3, <2>4
<1>4. N \in Fine
  <2> HIDE DEF Fine
  <2>1. \A d \in 0 .. N : d \in Fine
    BY <1>2, <1>3, CountUp
  <2> QED
    BY <2>1
<1> QED
  BY <1>1, <1>4

LEMMA SumZero == SumOver([d \in Child |-> 0]) = 0
<1>n. N \in Nat /\ Child = 1 .. N
  BY TopKAssumption DEF Child
<1>v. PICK v : v = [d \in Child |-> 0]
  OBVIOUS
<1>1. v \in [Child -> Int]
  BY <1>v
<1>2. PICK s : Totals(s, v) /\ SumOver(v) = s[N]
  BY <1>1, SumDefined
<1> DEFINE Fine == {d \in 0 .. N : s[d] = 0}
<1>3. 0 \in Fine
  BY <1>n, <1>2 DEF Totals
<1>4. ASSUME NEW d \in 0 .. N, d < N, d \in Fine PROVE d+1 \in Fine
  <2>1. d+1 \in Child /\ (d+1)-1 = d /\ d+1 \in 0 .. N
    BY <1>n, <1>4
  <2>2. s[d+1] = s[d] + v[d+1] /\ v[d+1] = 0 /\ s[d] = 0
    BY <1>v, <1>2, <1>4, <2>1 DEF Totals
  <2> QED
    BY <2>1, <2>2
<1>5. N \in Fine
  <2> HIDE DEF Fine
  <2>1. \A d \in 0 .. N : d \in Fine
    BY <1>n, <1>3, <1>4, CountUp
  <2> QED
    BY <1>n, <2>1
<1> QED
  BY <1>v, <1>2, <1>5

-------------------------------------------------------------------------------
(* A child's result *)

EntryType == [word : Int, freq : Int]

\* Inserting a word leaves the list a list, and no shorter.
LEMMA InsertType ==
  ASSUME NEW l \in List, NEW e \in EntryType
  PROVE  /\ insert(l, e) \in List
         /\ Len(insert(l, e)) >= Len(l)
         /\ e.word # Empty => Len(insert(l, e)) >= 1
<1> USE DEF List, EntryType
<1>1. Len(l) \in Nat /\ DOMAIN l = 1 .. Len(l)
  BY LenProperties
<1>2. CASE At(l, e.word) # {}
  <2>1. PICK k : k = CHOOSE j \in At(l, e.word) : TRUE
    OBVIOUS
  <2>2. k \in 1 .. Len(l)
    BY <1>1, <1>2, <2>1 DEF At
  <2>3. l[k] \in EntryType
    BY <2>2, ElementOfSeq
  <2>4. PICK m : m = [l[k] EXCEPT !.freq = @ + e.freq]
    OBVIOUS
  <2>5. m \in EntryType
    <3>1. l[k].freq \in Int /\ e.freq \in Int
      BY <2>3
    <3>2. m = [word |-> l[k].word, freq |-> l[k].freq + e.freq]
      BY <2>3, <2>4
    <3> QED
      BY <2>3, <3>1, <3>2
  <2>6. insert(l, e) = [l EXCEPT ![k] = m]
    BY <1>2, <2>1, <2>4 DEF insert
  <2>7. [l EXCEPT ![k] = m] \in Seq(EntryType) /\ Len([l EXCEPT ![k] = m]) = Len(l)
    BY <2>2, <2>5, ExceptSeq
  <2> QED
    BY <1>1, <2>2, <2>6, <2>7
<1>3. CASE At(l, e.word) = {} /\ l = <<>> /\ e.word = Empty
  BY <1>1, <1>3 DEF insert
<1>4. CASE At(l, e.word) = {} /\ ~(l = <<>> /\ e.word = Empty)
  <2>1. insert(l, e) = Append(l, e)
    BY <1>4 DEF insert
  <2>2. Append(l, e) \in Seq(EntryType) /\ Len(Append(l, e)) = Len(l) + 1
    BY AppendProperties
  <2> QED
    BY <1>1, <2>1, <2>2
<1> QED
  BY <1>2, <1>3, <1>4

\* The list built from at least one word has at least one.
LEMMA InsertAllType ==
  ASSUME NEW entries \in Seq(EntryType), entries # <<>>,
         \A k \in DOMAIN entries : entries[k].word # Empty
  PROVE  insertAll(entries) \in List /\ Len(insertAll(entries)) >= 1
<1>n. PICK n \in Nat : n = Len(entries) /\ n > 0 /\ DOMAIN entries = 1 .. n
  BY LenProperties, EmptySeq
<1> DEFINE step == [k \in Nat |-> [l \in List |-> insert(l, entries[k])]]
           list == CHOOSE f : Recursion(f, n, <<>>, step)
<1>1. insertAll(entries) = list[n]
  BY <1>n DEF insertAll, Recursion
<1>2. ASSUME NEW l \in List, NEW k \in 1 .. n
      PROVE  /\ step[k][l] \in List
             /\ Len(step[k][l]) >= 1
  <2>1. entries[k] \in EntryType /\ entries[k].word # Empty
    BY <1>n, ElementOfSeq
  <2>2. step[k][l] = insert(l, entries[k])
    OBVIOUS
  <2> QED
    BY <2>1, <2>2, InsertType
<1> HIDE DEF step
<1>3. Recursion(list, n, <<>>, step)
  BY StepByStep
<1> HIDE DEF list
<1>4. list[0] = <<>> /\ \A k \in 1 .. n : list[k] = step[k][list[k-1]]
  BY <1>3, RecursionIs
<1> DEFINE Fine == {k \in 0 .. n : list[k] \in List /\ (k > 0 => Len(list[k]) >= 1)}
<1>5. 0 \in Fine
  <2>1. <<>> \in List
    BY DEF List
  <2> QED
    BY <1>4, <2>1
<1>6. ASSUME NEW k \in 0 .. n, k < n, k \in Fine PROVE k+1 \in Fine
  <2>1. k+1 \in 1 .. n /\ (k+1)-1 = k /\ k+1 \in 0 .. n
    BY <1>6
  <2>2. list[k+1] = step[k+1][list[k]]
    BY <1>4, <2>1
  <2>3. list[k] \in List
    BY <1>6
  <2>4. list[k+1] \in List /\ Len(list[k+1]) >= 1
    BY <1>2, <2>1, <2>2, <2>3
  <2> QED
    BY <2>1, <2>4
<1>7. n \in Fine
  <2> HIDE DEF Fine
  <2>1. \A k \in 0 .. n : k \in Fine
    BY <1>5, <1>6, CountUp
  <2> QED
    BY <2>1
<1> QED
  BY <1>n, <1>1, <1>7

\* A child that has words has between one and K of them to copy.
LEMMA ResultLength ==
  ASSUME files \in Inputs, NEW c \in Child, Readable(c)
  PROVE  Len(topKFrequent(Counted(files[c]), K)) \in 1 .. K
<1>k. K \in Nat \ {0}
  BY TopKAssumption
<1>1. PICK f \in Seq(Token) : f = files[c] /\ f # <<>>
  BY TopKAssumption DEF Readable
<1>2. PICK entries : entries = [k \in DOMAIN f |-> Entry(uppercase[f[k]], 1)]
  OBVIOUS
<1>3. \A k \in DOMAIN f : uppercase[f[k]] \in Word
  BY <1>1 DEF Word
<1>4. \A k \in DOMAIN f : uppercase[f[k]] \in Nat /\ uppercase[f[k]] # Empty
  BY <1>3, TopKAssumption
<1>5. \A k \in DOMAIN f : entries[k] \in EntryType /\ entries[k].word # Empty
  BY <1>2, <1>4 DEF Entry, EntryType
<1>6. Len(f) \in Nat /\ DOMAIN f = 1 .. Len(f) /\ Len(f) # 0
  BY <1>1, LenProperties, EmptySeq
<1>7. entries \in Seq(EntryType) /\ Len(entries) = Len(f) /\ DOMAIN entries = DOMAIN f
  BY <1>2, <1>5, <1>6, IsASeq
<1>8. entries # <<>>
  BY <1>6, <1>7
<1>9. insertAll(entries) \in List /\ Len(insertAll(entries)) >= 1
  BY <1>5, <1>7, <1>8, InsertAllType
<1>10. Counted(files[c]) = insertAll(entries)
  BY <1>1, <1>2 DEF Counted
<1>11. PICK list \in List : list = Counted(files[c]) /\ Len(list) >= 1
  BY <1>9, <1>10
<1>12. PICK m \in 1 .. K : m = IF Len(list) < K THEN Len(list) ELSE K
  <2>1. Len(list) \in Nat
    BY LenProperties DEF List
  <2> QED
    BY <1>k, <1>11, <2>1
<1> DEFINE s == sort(list)
<1> HIDE DEF s
<1>13. Len(SubSeq(s, 1, m)) = m
  <2>1. \A i \in 1 .. m : s[i] \in {s[j] : j \in 1 .. m}
    OBVIOUS
  <2>2. Len(SubSeq(s, 1, m)) = IF 1 <= m THEN m - 1 + 1 ELSE 0
    BY <2>1, SubSeqProperties
  <2> QED
    BY <2>2
<1> QED
  BY <1>11, <1>12, <1>13 DEF topKFrequent, s

-------------------------------------------------------------------------------
(* What a step adds *)

\* Child c goes on to s, and adds k to the offset by that.
Moves(c, s, k) ==
  /\ child' = [child EXCEPT ![c] = s]
  /\ Added(s) = Added(child[c]) + k

LEMMA AddedType ==
  ASSUME NEW s, ChildOK(s)
  PROVE  Added(s) \in 0 .. Slot * Len(s.res)
<1>1. s.i \in Nat \ {0} /\ Len(s.res) \in Nat /\ s.i <= Len(s.res) + 1
  BY TopKAssumption DEF ChildOK
<1>2. s.field = "count" => s.i <= Len(s.res)
  BY DEF ChildOK
<1> QED
  BY <1>1, <1>2 DEF Added, Slot, MAX_STR

\* What all have added is what c has added and what the others have.
LEMMA AllAndOthers ==
  ASSUME TInv, NEW c \in Child
  PROVE  /\ AllAdded \in Int /\ OthersAdded(c) \in Int
         /\ AllAdded = OthersAdded(c) + Added(child[c])
<1>1. PICK v : v = [d \in Child |-> Added(child[d])]
  OBVIOUS
<1>2. PICK u : u = [d \in Child |-> IF d = c THEN 0 ELSE Added(child[d])]
  OBVIOUS
<1>3. \A d \in Child : Added(child[d]) \in Int
  <2> TAKE d \in Child
  <2>1. Added(child[d]) \in 0 .. Slot * Len(child[d].res)
    BY AddedType DEF TInv
  <2> QED
    BY <2>1
<1>4. u \in [Child -> Int] /\ v \in [Child -> Int] /\ u[c] = 0 /\ v[c] = Added(child[c])
  BY <1>1, <1>2, <1>3
<1>5. \A d \in Child : d # c => v[d] = u[d]
  BY <1>1, <1>2
<1>6. SumOver(v) = SumOver(u) + v[c] - u[c]
  BY <1>4, <1>5, SumChanged
<1>7. SumOver(u) \in Int /\ SumOver(v) \in Int
  BY <1>4, SumType
<1>8. AllAdded = SumOver(v) /\ OthersAdded(c) = SumOver(u)
  BY <1>1, <1>2 DEF AllAdded, OthersAdded
<1> QED
  BY <1>3, <1>4, <1>6, <1>7, <1>8

\* What c adds is added to the sum of all, and to what the others see of it.
LEMMA MoveAdds ==
  ASSUME TInv, NEW c \in Child, NEW s, NEW k \in Nat, Moves(c, s, k), ChildOK(s)
  PROVE  /\ AllAdded' = AllAdded + k
         /\ OthersAdded(c)' = OthersAdded(c)
         /\ \A d \in Child : d # c => OthersAdded(d)' = OthersAdded(d) + k
<1>1. child' = [child EXCEPT ![c] = s] /\ Added(s) = Added(child[c]) + k
  BY DEF Moves
<1>2. child'[c] = s /\ \A d \in Child : d # c => child'[d] = child[d]
  BY <1>1 DEF TInv
<1>3. \A d \in Child : Added(child[d]) \in Int
  <2> TAKE d \in Child
  <2>1. Added(child[d]) \in 0 .. Slot * Len(child[d].res)
    BY AddedType DEF TInv
  <2> QED
    BY <2>1
<1>4. Added(s) \in Int
  BY <1>1, <1>3
<1>5. ASSUME NEW u, NEW v,
             u = [d \in Child |-> Added(child[d])],
             v = [d \in Child |-> Added(child'[d])]
      PROVE  SumOver(v) = SumOver(u) + k
  <2>1. u \in [Child -> Int] /\ v \in [Child -> Int] /\ v[c] = u[c] + k
    BY <1>1, <1>2, <1>3, <1>4, <1>5
  <2>2. \A d \in Child : d # c => v[d] = u[d]
    BY <1>2, <1>5
  <2>3. SumOver(v) = SumOver(u) + v[c] - u[c]
    BY <2>1, <2>2, SumChanged
  <2>4. SumOver(u) \in Int /\ u[c] \in Int
    BY <2>1, SumType
  <2> QED
    BY <2>1, <2>3, <2>4
<1>6. AllAdded' = AllAdded + k
  BY <1>5 DEF AllAdded
<1>7. OthersAdded(c)' = OthersAdded(c)
  <2>1. [d \in Child |-> IF d = c THEN 0 ELSE Added(child'[d])]
          = [d \in Child |-> IF d = c THEN 0 ELSE Added(child[d])]
    BY <1>2
  <2> QED
    BY <2>1 DEF OthersAdded
<1>8. ASSUME NEW d \in Child, d # c PROVE OthersAdded(d)' = OthersAdded(d) + k
  <2>1. PICK u : u = [b \in Child |-> IF b = d THEN 0 ELSE Added(child[b])]
    OBVIOUS
  <2>2. PICK v : v = [b \in Child |-> IF b = d THEN 0 ELSE Added(child'[b])]
    OBVIOUS
  <2>3. u \in [Child -> Int] /\ v \in [Child -> Int] /\ v[c] = u[c] + k
    BY <1>1, <1>2, <1>3, <1>4, <1>8, <2>1, <2>2
  <2>4. \A b \in Child : b # c => v[b] = u[b]
    BY <1>2, <2>1, <2>2
  <2>5. SumOver(v) = SumOver(u) + v[c] - u[c]
    BY <2>3, <2>4, SumChanged
  <2>6. SumOver(u) \in Int /\ u[c] \in Int
    BY <2>3, SumType
  <2>7. OthersAdded(d)' = SumOver(v) /\ OthersAdded(d) = SumOver(u)
    BY <2>1, <2>2 DEF OthersAdded
  <2> QED
    BY <2>3, <2>5, <2>6, <2>7
<1> QED
  BY <1>6, <1>7, <1>8

\* A child's step keeps the invariant if it does so for the child itself and the offset.
Fits(c, s, k) ==
  /\ Moves(c, s, k) /\ ChildOK(s)
  /\ files' = files
  /\ offset' \in Nat /\ offset' <= AllAdded + k
  /\ s.pc = "store" => s.read <= AllAdded + k
  /\ s.pc \in {"copy", "load", "store"} => s.cur - Slot * (s.i - 1) <= OthersAdded(c)

LEMMA TInvKept ==
  ASSUME TInv, NEW c \in Child, NEW s, NEW k \in Nat, Fits(c, s, k)
  PROVE  TInv'
<1>1. /\ AllAdded' = AllAdded + k
      /\ OthersAdded(c)' = OthersAdded(c)
      /\ \A d \in Child : d # c => OthersAdded(d)' = OthersAdded(d) + k
  BY MoveAdds DEF Fits
<1>2. child' = [child EXCEPT ![c] = s]
  BY DEF Fits, Moves
<1>3. child'[c] = s /\ \A d \in Child : d # c => child'[d] = child[d]
  BY <1>2 DEF TInv
<1>4. child' = [d \in Child |-> child'[d]]
  BY <1>2 DEF TInv
<1>5. \A d \in Child : ChildOK(child'[d])
  BY <1>3 DEF TInv, Fits
<1>6. AllAdded \in Int
  BY AllAndOthers
<1>7. files' \in Inputs /\ offset' \in Nat /\ offset' <= AllAdded'
  BY <1>1 DEF Fits, TInv
<1>8. ASSUME NEW d \in Child
      PROVE  /\ child'[d].pc = "store" => child'[d].read <= AllAdded'
             /\ child'[d].pc \in {"copy", "load", "store"} =>
                  child'[d].cur - Slot * (child'[d].i - 1) <= OthersAdded(d)'
  <2>1. CASE d = c
    BY <1>1, <1>3, <2>1 DEF Fits
  <2>2. CASE d # c
    <3>1. child'[d] = child[d] /\ OthersAdded(d)' = OthersAdded(d) + k
      BY <1>1, <1>3, <2>2
    <3>2. OthersAdded(d) \in Int
      BY AllAndOthers
    <3>3. child[d].read \in Int /\ child[d].cur - Slot * (child[d].i - 1) \in Int
      BY DEF TInv, ChildOK, Slot, MAX_STR
    <3>4. child[d].pc = "store" => child[d].read <= AllAdded
      BY DEF TInv
    <3>5. child[d].pc \in {"copy", "load", "store"} =>
            child[d].cur - Slot * (child[d].i - 1) <= OthersAdded(d)
      BY DEF TInv, Copying
    <3> QED
      BY <1>1, <1>6, <3>1, <3>2, <3>3, <3>4, <3>5
  <2> QED
    BY <2>1, <2>2
<1> QED
  BY <1>4, <1>5, <1>7, <1>8 DEF TInv, Copying

-------------------------------------------------------------------------------
(* The steps *)

LEMMA TInvInit == TInit => TInv
<1> SUFFICES ASSUME TInit PROVE TInv
  OBVIOUS
<1>1. \A c \in Child : /\ child[c] = [pc |-> "start", res |-> <<>>, i |-> 1, field |-> "word",
                                      cur |-> 0, read |-> 0]
      /\ Len(child[c].res) = 0
  BY DEF TInit
<1>2. \A c \in Child : ChildOK(child[c])
  BY <1>1, TopKAssumption DEF ChildOK
<1>3. AllAdded = SumOver([d \in Child |-> 0])
  <2>1. \A d \in Child : Added(child[d]) = 0
    BY <1>1 DEF Added, Slot, MAX_STR
  <2> QED
    BY <2>1 DEF AllAdded
<1>4. SumOver([d \in Child |-> 0]) = 0
  BY SumZero
<1>5. offset = 0 /\ files \in Inputs /\ child = [c \in Child |-> child[c]]
  BY DEF TInit
<1> QED
  BY <1>1, <1>2, <1>3, <1>4, <1>5 DEF TInv, Copying

\* A child that starts, copies or works adds nothing.
LEMMA StartKeeps ==
  ASSUME TInv, NEW c \in Child, Start(c)
  PROVE  TInv'
<1>s. PICK s : s = child[c]
  OBVIOUS
<1>1. ChildOK(s) /\ s.pc = "start" /\ s.i = 1 /\ s.field = "word"
  BY <1>s DEF TInv, Start, ChildOK
<1>2. AllAdded \in Int /\ offset \in Nat /\ offset <= AllAdded
  BY AllAndOthers DEF TInv
<1>3. CASE Readable(c)
  <2>1. PICK r : r = topKFrequent(Counted(files[c]), K)
    OBVIOUS
  <2>2. PICK t : t = [s EXCEPT !.pc = "locate", !.res = r]
    OBVIOUS
  <2>3. Len(r) \in 1 .. K
    BY <1>3, <2>1, ResultLength DEF TInv
  <2>4. t = [pc |-> "locate", res |-> r, i |-> 1, field |-> "word", cur |-> s.cur, read |-> s.read]
    BY <1>1, <2>2 DEF ChildOK
  <2>5. ChildOK(t)
    BY <1>1, <2>3, <2>4, TopKAssumption DEF ChildOK
  <2>6. Moves(c, t, 0)
    <3>1. child' = [child EXCEPT ![c] = t]
      BY <1>s, <1>3, <2>1, <2>2 DEF Start
    <3>2. Added(t) = Added(child[c]) + 0
      BY <1>s, <1>1, <2>4 DEF Added, Slot, MAX_STR
    <3> QED
      BY <3>1, <3>2 DEF Moves
  <2>7. Fits(c, t, 0)
    BY <1>2, <2>4, <2>5, <2>6 DEF Fits, Start
  <2> QED
    BY <2>7, TInvKept
<1>4. CASE ~Readable(c)
  <2>1. PICK t : t = [s EXCEPT !.pc = "ended"]
    OBVIOUS
  <2>2. t = [pc |-> "ended", res |-> s.res, i |-> 1, field |-> "word", cur |-> s.cur, read |-> s.read]
    BY <1>1, <2>1 DEF ChildOK
  <2>3. ChildOK(t)
    BY <1>1, <2>2, TopKAssumption DEF ChildOK
  <2>4. Moves(c, t, 0)
    <3>1. child' = [child EXCEPT ![c] = t]
      BY <1>s, <1>4, <2>1 DEF Start
    <3>2. Added(t) = Added(child[c]) + 0
      BY <1>s, <1>1, <2>2 DEF Added, Slot, MAX_STR
    <3> QED
      BY <3>1, <3>2 DEF Moves
  <2>5. Fits(c, t, 0)
    BY <1>2, <2>2, <2>3, <2>4 DEF Fits, Start
  <2> QED
    BY <2>5, TInvKept
<1> QED
  BY <1>3, <1>4

LEMMA LocateKeeps ==
  ASSUME TInv, NEW c \in Child, Locate(c)
  PROVE  TInv'
<1>s. PICK s : s = child[c]
  OBVIOUS
<1>1. ChildOK(s) /\ s.pc = "locate" /\ s.i = 1 /\ s.field = "word"
  BY <1>s DEF TInv, Locate, ChildOK
<1>2. AllAdded \in Int /\ offset \in Nat /\ offset <= AllAdded
  BY AllAndOthers DEF TInv
<1>3. PICK t : t = [s EXCEPT !.pc = "copy", !.cur = offset]
  OBVIOUS
<1>4. t = [pc |-> "copy", res |-> s.res, i |-> 1, field |-> "word", cur |-> offset, read |-> s.read]
  BY <1>1, <1>3 DEF ChildOK
<1>5. ChildOK(t)
  BY <1>1, <1>2, <1>4, TopKAssumption DEF ChildOK
<1>6. Added(t) = 0 /\ Added(s) = 0
  BY <1>1, <1>4 DEF Added, Slot, MAX_STR
<1>7. child' = [child EXCEPT ![c] = t]
  BY <1>s, <1>3 DEF Locate
<1>8. Moves(c, t, 0)
  BY <1>s, <1>6, <1>7 DEF Moves
<1>9. OthersAdded(c) = AllAdded
  BY <1>s, <1>2, <1>6, AllAndOthers
<1>10. t.cur - Slot * (t.i - 1) <= OthersAdded(c)
  BY <1>2, <1>4, <1>9 DEF Slot, MAX_STR
<1>11. Fits(c, t, 0)
  BY <1>2, <1>4, <1>5, <1>8, <1>10 DEF Fits, Locate
<1> QED
  BY <1>11, TInvKept

LEMMA CopyKeeps ==
  ASSUME TInv, NEW c \in Child, Copy(c)
  PROVE  TInv'
<1>s. PICK s : s = child[c]
  OBVIOUS
<1>1. ChildOK(s) /\ s.pc = "copy"
  BY <1>s DEF TInv, Copy
<1>2. AllAdded \in Int /\ offset \in Nat /\ offset <= AllAdded
  BY AllAndOthers DEF TInv
<1>3. PICK t : t = [s EXCEPT !.pc = "load"]
  OBVIOUS
<1>4. t = [pc |-> "load", res |-> s.res, i |-> s.i, field |-> s.field, cur |-> s.cur,
           read |-> s.read]
  BY <1>1, <1>3 DEF ChildOK
<1>5. ChildOK(t)
  BY <1>1, <1>4 DEF ChildOK
<1>6. Added(t) = Added(s) + 0
  <2>1. Added(s) \in 0 .. Slot * Len(s.res)
    BY <1>1, AddedType
  <2>2. Added(t) = Added(s)
    BY <1>4 DEF Added
  <2> QED
    BY <2>1, <2>2
<1>7. child' = [child EXCEPT ![c] = t]
  BY <1>s, <1>3 DEF Copy
<1>8. Moves(c, t, 0)
  BY <1>s, <1>6, <1>7 DEF Moves
<1>9. t.cur - Slot * (t.i - 1) <= OthersAdded(c)
  BY <1>s, <1>1, <1>4 DEF TInv, Copying
<1>10. Fits(c, t, 0)
  BY <1>2, <1>4, <1>5, <1>8, <1>9 DEF Fits, Copy
<1> QED
  BY <1>10, TInvKept

\* What a child reads of the offset is no more than all have added.
LEMMA LoadKeeps ==
  ASSUME TInv, NEW c \in Child, Load(c)
  PROVE  TInv'
<1>s. PICK s : s = child[c]
  OBVIOUS
<1>1. ChildOK(s) /\ s.pc = "load"
  BY <1>s DEF TInv, Load
<1>2. AllAdded \in Int /\ offset \in Nat /\ offset <= AllAdded
  BY AllAndOthers DEF TInv
<1>3. PICK t : t = [s EXCEPT !.pc = "store", !.read = offset]
  OBVIOUS
<1>4. t = [pc |-> "store", res |-> s.res, i |-> s.i, field |-> s.field, cur |-> s.cur,
           read |-> offset]
  BY <1>1, <1>3 DEF ChildOK
<1>5. ChildOK(t)
  BY <1>1, <1>2, <1>4 DEF ChildOK
<1>6. Added(t) = Added(s) + 0
  <2>1. Added(s) \in 0 .. Slot * Len(s.res)
    BY <1>1, AddedType
  <2>2. Added(t) = Added(s)
    BY <1>4 DEF Added
  <2> QED
    BY <2>1, <2>2
<1>7. child' = [child EXCEPT ![c] = t]
  BY <1>s, <1>3 DEF Load
<1>8. Moves(c, t, 0)
  BY <1>s, <1>6, <1>7 DEF Moves
<1>9. t.cur - Slot * (t.i - 1) <= OthersAdded(c)
  BY <1>s, <1>1, <1>4 DEF TInv, Copying
<1>10. Fits(c, t, 0)
  BY <1>2, <1>4, <1>5, <1>8, <1>9 DEF Fits, Load
<1> QED
  BY <1>10, TInvKept

\* A child that stores the offset has added as much as the offset gets beyond what it read;
\* what others stored in between is lost, and never counted twice.
LEMMA StoreKeeps ==
  ASSUME TInv, NEW c \in Child, Store(c)
  PROVE  TInv'
<1>s. PICK s : s = child[c]
  OBVIOUS
<1>1. ChildOK(s) /\ s.pc = "store" /\ s.read <= AllAdded
  BY <1>s DEF TInv, Store
<1>2. AllAdded \in Int /\ OthersAdded(c) \in Int
  BY AllAndOthers
<1>3. s.cur - Slot * (s.i - 1) <= OthersAdded(c)
  BY <1>s, <1>1 DEF TInv, Copying
<1>4. PICK t : t = Advanced(s)
  OBVIOUS
<1>5. child' = [child EXCEPT ![c] = t] /\ offset' = s.read + Size[s.field] /\ files' = files
  BY <1>s, <1>4 DEF Store
<1>6. CASE s.field = "word"
  <2>1. t = [pc |-> "copy", res |-> s.res, i |-> s.i, field |-> "count", cur |-> s.cur,
             read |-> s.read]
    BY <1>1, <1>4, <1>6 DEF ChildOK, Advanced
  <2>2. ChildOK(t)
    BY <1>1, <2>1 DEF ChildOK
  <2>3. Added(t) = Added(s) + MAX_STR
    BY <1>1, <1>6, <2>1 DEF Added, Slot, MAX_STR, ChildOK
  <2>4. Moves(c, t, MAX_STR)
    BY <1>s, <1>5, <2>3 DEF Moves
  <2>5. offset' \in Nat /\ offset' <= AllAdded + MAX_STR
    BY <1>1, <1>2, <1>5, <1>6 DEF Size, MAX_STR, ChildOK
  <2>6. t.cur - Slot * (t.i - 1) <= OthersAdded(c)
    BY <1>3, <2>1
  <2>7. Fits(c, t, MAX_STR) /\ MAX_STR \in Nat
    BY <1>5, <2>1, <2>2, <2>4, <2>5, <2>6 DEF Fits, MAX_STR
  <2> QED
    BY <2>7, TInvKept
<1>7. CASE s.field = "count"
  <2>1. PICK pc \in {"ended", "copy"} :
             /\ pc = IF s.i = Len(s.res) THEN "ended" ELSE "copy"
             /\ t = [pc |-> pc, res |-> s.res, i |-> s.i + 1, field |-> "word",
                     cur |-> s.cur + Slot, read |-> s.read]
    BY <1>1, <1>4, <1>7 DEF ChildOK, Advanced
  <2>2. s.i \in Nat \ {0} /\ Len(s.res) \in 0 .. K /\ s.i <= Len(s.res) /\ s.cur \in Nat
    BY <1>1 DEF ChildOK
  <2>3. K \in Nat
    BY TopKAssumption
  <2>4. pc = "copy" => s.i + 1 <= Len(s.res)
    BY <2>1, <2>2, <2>3
  <2>5. s.cur + Slot \in Nat /\ s.i + 1 \in Nat \ {0} /\ s.i + 1 <= Len(s.res) + 1
    BY <2>2, <2>3 DEF Slot, MAX_STR
  <2>6. ChildOK(t)
    BY <1>1, <2>1, <2>2, <2>4, <2>5 DEF ChildOK
  <2>7. Added(t) = Added(s) + 1
    BY <1>7, <2>1, <2>2 DEF Added, Slot, MAX_STR
  <2>8. Moves(c, t, 1)
    BY <1>s, <1>5, <2>7 DEF Moves
  <2>9. offset' \in Nat /\ offset' <= AllAdded + 1
    BY <1>1, <1>2, <1>5, <1>7 DEF Size, ChildOK
  <2>10. t.cur - Slot * (t.i - 1) <= OthersAdded(c)
    <3>1. t.cur = s.cur + Slot /\ t.i = s.i + 1
      BY <2>1
    <3>2. t.cur - Slot * (t.i - 1) = s.cur - Slot * (s.i - 1)
      BY <2>2, <3>1 DEF Slot, MAX_STR
    <3> QED
      BY <1>3, <3>2
  <2>11. Fits(c, t, 1)
    BY <1>5, <2>1, <2>6, <2>8, <2>9, <2>10 DEF Fits
  <2> QED
    BY <2>11, TInvKept
<1> QED
  BY <1>1, <1>6, <1>7 DEF ChildOK

LEMMA WorkerKeeps ==
  ASSUME TInv, NEW c \in Child, Worker(c)
  PROVE  TInv'
<1>s. PICK s : s = child[c]
  OBVIOUS
<1>1. ChildOK(s) /\ s.pc = "start" /\ s.i = 1 /\ s.field = "word"
  BY <1>s DEF TInv, Worker, ChildOK
<1>2. AllAdded \in Int /\ offset \in Nat /\ offset <= AllAdded
  BY AllAndOthers DEF TInv
<1>3. PICK r : r = IF Readable(c) THEN topKFrequent(Counted(files[c]), K) ELSE <<>>
  OBVIOUS
<1>4. Len(r) \in 0 .. K
  <2>1. CASE Readable(c)
    <3>1. Len(topKFrequent(Counted(files[c]), K)) \in 1 .. K
      BY <2>1, ResultLength DEF TInv
    <3> QED
      BY <1>3, <2>1, <3>1
  <2>2. CASE ~Readable(c)
    BY <1>3, <2>2, TopKAssumption
  <2> QED
    BY <2>1, <2>2
<1>5. PICK t : t = [s EXCEPT !.pc = "ended", !.res = r]
  OBVIOUS
<1>6. t = [pc |-> "ended", res |-> r, i |-> 1, field |-> "word", cur |-> s.cur, read |-> s.read]
  BY <1>1, <1>5 DEF ChildOK
<1>7. ChildOK(t)
  BY <1>1, <1>4, <1>6, TopKAssumption DEF ChildOK
<1>8. child' = [child EXCEPT ![c] = t]
  BY <1>s, <1>3, <1>5 DEF Worker
<1>9. Added(t) = Added(s) + 0
  BY <1>1, <1>6 DEF Added, Slot, MAX_STR
<1>10. Moves(c, t, 0)
  BY <1>s, <1>8, <1>9 DEF Moves
<1>11. Fits(c, t, 0)
  BY <1>2, <1>6, <1>7, <1>10 DEF Fits, Worker
<1> QED
  BY <1>11, TInvKept

LEMMA TInvNext == TInv /\ [TNext]_tvars => TInv'
<1> SUFFICES ASSUME TInv, [TNext]_tvars PROVE TInv'
  OBVIOUS
<1>1. CASE UNCHANGED <<files, child, offset>>
  BY <1>1 DEF TInv, AllAdded, OthersAdded, Copying
<1>2. ASSUME NEW c \in Child, ChildStep(c) PROVE TInv'
  BY <1>2, StartKeeps, LocateKeeps, CopyKeeps, LoadKeeps, StoreKeeps, WorkerKeeps DEF ChildStep
<1>3. CASE Merge
  BY <1>1, <1>3 DEF Merge
<1> QED
  BY <1>1, <1>2, <1>3 DEF TNext, Exited, tvars

LEMMA TInvAlways == TSpec => []TInv
  BY TInvInit, TInvNext, PTL DEF TSpec

\* The others have added at most K slots each.
LEMMA InvWithinSlots == TInv => WithinSlots
<1> SUFFICES ASSUME TInv, NEW c \in Child, Copying(c)
             PROVE  child[c].cur + Slot * (Len(child[c].res) - child[c].i + 1) <= N*K*Slot
  BY DEF WithinSlots
<1>n. N \in Nat /\ K \in Nat
  BY TopKAssumption
<1>1. ChildOK(child[c]) /\ child[c].cur - Slot * (child[c].i - 1) <= OthersAdded(c)
  BY DEF TInv
<1>2. PICK b \in Nat : b = K * Slot
  BY <1>n DEF Slot, MAX_STR
<1>3. PICK u : u = [d \in Child |-> IF d = c THEN 0 ELSE Added(child[d])]
  OBVIOUS
<1>4. PICK v : v = [u EXCEPT ![c] = b]
  OBVIOUS
<1>5. ASSUME NEW d \in Child PROVE Added(child[d]) \in 0 .. b
  <2>1. ChildOK(child[d])
    BY DEF TInv
  <2>2. Added(child[d]) \in 0 .. Slot * Len(child[d].res)
    BY <2>1, AddedType
  <2>3. Len(child[d].res) \in 0 .. K
    BY <2>1 DEF ChildOK
  <2> QED
    BY <1>n, <1>2, <2>2, <2>3 DEF Slot, MAX_STR
<1>6. u \in [Child -> Int] /\ v \in [Child -> Int] /\ u[c] = 0 /\ v[c] = b
  BY <1>2, <1>3, <1>4, <1>5
<1>7. \A d \in Child : d # c => v[d] = u[d]
  BY <1>4, <1>6
<1>8. \A d \in Child : v[d] <= b
  BY <1>3, <1>5, <1>6, <1>7
<1>9. SumOver(v) <= N * b
  BY <1>6, <1>8, SumBound
<1>10. SumOver(v) = SumOver(u) + b - 0
  BY <1>6, <1>7, SumChanged
<1>11. SumOver(u) \in Int /\ OthersAdded(c) = SumOver(u)
  BY <1>3, <1>6, SumType DEF OthersAdded
<1>12. N * b \in Nat /\ N * K * Slot = N * b
  BY <1>n, <1>2 DEF Slot, MAX_STR
<1>13. OthersAdded(c) + b <= N * b
  BY <1>9, <1>10, <1>11, <1>12
<1>14. Slot * Len(child[c].res) <= b
  BY <1>n, <1>1, <1>2 DEF ChildOK, Slot, MAX_STR
<1>15. child[c].cur \in Nat /\ child[c].i \in Nat /\ Len(child[c].res) \in Nat
  BY <1>n, <1>1 DEF ChildOK
<1>16. PICK cur \in Nat, i \in Nat, len \in Nat :
              cur = child[c].cur /\ i = child[c].i /\ len = Len(child[c].res)
  BY <1>15
<1>17. cur - 17 * (i - 1) <= OthersAdded(c) /\ 17 * len <= b
  BY <1>1, <1>14, <1>16 DEF Slot, MAX_STR
<1>18. cur + 17 * (len - i + 1) <= OthersAdded(c) + b
  BY <1>11, <1>17
<1>19. cur + 17 * (len - i + 1) <= N * b
  BY <1>11, <1>12, <1>13, <1>18
<1> QED
  BY <1>12, <1>16, <1>19 DEF Slot, MAX_STR

\* However the children race for the offset (proctopk.c:126-134), and whatever updates of it
\* they lose, none writes behind the N*K slots that the parent reads: the offset counts no
\* more than what has been copied.
THEOREM NoneWritesBehind == TSpec => []WithinSlots
  BY TInvAlways, InvWithinSlots, PTL

-------------------------------------------------------------------------------
(* The order of entries *)

LEMMA BeforeOrders ==
  ASSUME NEW a \in EntryType, NEW b \in EntryType
  PROVE  /\ a.word # b.word => Before(a, b) \/ Before(b, a)
         /\ ~(Before(a, b) /\ Before(b, a))
         /\ \A c \in EntryType : Before(a, b) /\ Before(b, c) => Before(a, c)
<1>1. a.word \in Int /\ a.freq \in Int /\ b.word \in Int /\ b.freq \in Int
  BY DEF EntryType
<1>2. \A c \in EntryType : c.word \in Int /\ c.freq \in Int
  BY DEF EntryType
<1> QED
  BY <1>1, <1>2 DEF Before

-------------------------------------------------------------------------------
(* The order in which sort() takes the pairs *)

\* What a division by n says; a divisor that is no numeral is beyond the provers,
\* who need QuotientUnique.
LEMMA Quotient ==
  ASSUME NEW v \in Nat, NEW n \in Nat \ {0}
  PROVE  /\ v \div n \in Nat /\ v % n \in 0 .. n-1
         /\ v = n * (v \div n) + (v % n)
OBVIOUS

\* The multiples of n are n apart.
LEMMA Multiples ==
  ASSUME NEW n \in Nat, NEW c \in Nat, NEW a \in Nat, a < c
  PROVE  n * a + n <= n * c
<1>1. PICK k \in Nat : c = a + 1 + k
  <2>1. c - a - 1 \in Nat /\ c = a + 1 + (c - a - 1)
    OBVIOUS
  <2> QED
    BY <2>1
<1>2. n * c = n * a + n + n * k
  BY <1>1
<1>3. n * k \in Nat /\ n * a \in Nat
  OBVIOUS
<1> QED
  BY <1>2, <1>3

\* A number has one quotient and one remainder.
LEMMA QuotientUnique ==
  ASSUME NEW n \in Nat \ {0}, NEW v \in Nat, NEW a \in Nat, NEW b \in 0 .. n-1,
         v = n * a + b
  PROVE  v \div n = a /\ v % n = b
<1>1. PICK c \in Nat, d \in 0 .. n-1 : c = v \div n /\ d = v % n /\ n * a + b = n * c + d
  BY Quotient
<1>2. n * a \in Nat /\ n * c \in Nat
  OBVIOUS
<1>3. ~(a < c)
  <2> SUFFICES ASSUME a < c PROVE FALSE
    OBVIOUS
  <2>1. n * a + n <= n * c
    BY Multiples
  <2> QED
    BY <1>1, <1>2, <2>1
<1>4. ~(c < a)
  <2> SUFFICES ASSUME c < a PROVE FALSE
    OBVIOUS
  <2>1. n * c + n <= n * a
    BY Multiples
  <2> QED
    BY <1>1, <1>2, <2>1
<1>5. a = c
  BY <1>3, <1>4
<1> QED
  BY <1>1, <1>2, <1>5

\* After a pair comes the next one of its row, or the first one of the next row.
LEMMA NextPair ==
  ASSUME NEW n \in Nat \ {0}, NEW p \in Nat
  PROVE  IF (p % n) + 1 < n
           THEN (p+1) \div n = p \div n /\ (p+1) % n = (p % n) + 1
           ELSE (p+1) \div n = (p \div n) + 1 /\ (p+1) % n = 0 /\ p % n = n-1
<1>1. PICK a \in Nat, b \in 0 .. n-1 : a = p \div n /\ b = p % n /\ p = n * a + b
  BY Quotient
<1>2. n * a \in Nat
  OBVIOUS
<1>3. CASE b + 1 < n
  <2>1. b+1 \in 0 .. n-1 /\ p+1 \in Nat /\ p+1 = n * a + (b+1)
    BY <1>1, <1>2, <1>3
  <2>2. (p+1) \div n = a /\ (p+1) % n = b+1
    BY <2>1, QuotientUnique, Zenon
  <2> QED
    BY <1>1, <1>3, <2>2
<1>4. CASE ~(b + 1 < n)
  <2>1. b = n-1
    BY <1>4
  <2>2. n * (a+1) = n * a + n
    OBVIOUS
  <2>3. p+1 = n * (a+1) + 0 /\ p+1 \in Nat /\ a+1 \in Nat /\ 0 \in 0 .. n-1
    BY <1>1, <1>2, <2>1, <2>2
  <2>4. (p+1) \div n = a+1 /\ (p+1) % n = 0
    BY <2>3, QuotientUnique, Zenon
  <2> QED
    BY <1>1, <1>4, <2>1, <2>4
<1> QED
  BY <1>1, <1>3, <1>4

\* n rows of n pairs each.
LEMMA AllPairs ==
  ASSUME NEW n \in Nat \ {0}
  PROVE  /\ n * n \in Nat
         /\ 0 \div n = 0 /\ 0 % n = 0
         /\ (n * n) \div n = n
         /\ \A p \in 0 .. n * n : p < n * n => p \div n < n
<1>1. n * n \in Nat /\ n * n = n * n + 0
  OBVIOUS
<1>2. (n * n) \div n = n
  BY <1>1, QuotientUnique
<1>3. 0 = n * 0 + 0
  OBVIOUS
<1>4. 0 \div n = 0 /\ 0 % n = 0
  BY <1>3, QuotientUnique
<1>5. ASSUME NEW p \in 0 .. n * n, p < n * n PROVE p \div n < n
  <2>1. PICK a \in Nat, b \in 0 .. n-1 : a = p \div n /\ p = n * a + b
    BY <1>1, Quotient
  <2>2. n * a \in Nat
    OBVIOUS
  <2>3. CASE n < a
    <3>1. n * n + n <= n * a
      BY <2>3, Multiples
    <3> QED
      BY <1>1, <1>5, <2>1, <2>2, <3>1
  <2>4. CASE n = a
    <3>1. n * a = n * n
      BY <2>4
    <3> QED
      BY <1>1, <1>5, <2>1, <3>1
  <2> QED
    BY <2>1, <2>3, <2>4
<1> QED
  BY <1>1, <1>2, <1>4, <1>5

-------------------------------------------------------------------------------
(* What sort() returns *)

Distinct(l) == \A j, k \in DOMAIN l : l[j].word = l[k].word => j = k

\* What sort() has done after p of its n * n comparisons: a holds l's entries, and of
\* every pair that it has compared the one that comes before the other is in front.
Done(n, p, j, k) == j <= p \div n \/ (j = (p \div n) + 1 /\ k <= p % n)

SortedSoFar(a, l, n, p) ==
  /\ a \in [1 .. n -> EntryType]
  /\ Distinct(a)
  /\ \A j \in 1 .. n : \E k \in 1 .. n : a[j] = l[k]
  /\ \A j \in 1 .. n : \E k \in 1 .. n : l[j] = a[k]
  /\ \A j, k \in 1 .. n : j < k /\ Done(n, p, j, k) => Before(a[j], a[k])

\* Comparison p+1 makes one more pair right and spoils none.
LEMMA SwapKeeps ==
  ASSUME NEW n \in Nat \ {0}, NEW p \in 0 .. n * n, p < n * n,
         NEW l, NEW a, SortedSoFar(a, l, n, p)
  PROVE  SortedSoFar(swap(a, (p \div n) + 1, (p % n) + 1), l, n, p+1)
<1>n. n * n \in Nat /\ p \in Nat
  BY AllPairs
<1>r. PICK r \in 0 .. n-1 : r = p \div n
  <2>1. p \div n \in Nat
    BY <1>n, Quotient
  <2>2. p \div n < n
    BY AllPairs
  <2> QED
    BY <2>1, <2>2
<1>m. PICK m \in 0 .. n-1 : m = p % n
  BY <1>n, Quotient
<1>i. PICK i \in 1 .. n : i = r+1
  OBVIOUS
<1>j. PICK j \in 1 .. n : j = m+1
  OBVIOUS
<1>1. /\ a \in [1 .. n -> EntryType] /\ DOMAIN a = 1 .. n
      /\ \A k \in 1 .. n : a[k] \in EntryType
      /\ \A k, h \in 1 .. n : a[k].word = a[h].word => k = h
      /\ \A k \in 1 .. n : \E h \in 1 .. n : a[k] = l[h]
      /\ \A k \in 1 .. n : \E h \in 1 .. n : l[k] = a[h]
  BY DEF SortedSoFar, Distinct
<1>2. \A k, h \in 1 .. n : k < h /\ (k <= r \/ (k = i /\ h <= m)) => Before(a[k], a[h])
  BY <1>r, <1>m, <1>i DEF SortedSoFar, Done
\* Compared by now: the pairs compared before, and i with j.
<1>3. \A k, h \in 1 .. n : k < h /\ Done(n, p+1, k, h) =>
        \/ k < i
        \/ k = i /\ h <= j
  <2> TAKE k, h \in 1 .. n
  <2> HAVE k < h /\ Done(n, p+1, k, h)
  <2>1. CASE m + 1 < n
    <3>1. (p+1) \div n = r /\ (p+1) % n = m+1
      BY <1>n, <1>r, <1>m, <2>1, NextPair
    <3> QED
      BY <1>i, <1>j, <3>1 DEF Done
  <2>2. CASE ~(m + 1 < n)
    <3>1. (p+1) \div n = r+1 /\ (p+1) % n = 0 /\ m = n-1
      BY <1>n, <1>r, <1>m, <2>2, NextPair
    <3>2. k <= i
      BY <1>i, <3>1 DEF Done
    <3> QED
      BY <1>j, <3>1, <3>2
  <2> QED
    BY <2>1, <2>2
<1>w. PICK w : w = swap(a, i, j)
  OBVIOUS
<1>e. swap(a, (p \div n) + 1, (p % n) + 1) = w
  BY <1>r, <1>m, <1>i, <1>j, <1>w
<1>4. CASE i < j /\ Before(a[j], a[i])
  <2>1. w = [a EXCEPT ![i] = a[j], ![j] = a[i]]
    BY <1>w, <1>4 DEF swap
  <2>2. /\ DOMAIN w = 1 .. n /\ w[i] = a[j] /\ w[j] = a[i]
        /\ \A k \in 1 .. n : k # i /\ k # j => w[k] = a[k]
    BY <1>1, <1>4, <2>1
  <2>3. w \in [1 .. n -> EntryType]
    BY <1>1, <2>1
  <2> DEFINE from(k) == IF k = i THEN j ELSE IF k = j THEN i ELSE k
  <2>5. \A k \in 1 .. n : from(k) \in 1 .. n /\ w[k] = a[from(k)] /\ from(from(k)) = k
    BY <2>2
  <2>6. Distinct(w)
    <3> SUFFICES ASSUME NEW k \in 1 .. n, NEW h \in 1 .. n, w[k].word = w[h].word PROVE k = h
      BY <2>2 DEF Distinct
    <3>1. from(k) \in 1 .. n /\ from(h) \in 1 .. n /\ a[from(k)].word = a[from(h)].word
      BY <2>5
    <3>2. from(k) = from(h)
      <4> HIDE DEF from
      <4> QED
        BY <1>1, <3>1
    <3>3. from(from(k)) = k /\ from(from(h)) = h
      BY <2>5
    <3> HIDE DEF from
    <3> QED
      BY <3>2, <3>3
  <2>7. \A k \in 1 .. n : \E h \in 1 .. n : w[k] = l[h]
    <3> TAKE k \in 1 .. n
    <3>1. from(k) \in 1 .. n /\ w[k] = a[from(k)]
      BY <2>5
    <3> HIDE DEF from
    <3> QED
      BY <1>1, <3>1
  <2>8. \A k \in 1 .. n : \E h \in 1 .. n : l[k] = w[h]
    <3> TAKE k \in 1 .. n
    <3>1. PICK h \in 1 .. n : l[k] = a[h]
      BY <1>1
    <3>2. from(h) \in 1 .. n /\ w[from(h)] = a[from(from(h))] /\ from(from(h)) = h
      BY <2>5
    <3> HIDE DEF from
    <3> QED
      BY <3>1, <3>2
  <2>9. \A k, h \in 1 .. n : k < h /\ Done(n, p+1, k, h) => Before(w[k], w[h])
    <3> TAKE k, h \in 1 .. n
    <3> HAVE k < h /\ Done(n, p+1, k, h)
    <3>1. CASE k < i
      <4>1. k # i /\ k # j /\ k <= r /\ w[k] = a[k]
        BY <1>4, <1>i, <2>2, <3>1
      <4>2. from(h) \in 1 .. n /\ w[h] = a[from(h)] /\ k < from(h)
        BY <1>4, <2>5, <3>1
      <4> HIDE DEF from
      <4> QED
        BY <1>2, <4>1, <4>2
    <3>2. CASE k = i /\ h = j
      BY <1>4, <2>2, <3>2
    <3>3. CASE k = i /\ h < j
      <4>1. h # i /\ h # j /\ h <= m /\ w[h] = a[h] /\ w[k] = a[j]
        BY <1>j, <2>2, <3>3
      <4>2. Before(a[i], a[h])
        BY <1>2, <3>3, <4>1
      <4>3. Before(a[j], a[h])
        BY <1>1, <1>4, <4>2, BeforeOrders
      <4> QED
        BY <4>1, <4>3
    <3>4. k < i \/ (k = i /\ h <= j)
      BY <1>3
    <3> QED
      BY <3>1, <3>2, <3>3, <3>4
  <2>10. SortedSoFar(w, l, n, p+1)
    BY <2>3, <2>6, <2>7, <2>8, <2>9 DEF SortedSoFar
  <2> QED
    BY <1>e, <2>10
<1>5. CASE ~(i < j /\ Before(a[j], a[i]))
  <2>1. w = a
    BY <1>w, <1>5 DEF swap
  <2>2. \A k, h \in 1 .. n : k < h /\ Done(n, p+1, k, h) => Before(a[k], a[h])
    <3> TAKE k, h \in 1 .. n
    <3> HAVE k < h /\ Done(n, p+1, k, h)
    <3>1. CASE k < i
      <4>1. k <= r
        BY <1>i, <3>1
      <4> QED
        BY <1>2, <4>1
    <3>2. CASE k = i /\ h = j
      <4>1. a[i] \in EntryType /\ a[j] \in EntryType /\ a[i].word # a[j].word
        BY <1>1, <3>2
      <4> QED
        BY <1>5, <3>2, <4>1, BeforeOrders
    <3>3. CASE k = i /\ h < j
      <4>1. h <= m
        BY <1>j, <3>3
      <4> QED
        BY <1>2, <3>3, <4>1
    <3>4. k < i \/ (k = i /\ h <= j)
      BY <1>3
    <3> QED
      BY <3>1, <3>2, <3>3, <3>4
  <2>3. a \in [1 .. n -> EntryType] /\ Distinct(a)
    BY DEF SortedSoFar
  <2>4. SortedSoFar(a, l, n, p+1)
    BY <1>1, <2>2, <2>3 DEF SortedSoFar
  <2> QED
    BY <1>e, <2>1, <2>4
<1> QED
  BY <1>4, <1>5

\* s holds the n entries of l in their order.
Sorts(s, l, n) ==
  /\ s \in [1 .. n -> EntryType] /\ Distinct(s)
  /\ \A j \in 1 .. n : \E k \in 1 .. n : s[j] = l[k]
  /\ \A j \in 1 .. n : \E k \in 1 .. n : l[j] = s[k]
  /\ \A j, k \in 1 .. n : j < k => Before(s[j], s[k])

\* sort() brings the entries of a list into their order, and loses none.
LEMMA SortSorts ==
  ASSUME NEW l \in List, Distinct(l)
  PROVE  Sorts(sort(l), l, Len(l))
<1>n. PICK n \in Nat : n = Len(l) /\ l \in [1 .. n -> EntryType]
  <2>1. Len(l) \in Nat /\ l \in [1 .. Len(l) -> EntryType]
    BY LenProperties DEF List, EntryType
  <2> QED
    BY <2>1
<1>nn. PICK nn \in Nat : nn = n * n
  OBVIOUS
<1> DEFINE turn(a, p) == swap(a, ((p-1) \div n) + 1, ((p-1) % n) + 1)
           step == [p \in Nat |-> [a \in List |-> turn(a, p)]]
           pass == CHOOSE f : Recursion(f, nn, l, step)
<1>1. sort(l) = pass[nn]
  BY <1>n, <1>nn DEF sort, Recursion
<1>2. ASSUME NEW p \in 0 .. nn, p < nn, NEW a, n # 0, SortedSoFar(a, l, n, p)
      PROVE  SortedSoFar(step[p+1][a], l, n, p+1)
  <2>1. (p+1)-1 = p /\ p+1 \in Nat
    OBVIOUS
  <2>2. a \in List
    <3>1. a \in [1 .. n -> EntryType]
      BY <1>2 DEF SortedSoFar
    <3> QED
      BY <1>n, <3>1 DEF List, EntryType
  <2>3. step[p+1][a] = turn(a, p+1)
    <3> HIDE DEF turn
    <3> QED
      BY <2>1, <2>2
  <2>4. turn(a, p+1) = swap(a, (p \div n) + 1, (p % n) + 1)
    BY <2>1
  <2> HIDE DEF step, turn
  <2>5. SortedSoFar(swap(a, (p \div n) + 1, (p % n) + 1), l, n, p+1)
    BY <1>n, <1>nn, <1>2, SwapKeeps
  <2> QED
    BY <2>3, <2>4, <2>5
<1> HIDE DEF step
<1>3. Recursion(pass, nn, l, step)
  BY StepByStep
<1> HIDE DEF pass
<1>4. pass[0] = l /\ \A p \in 1 .. nn : pass[p] = step[p][pass[p-1]]
  BY <1>3, RecursionIs
<1>5. CASE n = 0
  <2>1. nn = 0 /\ sort(l) = l
    BY <1>1, <1>4, <1>5, <1>nn
  <2> QED
    BY <1>5, <1>n, <2>1 DEF Sorts
<1>6. CASE n # 0
  <2> DEFINE Fine == {p \in 0 .. nn : SortedSoFar(pass[p], l, n, p)}
  <2>1. 0 \in Fine
    <3>1. 0 \div n = 0 /\ 0 % n = 0
      BY <1>n, <1>6, AllPairs
    <3> QED
      BY <1>4, <1>n, <3>1 DEF SortedSoFar, Done
  <2>2. ASSUME NEW p \in 0 .. nn, p < nn, p \in Fine PROVE p+1 \in Fine
    <3>1. p+1 \in 1 .. nn /\ p+1 \in 0 .. nn /\ (p+1)-1 = p
      BY <2>2
    <3>2. pass[p+1] = step[p+1][pass[p]]
      BY <1>4, <3>1
    <3>3. SortedSoFar(step[p+1][pass[p]], l, n, p+1)
      BY <1>2, <1>6, <2>2
    <3> QED
      BY <3>1, <3>2, <3>3
  <2>3. nn \in Fine
    <3> HIDE DEF Fine
    <3>1. \A p \in 0 .. nn : p \in Fine
      BY <2>1, <2>2, CountUp
    <3> QED
      BY <3>1
  <2>4. SortedSoFar(sort(l), l, n, nn)
    BY <1>1, <2>3
  <2>5. nn \div n = n
    BY <1>n, <1>nn, <1>6, AllPairs
  <2>6. \A j, k \in 1 .. n : Done(n, nn, j, k)
    BY <2>5 DEF Done
  <2> QED
    BY <1>n, <2>4, <2>6 DEF SortedSoFar, Sorts
<1> QED
  BY <1>5, <1>6

-------------------------------------------------------------------------------
(* What a list of inserted entries holds *)

\* e is the line of a word in a list that counts as the table t does; where blank slots are
\* inserted too, there may be one line for them, of the empty word and no count.
Line(e, t, blank) ==
  \/ Empty \in blank /\ e = Entry(Empty, 0)
  \/ e.word \in Word /\ e.freq = t[e.word] /\ e.freq > 0

\* The list has a line for every word that is counted, and no word has two.
Table(l, t, blank) ==
  /\ l \in List /\ Distinct(l)
  /\ t \in [Word -> Nat]
  /\ \A k \in DOMAIN l : Line(l[k], t, blank)
  /\ \A w \in Word : t[w] > 0 => \E k \in DOMAIN l : l[k].word = w

\* The entry e makes the table u of t.
Adds(t, e, u, blank) ==
  /\ t \in [Word -> Nat] /\ u \in [Word -> Nat]
  /\ e \in EntryType
  /\ \/ Empty \in blank /\ e = Entry(Empty, 0) /\ u = t
     \/ /\ e.word \in Word /\ e.freq > 0
        /\ u[e.word] = t[e.word] + e.freq
        /\ \A w \in Word : w # e.word => u[w] = t[w]

LEMMA InsertTables ==
  ASSUME NEW l, NEW t, NEW blank, NEW e, NEW u, Table(l, t, blank), Adds(t, e, u, blank)
  PROVE  Table(insert(l, e), u, blank)
<1>w. Word \subseteq Nat /\ Empty \notin Word
  BY TopKAssumption
<1>l. /\ l \in Seq(EntryType) /\ Len(l) \in Nat /\ DOMAIN l = 1 .. Len(l)
      /\ \A k \in DOMAIN l : l[k] \in EntryType
  <2>1. l \in Seq(EntryType)
    BY DEF Table, List, EntryType
  <2> QED
    BY <2>1, LenProperties, ElementOfSeq
<1>d. \A j, k \in DOMAIN l : l[j].word = l[k].word => j = k
  BY DEF Table, Distinct
<1>t. t \in [Word -> Nat] /\ u \in [Word -> Nat] /\ e \in EntryType
  BY DEF Adds
\* A word that e does not count keeps its line.
<1>1. ASSUME NEW k \in DOMAIN l, l[k].word # e.word PROVE Line(l[k], u, blank)
  <2>1. Line(l[k], t, blank)
    BY DEF Table
  <2>2. l[k].word \in Word => u[l[k].word] = t[l[k].word]
    BY <1>1 DEF Adds
  <2> QED
    BY <2>1, <2>2 DEF Line
<1>2. ASSUME NEW w \in Word, u[w] > 0, w # e.word PROVE \E k \in DOMAIN l : l[k].word = w
  <2>1. t[w] > 0
    BY <1>2 DEF Adds
  <2> QED
    BY <2>1 DEF Table
<1>3. CASE At(l, e.word) # {}
  <2>1. PICK k \in DOMAIN l : k = (CHOOSE j \in At(l, e.word) : TRUE) /\ l[k].word = e.word
    BY <1>3 DEF At
  <2>2. PICK m : m = [l[k] EXCEPT !.freq = @ + e.freq]
    OBVIOUS
  <2>3. l[k] = [word |-> l[k].word, freq |-> l[k].freq] /\ l[k].freq \in Int /\ e.freq \in Int
    BY <1>l, <1>t DEF EntryType
  <2>4. m = [word |-> e.word, freq |-> l[k].freq + e.freq]
    BY <2>1, <2>2, <2>3
  <2>5. m \in EntryType
    BY <1>t, <2>3, <2>4 DEF EntryType
  <2>6. PICK q : q = [l EXCEPT ![k] = m]
    OBVIOUS
  <2>7. insert(l, e) = q
    <3>1. insert(l, e) = [l EXCEPT ![CHOOSE j \in At(l, e.word) : TRUE].freq = @ + e.freq]
      BY <1>3 DEF insert
    <3> QED
      BY <2>1, <2>2, <2>6, <3>1
  <2>8. q \in Seq(EntryType) /\ DOMAIN q = DOMAIN l
    <3>1. k \in 1 .. Len(l)
      BY <1>l
    <3>2. [l EXCEPT ![k] = m] \in Seq(EntryType) /\ Len([l EXCEPT ![k] = m]) = Len(l)
      BY <1>l, <2>5, <3>1, ExceptSeq
    <3> QED
      BY <1>l, <2>6, <3>2
  <2>9. q[k] = m /\ \A j \in DOMAIN l : j # k => q[j] = l[j]
    BY <2>6
  <2>10. \A j \in DOMAIN l : q[j].word = l[j].word
    <3>1. m.word = e.word
      BY <2>4
    <3>2. q[k].word = l[k].word
      BY <2>1, <2>9, <3>1
    <3> QED
      BY <2>9, <3>2
  <2>11. Line(m, u, blank)
    <3>0. m.word = e.word /\ m.freq = l[k].freq + e.freq
      BY <2>4
    <3>1. Line(l[k], t, blank)
      BY DEF Table
    <3>2. CASE e.word \notin Word
      <4>1. Empty \in blank /\ e = Entry(Empty, 0)
        BY <3>2 DEF Adds
      <4>2. l[k] = Entry(Empty, 0)
        BY <2>1, <3>1, <3>2 DEF Line
      <4>3. e.word = Empty /\ e.freq = 0 /\ l[k].freq = 0
        BY <4>1, <4>2 DEF Entry
      <4>4. m = Entry(Empty, 0)
        BY <2>4, <4>3 DEF Entry
      <4> QED
        BY <4>1, <4>4 DEF Line
    <3>3. CASE e.word \in Word
      <4>1. e # Entry(Empty, 0)
        BY <1>w, <3>3 DEF Entry
      <4>2. u[e.word] = t[e.word] + e.freq /\ e.freq > 0
        BY <4>1 DEF Adds
      <4>3. l[k] # Entry(Empty, 0)
        BY <1>w, <2>1, <3>3 DEF Entry
      <4>4. l[k].freq = t[e.word] /\ l[k].freq > 0
        BY <2>1, <3>1, <4>3 DEF Line
      <4>5. m.freq = u[m.word] /\ m.freq > 0
        BY <2>3, <3>0, <4>2, <4>4
      <4> QED
        BY <3>0, <3>3, <4>5 DEF Line
    <3> QED
      BY <3>2, <3>3
  <2>12. \A j \in DOMAIN q : Line(q[j], u, blank)
    <3> TAKE j \in DOMAIN q
    <3>1. CASE j = k
      BY <2>9, <2>11, <3>1
    <3>2. CASE j # k
      <4>1. j \in DOMAIN l /\ l[j].word # e.word /\ q[j] = l[j]
        BY <1>d, <2>1, <2>8, <2>9, <3>2
      <4> QED
        BY <1>1, <4>1
    <3> QED
      BY <3>1, <3>2
  <2>13. \A w \in Word : u[w] > 0 => \E j \in DOMAIN q : q[j].word = w
    BY <1>2, <2>1, <2>8, <2>10
  <2>14. Distinct(q)
    BY <1>d, <2>8, <2>10 DEF Distinct
  <2> QED
    BY <1>t, <2>7, <2>8, <2>12, <2>13, <2>14 DEF Table, List, EntryType
<1>4. CASE At(l, e.word) = {}
  <2>1. \A k \in DOMAIN l : l[k].word # e.word
    BY <1>4 DEF At
  <2>2. CASE l = <<>> /\ e.word = Empty
    <3>1. insert(l, e) = l
      BY <1>4, <2>2 DEF insert
    <3>2. u = t
      BY <1>w, <2>2 DEF Adds
    <3> QED
      BY <3>1, <3>2
  <2>3. CASE ~(l = <<>> /\ e.word = Empty)
    <3>1. PICK q : q = Append(l, e)
      OBVIOUS
    <3>2. insert(l, e) = q
      BY <1>4, <2>3, <3>1 DEF insert
    <3>3. /\ q \in Seq(EntryType) /\ Len(q) = Len(l) + 1
          /\ q[Len(l)+1] = e
          /\ \A k \in 1 .. Len(l) : q[k] = l[k]
      BY <1>l, <1>t, <3>1, AppendProperties
    <3>4. DOMAIN q = 1 .. Len(l)+1
      BY <3>3, LenProperties
    <3>5. Line(e, u, blank)
      <4>1. CASE e.word \notin Word
        BY <4>1 DEF Adds, Line
      <4>2. CASE e.word \in Word
        <5>1. ~(t[e.word] > 0)
          BY <2>1, <4>2 DEF Table
        <5>2. e # Entry(Empty, 0)
          BY <1>w, <4>2 DEF Entry
        <5>3. u[e.word] = t[e.word] + e.freq /\ e.freq > 0
          BY <5>2 DEF Adds
        <5>4. e.freq \in Int /\ t[e.word] \in Nat
          BY <1>t, <4>2 DEF EntryType
        <5>5. e.freq = u[e.word]
          BY <5>1, <5>3, <5>4
        <5> QED
          BY <4>2, <5>3, <5>5 DEF Line
      <4> QED
        BY <4>1, <4>2
    <3>6. \A j \in DOMAIN q : j \in DOMAIN l \/ j = Len(l)+1
      BY <1>l, <3>4
    <3>7. \A j \in DOMAIN q : Line(q[j], u, blank)
      <4> TAKE j \in DOMAIN q
      <4>1. CASE j \in DOMAIN l
        BY <1>l, <1>1, <2>1, <3>3, <4>1
      <4>2. CASE j = Len(l)+1
        BY <3>3, <3>5, <4>2
      <4> QED
        BY <3>6, <4>1, <4>2
    <3>8. Distinct(q)
      <4> SUFFICES ASSUME NEW j \in DOMAIN q, NEW k \in DOMAIN q, q[j].word = q[k].word
                   PROVE  j = k
        BY DEF Distinct
      <4>1. CASE j \in DOMAIN l /\ k \in DOMAIN l
        BY <1>l, <1>d, <3>3, <4>1
      <4>2. CASE j \in DOMAIN l /\ k = Len(l)+1
        BY <1>l, <2>1, <3>3, <4>2
      <4>3. CASE j = Len(l)+1 /\ k \in DOMAIN l
        BY <1>l, <2>1, <3>3, <4>3
      <4> QED
        BY <3>6, <4>1, <4>2, <4>3
    <3>9. \A w \in Word : u[w] > 0 => \E j \in DOMAIN q : q[j].word = w
      <4> TAKE w \in Word
      <4> HAVE u[w] > 0
      <4>1. CASE w = e.word
        <5>1. Len(l)+1 \in DOMAIN q
          BY <1>l, <3>4
        <5> QED
          BY <3>3, <4>1, <5>1
      <4>2. CASE w # e.word
        <5>1. PICK k \in DOMAIN l : l[k].word = w
          BY <1>2, <4>2
        <5>2. k \in DOMAIN q /\ q[k] = l[k]
          BY <1>l, <3>3, <3>4
        <5> QED
          BY <5>1, <5>2
      <4> QED
        BY <4>1, <4>2
    <3> QED
      BY <1>t, <3>2, <3>3, <3>7, <3>8, <3>9 DEF Table, List, EntryType
  <2> QED
    BY <2>2, <2>3
<1> QED
  BY <1>3, <1>4

\* The tables that the entries make one after the other.
Tallies(tally, entries, blank) ==
  /\ entries \in Seq(EntryType)
  /\ tally[0] = [w \in Word |-> 0]
  /\ \A k \in 1 .. Len(entries) : Adds(tally[k-1], entries[k], tally[k], blank)

LEMMA InsertAllTables ==
  ASSUME NEW tally, NEW entries, NEW blank, Tallies(tally, entries, blank)
  PROVE  Table(insertAll(entries), tally[Len(entries)], blank)
<1>n. PICK n \in Nat : n = Len(entries)
  BY LenProperties DEF Tallies
<1> DEFINE step == [k \in Nat |-> [l \in List |-> insert(l, entries[k])]]
           list == CHOOSE f : Recursion(f, n, <<>>, step)
<1>1. insertAll(entries) = list[n]
  BY <1>n DEF insertAll, Recursion
<1>2. ASSUME NEW k \in 1 .. n, NEW l, Table(l, tally[k-1], blank)
      PROVE  Table(step[k][l], tally[k], blank)
  <2>1. l \in List
    BY <1>2 DEF Table
  <2>2. step[k][l] = insert(l, entries[k])
    BY <2>1
  <2>3. Adds(tally[k-1], entries[k], tally[k], blank)
    BY <1>n DEF Tallies
  <2> HIDE DEF step
  <2> QED
    BY <1>2, <2>2, <2>3, InsertTables
<1> HIDE DEF step
<1>3. Recursion(list, n, <<>>, step)
  BY StepByStep
<1> HIDE DEF list
<1>4. list[0] = <<>> /\ \A k \in 1 .. n : list[k] = step[k][list[k-1]]
  BY <1>3, RecursionIs
<1> DEFINE Fine == {k \in 0 .. n : Table(list[k], tally[k], blank)}
<1>5. 0 \in Fine
  <2>1. PICK t : t = [w \in Word |-> 0]
    OBVIOUS
  <2>2. t \in [Word -> Nat] /\ \A w \in Word : ~(t[w] > 0)
    BY <2>1
  <2>3. <<>> \in List /\ DOMAIN <<>> = {}
    BY DEF List
  <2>4. Table(<<>>, t, blank)
    BY <2>2, <2>3 DEF Table, Distinct
  <2> QED
    BY <1>4, <2>1, <2>4 DEF Tallies
<1>6. ASSUME NEW k \in 0 .. n, k < n, k \in Fine PROVE k+1 \in Fine
  <2>1. k+1 \in 1 .. n /\ (k+1)-1 = k /\ k+1 \in 0 .. n
    BY <1>6
  <2>2. list[k+1] = step[k+1][list[k]]
    BY <1>4, <2>1
  <2>3. Table(list[k], tally[(k+1)-1], blank)
    BY <1>6, <2>1
  <2>4. Table(step[k+1][list[k]], tally[k+1], blank)
    BY <1>2, <2>1, <2>3
  <2> QED
    BY <2>1, <2>2, <2>4
<1>7. n \in Fine
  <2> HIDE DEF Fine
  <2>1. \A k \in 0 .. n : k \in Fine
    BY <1>5, <1>6, CountUp
  <2> QED
    BY <2>1
<1> QED
  BY <1>n, <1>1, <1>7

\* The list of a file's words counts how often each of them occurs.
LEMMA CountedTable ==
  ASSUME NEW f \in Seq(Token)
  PROVE  Table(Counted(f), [w \in Word |-> Occurs(f, w)], {})
<1>n. PICK n \in Nat : n = Len(f) /\ DOMAIN f = 1 .. n
  BY LenProperties
<1>w. \A k \in 1 .. n : uppercase[f[k]] \in Word /\ uppercase[f[k]] \in Int
  <2> TAKE k \in 1 .. n
  <2>1. f[k] \in Token
    BY <1>n, ElementOfSeq
  <2> QED
    BY <2>1, TopKAssumption DEF Word
<1>e. PICK entries : entries = [k \in 1 .. n |-> Entry(uppercase[f[k]], 1)]
  OBVIOUS
<1>1. \A k \in 1 .. n : /\ entries[k] \in EntryType
                        /\ entries[k].word = uppercase[f[k]] /\ entries[k].freq = 1
  BY <1>e, <1>w DEF Entry, EntryType
<1>2. entries \in Seq(EntryType) /\ Len(entries) = n
  BY <1>e, <1>1, IsASeq, LenProperties
<1> DEFINE Seen(k, w) == {j \in 1 .. k : uppercase[f[j]] = w}
<1>3. PICK tally : tally = [k \in 0 .. n |-> [w \in Word |-> Cardinality(Seen(k, w))]]
  OBVIOUS
<1>4. ASSUME NEW k \in 0 .. n, NEW w \in Word
      PROVE  IsFiniteSet(Seen(k, w)) /\ tally[k][w] = Cardinality(Seen(k, w)) /\ tally[k][w] \in Nat
  <2>1. IsFiniteSet(1 .. k)
    BY FS_Interval
  <2>2. Seen(k, w) \in SUBSET (1 .. k)
    OBVIOUS
  <2> HIDE DEF Seen
  <2>3. IsFiniteSet(Seen(k, w))
    BY <2>1, <2>2, FS_Subset
  <2>4. tally[k][w] = Cardinality(Seen(k, w))
    BY <1>3
  <2> QED
    BY <2>3, <2>4, FS_CardinalityType
<1>5. \A k \in 0 .. n : tally[k] \in [Word -> Nat]
  BY <1>3, <1>4
<1>6. tally[0] = [w \in Word |-> 0]
  <2>1. ASSUME NEW w \in Word PROVE tally[0][w] = 0
    <3>1. Seen(0, w) = {}
      OBVIOUS
    <3> HIDE DEF Seen
    <3>2. tally[0][w] = Cardinality(Seen(0, w))
      BY <1>4
    <3> QED
      BY <3>1, <3>2, FS_EmptySet
  <2> QED
    BY <1>5, <2>1
<1>7. ASSUME NEW k \in 1 .. n PROVE Adds(tally[k-1], entries[k], tally[k], {})
  <2>1. k-1 \in 0 .. n /\ k \in 0 .. n /\ (k-1)+1 = k
    OBVIOUS
  <2>2. PICK u \in Word : u = uppercase[f[k]]
    BY <1>w
  <2>3. tally[k][u] = tally[k-1][u] + 1
    <3>1. Seen(k, u) = Seen(k-1, u) \cup {k} /\ k \notin Seen(k-1, u)
      BY <2>2
    <3> HIDE DEF Seen
    <3>2. IsFiniteSet(Seen(k-1, u)) /\ tally[k-1][u] = Cardinality(Seen(k-1, u))
      BY <1>4, <2>1
    <3>3. tally[k][u] = Cardinality(Seen(k, u))
      BY <1>4, <2>1
    <3> QED
      BY <3>1, <3>2, <3>3, FS_AddElement
  <2>4. ASSUME NEW w \in Word, w # u PROVE tally[k][w] = tally[k-1][w]
    <3>1. Seen(k, w) = Seen(k-1, w)
      BY <2>2, <2>4
    <3> HIDE DEF Seen
    <3>2. tally[k-1][w] = Cardinality(Seen(k-1, w)) /\ tally[k][w] = Cardinality(Seen(k, w))
      BY <1>4, <2>1
    <3> QED
      BY <3>1, <3>2
  <2>5. tally[k-1] \in [Word -> Nat] /\ tally[k] \in [Word -> Nat]
    BY <1>5, <2>1
  <2>6. entries[k] \in EntryType /\ entries[k].word = u /\ entries[k].freq = 1
    BY <1>1, <2>2
  <2> QED
    BY <2>3, <2>4, <2>5, <2>6 DEF Adds
<1>8. Tallies(tally, entries, {})
  BY <1>2, <1>6, <1>7 DEF Tallies
<1>9. Table(insertAll(entries), tally[n], {})
  BY <1>2, <1>8, InsertAllTables
<1>10. Counted(f) = insertAll(entries)
  BY <1>n, <1>e DEF Counted
<1>11. tally[n] = [w \in Word |-> Occurs(f, w)]
  <2>1. f # NoFile
    BY TopKAssumption
  <2>2. ASSUME NEW w \in Word PROVE tally[n][w] = Occurs(f, w)
    <3>1. Seen(n, w) = {j \in DOMAIN f : uppercase[f[j]] = w}
      BY <1>n
    <3>2. Occurs(f, w) = Cardinality(Seen(n, w))
      BY <2>1, <3>1 DEF Occurs
    <3> HIDE DEF Seen
    <3> QED
      BY <1>4, <3>2
  <2>3. tally[n] \in [Word -> Nat]
    BY <1>5
  <2>4. tally[n] = [w \in Word |-> tally[n][w]]
    BY <2>3
  <2> QED
    BY <2>2, <2>4
<1> QED
  BY <1>9, <1>10, <1>11

-------------------------------------------------------------------------------
(* What topKFrequent() returns *)

\* s is a list's table in the order of the entries.
Ranked(s, n, t, blank) ==
  /\ s \in [1 .. n -> EntryType] /\ Distinct(s)
  /\ t \in [Word -> Nat]
  /\ \A k \in 1 .. n : Line(s[k], t, blank)
  /\ \A w \in Word : t[w] > 0 => \E k \in 1 .. n : s[k].word = w
  /\ \A j, k \in 1 .. n : j < k => Before(s[j], s[k])

\* The words before a word are those of the lines before its line.
LEMMA WordsBefore ==
  ASSUME NEW n \in Nat, NEW s, NEW t, NEW blank, Ranked(s, n, t, blank),
         NEW p \in 1 .. n, s[p].word \in Word
  PROVE  Cardinality({v \in Word : Before(Entry(v, t[v]), Entry(s[p].word, t[s[p].word]))}) = p-1
<1>w. Word \subseteq Nat /\ Empty \notin Word
  BY TopKAssumption
<1>1. /\ s \in [1 .. n -> EntryType] /\ t \in [Word -> Nat]
      /\ \A k \in 1 .. n : s[k] \in EntryType
      /\ \A j, k \in 1 .. n : s[j].word = s[k].word => j = k
      /\ \A k \in 1 .. n : Line(s[k], t, blank)
      /\ \A w \in Word : t[w] > 0 => \E k \in 1 .. n : s[k].word = w
      /\ \A j, k \in 1 .. n : j < k => Before(s[j], s[k])
  BY DEF Ranked, Distinct
<1>2. \A k \in 1 .. n : s[k].word \in Word => s[k] = Entry(s[k].word, t[s[k].word]) /\ s[k].freq > 0
  <2> TAKE k \in 1 .. n
  <2> HAVE s[k].word \in Word
  <2>1. s[k] = [word |-> s[k].word, freq |-> s[k].freq]
    BY <1>1 DEF EntryType
  <2>2. s[k] # Entry(Empty, 0)
    BY <1>w DEF Entry
  <2>3. s[k].freq = t[s[k].word] /\ s[k].freq > 0
    BY <1>1, <2>2 DEF Line
  <2> QED
    BY <2>1, <2>3 DEF Entry
<1>e. Entry(s[p].word, t[s[p].word]) = s[p] /\ s[p].freq > 0
  BY <1>2
<1>b. PICK b : b = {v \in Word : Before(Entry(v, t[v]), s[p])}
  OBVIOUS
<1>3. ASSUME NEW v PROVE v \in b <=> \E q \in 1 .. p-1 : v = s[q].word
  <2>1. ASSUME v \in b PROVE \E q \in 1 .. p-1 : v = s[q].word
    <3>1. v \in Word /\ Before(Entry(v, t[v]), s[p])
      BY <1>b, <2>1
    <3>2. t[v] \in Nat /\ s[p].freq \in Int
      BY <1>1, <3>1 DEF EntryType
    <3>3. t[v] >= s[p].freq
      BY <3>1, <3>2 DEF Before, Entry
    <3>4. t[v] > 0
      BY <1>e, <3>2, <3>3
    <3>5. PICK q \in 1 .. n : s[q].word = v
      BY <1>1, <3>1, <3>4
    <3>6. Before(s[q], s[p])
      BY <1>2, <3>1, <3>5
    <3>7. q < p
      <4>1. ~Before(s[p], s[q])
        BY <1>1, <3>6, BeforeOrders
      <4>2. q # p
        BY <3>6, <4>1
      <4>3. ~(p < q)
        BY <1>1, <4>1
      <4> QED
        BY <4>2, <4>3
    <3> QED
      BY <3>5, <3>7
  <2>2. ASSUME NEW q \in 1 .. p-1, v = s[q].word PROVE v \in b
    <3>1. q \in 1 .. n /\ q < p
      OBVIOUS
    <3>2. Before(s[q], s[p])
      BY <1>1, <3>1
    <3>3. s[q].freq > 0
      <4>1. s[q].freq \in Int /\ s[p].freq \in Int
        BY <1>1, <3>1 DEF EntryType
      <4> QED
        BY <1>e, <3>2, <4>1 DEF Before
    <3>4. s[q] # Entry(Empty, 0)
      BY <3>3 DEF Entry
    <3>5. v \in Word
      BY <1>1, <2>2, <3>1, <3>4 DEF Line
    <3>6. s[q] = Entry(v, t[v])
      BY <1>2, <2>2, <3>1, <3>5
    <3> QED
      BY <1>b, <3>2, <3>5, <3>6
  <2> QED
    BY <2>1, <2>2
<1>4. PICK f : f = [q \in 1 .. p-1 |-> s[q].word]
  OBVIOUS
<1>5. f \in Bijection(1 .. p-1, b)
  <2>1. \A q \in 1 .. p-1 : f[q] = s[q].word /\ f[q] \in b
    BY <1>3, <1>4
  <2>2. f \in [1 .. p-1 -> b]
    BY <1>4, <2>1
  <2>3. \A j, k \in 1 .. p-1 : f[j] = f[k] => j = k
    <3> TAKE j, k \in 1 .. p-1
    <3>1. j \in 1 .. n /\ k \in 1 .. n
      OBVIOUS
    <3> QED
      BY <1>1, <2>1, <3>1
  <2>4. \A v \in b : \E q \in 1 .. p-1 : f[q] = v
    BY <1>3, <2>1
  <2> QED
    BY <2>2, <2>3, <2>4, Fun_IsBij
<1>6. ExistsBijection(1 .. p-1, b)
  BY <1>5 DEF ExistsBijection
<1>7. IsFiniteSet(1 .. p-1) /\ Cardinality(1 .. p-1) = p-1
  BY FS_Interval
<1>8. Cardinality(b) = p-1
  BY <1>6, <1>7, FS_Bijection
<1> QED
  BY <1>b, <1>e, <1>8

\* The lines of the words that are no blank slots.
Words(l) == [k \in {j \in DOMAIN l : l[j].word # Empty} |-> l[k]]

\* What is left of a list shows the K best words of its table, and maybe a blank slot.
LEMMA BestShown ==
  ASSUME NEW l, NEW t, NEW blank, Table(l, t, blank), l # <<>>, NEW r, r = topKFrequent(l, K)
  PROVE  /\ r \in List /\ Distinct(r)
         /\ \A k \in DOMAIN r : Line(r[k], t, blank)
         /\ Shows(Words(r), t, K)
<1>k. K \in Nat \ {0}
  BY TopKAssumption
<1>w. Word \subseteq Nat /\ Empty \notin Word
  BY TopKAssumption
<1>l. /\ l \in List /\ Distinct(l) /\ t \in [Word -> Nat]
      /\ \A k \in DOMAIN l : Line(l[k], t, blank)
      /\ \A w \in Word : t[w] > 0 => \E k \in DOMAIN l : l[k].word = w
  BY DEF Table
<1>n. PICK n \in Nat : n = Len(l) /\ DOMAIN l = 1 .. n /\ n # 0
  <2>1. l \in Seq([word : Int, freq : Int])
    BY <1>l DEF List
  <2> QED
    BY <2>1, LenProperties, EmptySeq
<1>s. PICK s : s = sort(l)
  OBVIOUS
<1>1. /\ s \in [1 .. n -> EntryType] /\ Distinct(s)
      /\ \A j \in 1 .. n : \E k \in 1 .. n : s[j] = l[k]
      /\ \A j \in 1 .. n : \E k \in 1 .. n : l[j] = s[k]
      /\ \A j, k \in 1 .. n : j < k => Before(s[j], s[k])
  BY <1>l, <1>n, <1>s, SortSorts DEF Sorts
<1>2. Ranked(s, n, t, blank)
  <2>1. \A k \in 1 .. n : Line(s[k], t, blank)
    BY <1>l, <1>n, <1>1
  <2>2. ASSUME NEW w \in Word, t[w] > 0 PROVE \E k \in 1 .. n : s[k].word = w
    <3>1. PICK j \in 1 .. n : l[j].word = w
      BY <1>l, <1>n, <2>2
    <3>2. PICK k \in 1 .. n : l[j] = s[k]
      BY <1>1
    <3> QED
      BY <3>1, <3>2
  <2> QED
    BY <1>l, <1>1, <2>1, <2>2 DEF Ranked
<1>m. PICK m \in 1 .. n : m = IF n < K THEN n ELSE K
  BY <1>k, <1>n
<1>3. /\ r \in Seq(EntryType) /\ DOMAIN r = 1 .. m
      /\ \A k \in 1 .. m : r[k] = s[k]
  <2>1. r = SubSeq(s, 1, m)
    BY <1>n, <1>s, <1>m DEF topKFrequent
  <2>2. \A i \in 1 .. m : s[i] \in EntryType
    BY <1>1
  <2>3. /\ SubSeq(s, 1, m) \in Seq(EntryType)
        /\ Len(SubSeq(s, 1, m)) = IF 1 <= m THEN m - 1 + 1 ELSE 0
        /\ \A i \in 1 .. m - 1 + 1 : SubSeq(s, 1, m)[i] = s[1 + i - 1]
    BY <2>2, SubSeqProperties
  <2>4. Len(r) = m
    BY <2>1, <2>3
  <2>5. \A i \in 1 .. m : r[i] = s[i]
    <3> TAKE i \in 1 .. m
    <3>1. 1 + i - 1 = i /\ i \in 1 .. m - 1 + 1
      OBVIOUS
    <3>2. SubSeq(s, 1, m)[i] = s[1 + i - 1]
      BY <2>3, <3>1
    <3> QED
      BY <2>1, <3>1, <3>2
  <2> QED
    BY <2>1, <2>3, <2>4, <2>5, LenProperties
<1>4. Distinct(r)
  <2> SUFFICES ASSUME NEW j \in 1 .. m, NEW k \in 1 .. m, r[j].word = r[k].word PROVE j = k
    BY <1>3 DEF Distinct
  <2>1. j \in 1 .. n /\ k \in 1 .. n /\ DOMAIN s = 1 .. n
    BY <1>1
  <2> QED
    BY <1>1, <1>3, <2>1 DEF Distinct
<1>5. \A k \in DOMAIN r : Line(r[k], t, blank)
  <2> TAKE k \in DOMAIN r
  <2>1. k \in 1 .. n /\ r[k] = s[k]
    BY <1>3
  <2> QED
    BY <1>2, <2>1 DEF Ranked
<1>p. PICK p : p = Words(r)
  OBVIOUS
<1>6. /\ DOMAIN p = {k \in 1 .. m : s[k].word # Empty}
      /\ \A k \in DOMAIN p : p[k] = s[k] /\ k \in 1 .. m /\ k \in 1 .. n
  BY <1>3, <1>p DEF Words
<1>7. ASSUME NEW k \in DOMAIN p PROVE p[k].word \in Word /\ p[k].freq = t[p[k].word] /\ p[k].freq > 0
  <2>1. Line(s[k], t, blank) /\ s[k].word # Empty
    BY <1>2, <1>6 DEF Ranked
  <2>2. s[k] # Entry(Empty, 0)
    BY <2>1 DEF Entry
  <2> QED
    BY <1>6, <2>1, <2>2 DEF Line
<1>8. ASSUME NEW w PROVE w \in {p[k].word : k \in DOMAIN p} <=> w \in Best(t, K)
  <2>1. ASSUME NEW k \in DOMAIN p, w = p[k].word PROVE w \in Best(t, K)
    <3>1. w \in Word /\ t[w] > 0 /\ k \in 1 .. m /\ k \in 1 .. n /\ w = s[k].word
      BY <1>6, <1>7, <2>1
    <3>2. Cardinality({v \in Word : Before(Entry(v, t[v]), Entry(w, t[w]))}) = k-1
      BY <1>2, <3>1, WordsBefore
    <3>3. k-1 < K
      BY <1>k, <1>m, <3>1
    <3>4. DOMAIN t = Word
      BY <1>l
    <3> QED
      BY <3>1, <3>2, <3>3, <3>4 DEF Best
  <2>2. ASSUME w \in Best(t, K) PROVE \E k \in DOMAIN p : w = p[k].word
    <3>1. DOMAIN t = Word
      BY <1>l
    <3>2. /\ w \in Word /\ t[w] > 0
          /\ Cardinality({v \in Word : Before(Entry(v, t[v]), Entry(w, t[w]))}) < K
      BY <2>2, <3>1 DEF Best
    <3>3. PICK k \in 1 .. n : s[k].word = w
      BY <1>2, <3>2 DEF Ranked
    <3>4. Cardinality({v \in Word : Before(Entry(v, t[v]), Entry(w, t[w]))}) = k-1
      BY <1>2, <3>2, <3>3, WordsBefore
    <3>5. k-1 < K
      BY <3>2, <3>4
    <3>6. k \in 1 .. m
      BY <1>k, <1>m, <3>5
    <3>7. s[k].word # Empty
      BY <1>w, <3>2, <3>3
    <3> QED
      BY <1>6, <3>3, <3>6, <3>7
  <2> QED
    BY <2>1, <2>2
<1>9. \A j, k \in DOMAIN p : j < k => Before(p[j], p[k])
  BY <1>1, <1>6
<1>10. Shows(p, t, K)
  <2>1. {p[k].word : k \in DOMAIN p} = Best(t, K)
    BY <1>8
  <2> QED
    BY <1>7, <1>9, <2>1 DEF Shows
<1>11. r \in List
  BY <1>3 DEF List, EntryType
<1> QED
  BY <1>4, <1>5, <1>10, <1>11, <1>p

-------------------------------------------------------------------------------
(* What a child finds *)

\* r holds the K best words of the table t, with their counts.
IsResult(r, t) ==
  /\ r \in Seq(EntryType) /\ Distinct(r)
  /\ \A k \in DOMAIN r : r[k].word \in Word /\ r[k].freq = t[r[k].word] /\ r[k].freq > 0
  /\ {r[k].word : k \in DOMAIN r} = Best(t, K)

FileCount(c) == [w \in Word |-> Occurs(files[c], w)]

\* A child that reads its file finds its best words; there are none in a file that is
\* missing or empty.
LEMMA ResultOf ==
  ASSUME files \in Inputs, NEW c \in Child
  PROVE  /\ FileCount(c) \in [Word -> Nat]
         /\ Readable(c) => IsResult(topKFrequent(Counted(files[c]), K), FileCount(c))
         /\ ~Readable(c) => IsResult(<<>>, FileCount(c))
<1>w. Word \subseteq Nat /\ Empty \notin Word
  BY TopKAssumption
<1>1. CASE Readable(c)
  <2>1. PICK f \in Seq(Token) : f = files[c] /\ f # <<>>
    BY <1>1, TopKAssumption DEF Readable
  <2>2. PICK t : t = FileCount(c)
    OBVIOUS
  <2>3. PICK l : l = Counted(f)
    OBVIOUS
  <2>4. Table(l, t, {})
    BY <2>1, <2>2, <2>3, CountedTable DEF FileCount
  <2>5. l # <<>>
    <3>1. PICK n \in Nat : n = Len(f) /\ n # 0 /\ DOMAIN f = 1 .. n
      BY <2>1, LenProperties, EmptySeq
    <3>2. 1 \in 1 .. n /\ f[1] \in Token
      BY <3>1, ElementOfSeq
    <3>3. PICK w \in Word : w = uppercase[f[1]]
      BY <3>2 DEF Word
    <3>4. PICK seen : seen = {k \in DOMAIN f : uppercase[f[k]] = w}
      OBVIOUS
    <3>5. seen # {} /\ seen \in SUBSET (1 .. n)
      BY <3>1, <3>2, <3>3, <3>4
    <3>6. IsFiniteSet(seen)
      <4>1. IsFiniteSet(1 .. n)
        BY FS_Interval
      <4> QED
        BY <3>5, <4>1, FS_Subset
    <3>7. Cardinality(seen) \in Nat /\ Cardinality(seen) # 0
      BY <3>5, <3>6, FS_CardinalityType, FS_EmptySet
    <3>8. f # NoFile
      BY TopKAssumption
    <3>9. t[w] = Cardinality(seen)
      BY <2>1, <2>2, <3>3, <3>4, <3>8 DEF FileCount, Occurs
    <3>10. \E k \in DOMAIN l : l[k].word = w
      BY <2>4, <3>7, <3>9 DEF Table
    <3> QED
      BY <3>10
  <2>6. PICK r : r = topKFrequent(l, K)
    OBVIOUS
  <2>7. /\ r \in List /\ Distinct(r)
        /\ \A k \in DOMAIN r : Line(r[k], t, {})
        /\ Shows(Words(r), t, K)
    BY <2>4, <2>5, <2>6, BestShown
  <2>8. \A k \in DOMAIN r : r[k].word \in Word /\ r[k].freq = t[r[k].word] /\ r[k].freq > 0
    BY <2>7 DEF Line
  <2>9. Words(r) = [k \in DOMAIN r |-> r[k]]
    BY <1>w, <2>8 DEF Words
  <2>10. {r[k].word : k \in DOMAIN r} = Best(t, K)
    BY <2>7, <2>9 DEF Shows
  <2>11. IsResult(r, t)
    BY <2>7, <2>8, <2>10 DEF IsResult, List, EntryType
  <2>12. t \in [Word -> Nat]
    BY <2>4 DEF Table
  <2> QED
    BY <1>1, <2>1, <2>2, <2>3, <2>6, <2>11, <2>12
<1>2. CASE ~Readable(c)
  <2>1. files[c] = NoFile \/ files[c] = <<>>
    BY <1>2 DEF Readable
  <2>2. \A w \in Word : Occurs(files[c], w) = 0
    <3> TAKE w \in Word
    <3>1. CASE files[c] = NoFile
      BY <3>1 DEF Occurs
    <3>2. CASE files[c] = <<>>
      <4>1. {k \in DOMAIN files[c] : uppercase[files[c][k]] = w} = {}
        BY <3>2
      <4>2. Cardinality({}) = 0
        BY FS_EmptySet
      <4> QED
        BY <4>1, <4>2 DEF Occurs
    <3> QED
      BY <2>1, <3>1, <3>2
  <2>3. PICK t : t = FileCount(c)
    OBVIOUS
  <2>4. t \in [Word -> Nat] /\ \A w \in Word : t[w] = 0
    BY <2>2, <2>3 DEF FileCount
  <2>5. Best(t, K) = {}
    BY <2>4 DEF Best
  <2>6. <<>> \in Seq(EntryType) /\ DOMAIN <<>> = {}
    OBVIOUS
  <2>7. IsResult(<<>>, t)
    BY <2>5, <2>6 DEF IsResult, Distinct
  <2> QED
    BY <1>2, <2>3, <2>4, <2>7
<1> QED
  BY <1>1, <1>2

-------------------------------------------------------------------------------
(* What the parent makes of the results *)

LEMMA SumNat ==
  ASSUME NEW v \in [Child -> Nat]
  PROVE  SumOver(v) \in Nat
<1>n. N \in Nat /\ Child = 1 .. N
  BY TopKAssumption DEF Child
<1>v. v \in [Child -> Int]
  OBVIOUS
<1>1. PICK s : Totals(s, v) /\ SumOver(v) = s[N]
  BY <1>v, SumDefined
<1> DEFINE Fine == {d \in 0 .. N : s[d] \in Nat}
<1>2. 0 \in Fine
  BY <1>n, <1>1 DEF Totals
<1>3. ASSUME NEW d \in 0 .. N, d < N, d \in Fine PROVE d+1 \in Fine
  <2>1. d+1 \in Child /\ (d+1)-1 = d /\ d+1 \in 0 .. N
    BY <1>n, <1>3
  <2>2. s[d+1] = s[d] + v[d+1] /\ v[d+1] \in Nat /\ s[d] \in Nat
    BY <1>1, <1>3, <2>1 DEF Totals
  <2> QED
    BY <2>1, <2>2
<1>4. N \in Fine
  <2> HIDE DEF Fine
  <2>1. \A d \in 0 .. N : d \in Fine
    BY <1>n, <1>2, <1>3, CountUp
  <2> QED
    BY <1>n, <2>1
<1> QED
  BY <1>1, <1>4

\* The results r lie in the entries, each child's behind its base; no two share a place, and
\* all other places are blank.
Laid(entries, r, base) ==
  /\ entries \in Seq(EntryType) /\ base \in [Child -> Nat]
  /\ \A c \in Child : \A k \in DOMAIN r[c] :
       base[c] + k \in 1 .. Len(entries) /\ entries[base[c] + k] = r[c][k]
  /\ \A c, d \in Child : \A k \in DOMAIN r[c], j \in DOMAIN r[d] :
       base[c] + k = base[d] + j => c = d /\ k = j
  /\ \A m \in 1 .. Len(entries) :
       \/ entries[m] = Entry(Empty, 0)
       \/ \E c \in Child : \E k \in DOMAIN r[c] : m = base[c] + k

\* What child c has counted of w, if its line is among the first m entries.
Share(r, base, t, c, w, m) ==
  IF \E k \in DOMAIN r[c] : base[c] + k <= m /\ r[c][k].word = w THEN t[c][w] ELSE 0

Shares(r, base, t, w, m) == [c \in Child |-> Share(r, base, t, c, w, m)]

\* The table u counts what lies among the first m entries.
SumsShares(u, r, base, t, m) == u = [w \in Word |-> SumOver(Shares(r, base, t, w, m))]

\* The next entry adds one child's count of one word, or nothing.
LEMMA ShareAdded ==
  ASSUME NEW entries, NEW r, NEW base, Laid(entries, r, base),
         NEW t, \A c \in Child : t[c] \in [Word -> Nat] /\ IsResult(r[c], t[c]),
         NEW m \in 1 .. Len(entries),
         NEW u, SumsShares(u, r, base, t, m-1), NEW v, SumsShares(v, r, base, t, m)
  PROVE  Adds(u, entries[m], v, {Empty})
<1>u. /\ u = [w \in Word |-> SumOver(Shares(r, base, t, w, m-1))]
      /\ v = [w \in Word |-> SumOver(Shares(r, base, t, w, m))]
  BY DEF SumsShares
<1>l. /\ base \in [Child -> Nat]
      /\ \A c \in Child : \A k \in DOMAIN r[c] :
           base[c] + k \in 1 .. Len(entries) /\ entries[base[c] + k] = r[c][k]
      /\ \A c, d \in Child : \A k \in DOMAIN r[c], j \in DOMAIN r[d] :
           base[c] + k = base[d] + j => c = d /\ k = j
  BY DEF Laid
<1>r. /\ \A c \in Child : \A k \in DOMAIN r[c] :
           /\ k \in Nat
           /\ r[c][k].word \in Word /\ r[c][k].freq = t[c][r[c][k].word] /\ r[c][k].freq > 0
      /\ \A c \in Child : \A j, k \in DOMAIN r[c] : r[c][j].word = r[c][k].word => j = k
  <2>1. \A c \in Child : r[c] \in Seq(EntryType)
    BY DEF IsResult
  <2>2. \A c \in Child : Len(r[c]) \in Nat /\ DOMAIN r[c] = 1 .. Len(r[c])
    BY <2>1, LenProperties
  <2> QED
    BY <2>2 DEF IsResult, Distinct
<1>m. Len(entries) \in Nat /\ m \in Int /\ entries[m] \in EntryType
  <2>1. entries \in Seq(EntryType)
    BY DEF Laid
  <2>2. Len(entries) \in Nat
    BY <2>1, LenProperties
  <2> QED
    BY <2>1, <2>2, ElementOfSeq
<1>1. ASSUME NEW w \in Word, NEW i \in Int
      PROVE  Shares(r, base, t, w, i) \in [Child -> Nat]
  BY DEF Shares, Share
<1>2. u \in [Word -> Nat] /\ v \in [Word -> Nat]
  <2>1. ASSUME NEW w \in Word, NEW i \in Int PROVE SumOver(Shares(r, base, t, w, i)) \in Nat
    BY <1>1, SumNat
  <2>2. m-1 \in Int
    BY <1>m
  <2> QED
    BY <1>m, <1>u, <2>1, <2>2
<1>3. CASE \E c \in Child : \E k \in DOMAIN r[c] : m = base[c] + k
  <2>1. PICK c \in Child : \E k \in DOMAIN r[c] : m = base[c] + k
    BY <1>3
  <2>2. PICK k \in DOMAIN r[c] : m = base[c] + k
    BY <2>1
  <2>3. PICK x \in Word : x = r[c][k].word /\ entries[m] = r[c][k]
    BY <1>l, <1>r, <2>2
  <2>4. entries[m].word = x /\ entries[m].freq = t[c][x] /\ entries[m].freq > 0
    BY <1>r, <2>3
  \* Between the two tables lies only this place.
  <2>5. ASSUME NEW d \in Child, NEW j \in DOMAIN r[d]
        PROVE  base[d] + j <= m <=> base[d] + j <= m-1 \/ (d = c /\ j = k)
    <3>1. base[d] + j \in Int /\ base[c] + k = m
      BY <1>l, <1>r, <2>2
    <3>2. base[d] + j = m <=> d = c /\ j = k
      BY <1>l, <2>2, <3>1
    <3> QED
      BY <1>m, <3>1, <3>2
  <2>6. ASSUME NEW w \in Word, NEW d \in Child, w # x \/ d # c
        PROVE  Share(r, base, t, d, w, m) = Share(r, base, t, d, w, m-1)
    <3>1. \A j \in DOMAIN r[d] : r[d][j].word = w => ~(d = c /\ j = k)
      BY <2>3, <2>6
    <3> QED
      BY <2>5, <3>1 DEF Share
  <2>7. ASSUME NEW w \in Word, w # x PROVE v[w] = u[w]
    <3>1. Shares(r, base, t, w, m) = Shares(r, base, t, w, m-1)
      BY <2>6, <2>7 DEF Shares
    <3> QED
      BY <1>u, <3>1
  <2>8. v[x] = u[x] + entries[m].freq
    <3>1. PICK a : a = Shares(r, base, t, x, m-1)
      OBVIOUS
    <3>2. PICK b : b = Shares(r, base, t, x, m)
      OBVIOUS
    <3>3. a \in [Child -> Nat] /\ b \in [Child -> Nat]
      <4>1. m-1 \in Int
        BY <1>m
      <4> QED
        BY <1>1, <1>m, <3>1, <3>2, <4>1
    <3>4. \A d \in Child : d # c => b[d] = a[d]
      BY <2>6, <3>1, <3>2 DEF Shares
    <3>5. b[c] = t[c][x]
      <4>1. base[c] + k <= m
        BY <1>m, <2>2
      <4> QED
        BY <2>3, <3>2, <4>1 DEF Shares, Share
    <3>6. a[c] = 0
      <4>1. \A j \in DOMAIN r[c] : r[c][j].word = x => ~(base[c] + j <= m-1)
        BY <1>m, <1>r, <2>2, <2>3
      <4> QED
        BY <3>1, <4>1 DEF Shares, Share
    <3>7. SumOver(b) = SumOver(a) + b[c] - a[c]
      <4>1. a \in [Child -> Int] /\ b \in [Child -> Int]
        BY <3>3
      <4> QED
        BY <3>4, <4>1, SumChanged
    <3>8. v[x] = SumOver(b) /\ u[x] = SumOver(a) /\ u[x] \in Nat /\ b[c] \in Nat
      BY <1>2, <1>u, <3>1, <3>2, <3>3
    <3> QED
      BY <2>4, <3>5, <3>6, <3>7, <3>8
  <2> QED
    BY <1>2, <1>m, <2>4, <2>7, <2>8 DEF Adds
<1>4. CASE ~ \E c \in Child : \E k \in DOMAIN r[c] : m = base[c] + k
  <2>1. entries[m] = Entry(Empty, 0)
    BY <1>4 DEF Laid
  <2>2. ASSUME NEW w \in Word PROVE Shares(r, base, t, w, m) = Shares(r, base, t, w, m-1)
    <3>1. \A d \in Child : \A j \in DOMAIN r[d] : base[d] + j <= m <=> base[d] + j <= m-1
      <4> TAKE d \in Child
      <4> TAKE j \in DOMAIN r[d]
      <4>1. base[d] + j \in Int /\ base[d] + j # m
        BY <1>4, <1>l, <1>r
      <4> QED
        BY <1>m, <4>1
    <3> QED
      BY <3>1 DEF Shares, Share
  <2>3. v = u
    BY <1>u, <2>2
  <2> QED
    BY <1>2, <1>m, <2>1, <2>3 DEF Adds
<1> QED
  BY <1>3, <1>4

\* The list that the parent builds sums up what each child has counted of its best words.
LEMMA MergedTable ==
  ASSUME NEW entries, NEW r, NEW base, Laid(entries, r, base),
         NEW t, \A c \in Child : t[c] \in [Word -> Nat] /\ IsResult(r[c], t[c])
  PROVE  Table(insertAll(entries),
               [w \in Word |-> SumOver([c \in Child |-> IF w \in Best(t[c], K) THEN t[c][w] ELSE 0])],
               {Empty})
<1>n. PICK n \in Nat : n = Len(entries) /\ entries \in Seq(EntryType)
  <2>1. entries \in Seq(EntryType)
    BY DEF Laid
  <2> QED
    BY <2>1, LenProperties
<1>1. PICK tally : tally = [m \in 0 .. n |-> [w \in Word |-> SumOver(Shares(r, base, t, w, m))]]
  OBVIOUS
<1>r. \A c \in Child : \A k \in DOMAIN r[c] : base[c] + k \in 1 .. n
  BY <1>n DEF Laid
<1>2. tally[0] = [w \in Word |-> 0]
  <2>1. ASSUME NEW w \in Word PROVE SumOver(Shares(r, base, t, w, 0)) = 0
    <3>1. \A c \in Child : \A k \in DOMAIN r[c] : ~(base[c] + k <= 0)
      BY <1>r
    <3>2. Shares(r, base, t, w, 0) = [c \in Child |-> 0]
      BY <3>1 DEF Shares, Share
    <3> QED
      BY <3>2, SumZero
  <2> QED
    BY <1>1, <2>1
<1>3. ASSUME NEW m \in 1 .. n PROVE Adds(tally[m-1], entries[m], tally[m], {Empty})
  <2>1. m-1 \in 0 .. n /\ m \in 0 .. n
    OBVIOUS
  <2>2. SumsShares(tally[m-1], r, base, t, m-1) /\ SumsShares(tally[m], r, base, t, m)
    BY <1>1, <2>1 DEF SumsShares
  <2>3. m \in 1 .. Len(entries)
    BY <1>n
  <2> QED
    BY <2>2, <2>3, ShareAdded
<1>4. Tallies(tally, entries, {Empty})
  BY <1>n, <1>2, <1>3 DEF Tallies
<1>5. Table(insertAll(entries), tally[n], {Empty})
  BY <1>n, <1>4, InsertAllTables
<1>6. ASSUME NEW w \in Word
      PROVE  Shares(r, base, t, w, n) = [c \in Child |-> IF w \in Best(t[c], K) THEN t[c][w] ELSE 0]
  <2>1. ASSUME NEW c \in Child
        PROVE  (\E k \in DOMAIN r[c] : base[c] + k <= n /\ r[c][k].word = w) <=> w \in Best(t[c], K)
    <3>1. {r[c][k].word : k \in DOMAIN r[c]} = Best(t[c], K)
      BY DEF IsResult
    <3>2. \A k \in DOMAIN r[c] : base[c] + k <= n
      BY <1>r
    <3> QED
      BY <3>1, <3>2
  <2> QED
    BY <2>1 DEF Shares, Share
<1>7. tally[n] = [w \in Word |->
                   SumOver([c \in Child |-> IF w \in Best(t[c], K) THEN t[c][w] ELSE 0])]
  <2>1. tally[n] = [w \in Word |-> SumOver(Shares(r, base, t, w, n))]
    BY <1>1
  <2> QED
    BY <1>6, <2>1
<1> QED
  BY <1>5, <1>7

\* The threads' results lie one behind the other.
LEMMA ResultsLaid ==
  ASSUME NEW r, r = [c \in Child |-> child[c].res], \A c \in Child : r[c] \in Seq(EntryType)
  PROVE  \E base : Laid(Results, r, base)
<1>n. N \in Nat /\ Child = 1 .. N
  BY TopKAssumption DEF Child
<1>r. \A c \in Child : Len(r[c]) \in Nat /\ DOMAIN r[c] = 1 .. Len(r[c]) /\ r[c] = child[c].res
  BY LenProperties
<1> DEFINE next == [c \in 1 .. N |-> [a \in Seq(EntryType) |-> a \o r[c]]]
           Follows(f) == f = [c \in 0 .. N |-> IF c = 0 THEN <<>> ELSE f[c-1] \o child[c].res]
           all == CHOOSE f : Follows(f)
<1>1. PICK s : /\ s = [c \in 0 .. N |-> s[c]]
               /\ s[0] = <<>>
               /\ \A c \in 1 .. N : s[c] = next[c][s[c-1]]
  <2> HIDE DEF next
  <2>1. PICK f : Recursion(f, N, <<>>, next)
    BY <1>n, StepByStep
  <2> QED
    BY <1>n, <2>1, RecursionIs
<1>2. ASSUME NEW a \in Seq(EntryType), NEW c \in 1 .. N
      PROVE  next[c][a] = a \o r[c] /\ a \o r[c] \in Seq(EntryType)
  BY <1>n, ConcatProperties
<1> HIDE DEF next
<1>3. \A c \in 0 .. N : s[c] \in Seq(EntryType)
  <2> DEFINE Fine == {c \in 0 .. N : s[c] \in Seq(EntryType)}
  <2>1. 0 \in Fine
    <3>1. <<>> \in Seq(EntryType)
      OBVIOUS
    <3>2. s[0] \in Seq(EntryType)
      BY <1>1, <3>1
    <3> QED
      BY <1>n, <3>2
  <2>2. ASSUME NEW c \in 0 .. N, c < N, c \in Fine PROVE c+1 \in Fine
    <3>1. c+1 \in 1 .. N /\ (c+1)-1 = c /\ c+1 \in 0 .. N
      BY <1>n, <2>2
    <3>2. s[c] \in Seq(EntryType)
      BY <2>2
    <3>3. s[c+1] = next[c+1][s[c]]
      BY <1>1, <3>1
    <3>4. next[c+1][s[c]] \in Seq(EntryType)
      BY <1>2, <3>1, <3>2
    <3> QED
      BY <3>1, <3>3, <3>4
  <2> HIDE DEF Fine
  <2>3. \A c \in 0 .. N : c \in Fine
    BY <1>n, <2>1, <2>2, CountUp
  <2> QED
    BY <2>3 DEF Fine
<1>4. \A c \in 1 .. N : s[c] = s[c-1] \o r[c]
  <2> TAKE c \in 1 .. N
  <2>1. c-1 \in 0 .. N
    BY <1>n
  <2> QED
    BY <1>1, <1>2, <1>3, <2>1
<1>5. Follows(s)
  <2>1. ASSUME NEW c \in 0 .. N PROVE s[c] = IF c = 0 THEN <<>> ELSE s[c-1] \o child[c].res
    <3>1. CASE c = 0
      BY <1>1, <3>1
    <3>2. CASE c # 0
      <4>1. c \in 1 .. N /\ r[c] = child[c].res
        BY <1>n, <1>r, <3>2
      <4>2. s[c] = s[c-1] \o child[c].res
        BY <1>4, <4>1
      <4> QED
        BY <3>2, <4>2
    <3> QED
      BY <3>1, <3>2
  <2> QED
    BY <1>1, <2>1
<1>6. Follows(all)
  BY <1>5
<1>7. Results = all[N]
  BY DEF Results
<1> HIDE DEF all
<1>8. all[0] = <<>> /\ \A c \in 1 .. N : all[c] = all[c-1] \o r[c]
  <2>1. \A c \in 0 .. N : all[c] = IF c = 0 THEN <<>> ELSE all[c-1] \o child[c].res
    BY <1>6
  <2>2. ASSUME NEW c \in 1 .. N PROVE all[c] = all[c-1] \o r[c]
    <3>1. c \in 0 .. N /\ c # 0 /\ r[c] = child[c].res
      BY <1>n, <1>r
    <3> QED
      BY <2>1, <3>1
  <2>3. 0 \in 0 .. N
    BY <1>n
  <2>4. all[0] = <<>>
    BY <2>1, <2>3
  <2> QED
    BY <2>2, <2>4
<1>9. \A c \in 0 .. N : all[c] = s[c]
  <2> DEFINE Fine == {c \in 0 .. N : all[c] = s[c]}
  <2>1. 0 \in Fine
    BY <1>n, <1>1, <1>8
  <2>2. ASSUME NEW c \in 0 .. N, c < N, c \in Fine PROVE c+1 \in Fine
    <3>1. c+1 \in 1 .. N /\ (c+1)-1 = c /\ c+1 \in 0 .. N
      BY <1>n, <2>2
    <3>2. all[c] = s[c]
      BY <2>2
    <3>3. s[c+1] = s[c] \o r[c+1] /\ all[c+1] = all[c] \o r[c+1]
      BY <1>4, <1>8, <3>1
    <3> QED
      BY <3>1, <3>2, <3>3
  <2> HIDE DEF Fine
  <2>3. \A c \in 0 .. N : c \in Fine
    BY <1>n, <2>1, <2>2, CountUp
  <2> QED
    BY <2>3 DEF Fine
<1>10. PICK len : len = [c \in 0 .. N |-> Len(s[c])]
  OBVIOUS
<1>11. len \in [0 .. N -> Nat] /\ len[0] = 0
  BY <1>n, <1>1, <1>3, <1>10, LenProperties
<1>12. ASSUME NEW c \in 1 .. N
       PROVE  /\ len[c] = len[c-1] + Len(r[c])
              /\ \A i \in 1 .. len[c] : s[c][i] = IF i <= len[c-1] THEN s[c-1][i] ELSE r[c][i - len[c-1]]
  <2>1. c \in 0 .. N /\ c-1 \in 0 .. N
    BY <1>n
  <2>2. s[c-1] \in Seq(EntryType) /\ r[c] \in Seq(EntryType) /\ s[c] = s[c-1] \o r[c]
    BY <1>n, <1>3, <1>4, <2>1
  <2>3. len[c] = Len(s[c]) /\ len[c-1] = Len(s[c-1])
    BY <1>10, <2>1
  <2>4. PICK a \in Seq(EntryType), b \in Seq(EntryType) : a = s[c-1] /\ b = r[c]
    BY <2>2
  <2>5. /\ Len(a \o b) = Len(a) + Len(b)
        /\ \A i \in 1 .. Len(a) + Len(b) : (a \o b)[i] = IF i <= Len(a) THEN a[i] ELSE b[i - Len(a)]
    BY ConcatProperties
  <2>6. s[c] = a \o b /\ len[c] = Len(a) + Len(b) /\ len[c-1] = Len(a)
    BY <2>2, <2>3, <2>4, <2>5
  <2>7. len[c] = len[c-1] + Len(r[c])
    BY <2>4, <2>6
  <2>8. ASSUME NEW i \in 1 .. len[c]
        PROVE  s[c][i] = IF i <= len[c-1] THEN s[c-1][i] ELSE r[c][i - len[c-1]]
    <3>1. s[c][i] = IF i <= Len(a) THEN a[i] ELSE b[i - Len(a)]
      BY <2>5, <2>6
    <3> QED
      BY <2>4, <2>6, <3>1
  <2> QED
    BY <2>7, <2>8
\* What is there stays there.
<1>13. \A d \in 0 .. N : \A c \in 0 .. d :
          len[c] <= len[d] /\ \A i \in 1 .. len[c] : s[d][i] = s[c][i]
  <2> DEFINE Fine == {d \in 0 .. N : \A c \in 0 .. d :
                        len[c] <= len[d] /\ \A i \in 1 .. len[c] : s[d][i] = s[c][i]}
  <2>1. 0 \in Fine
    BY <1>n, <1>11
  <2>2. ASSUME NEW d \in 0 .. N, d < N, d \in Fine PROVE d+1 \in Fine
    <3>1. d+1 \in 1 .. N /\ (d+1)-1 = d /\ d+1 \in 0 .. N
      BY <1>n, <2>2
    <3>2. /\ len[d+1] = len[d] + Len(r[d+1]) /\ Len(r[d+1]) \in Nat /\ len[d] \in Nat
          /\ \A i \in 1 .. len[d+1] : i <= len[d] => s[d+1][i] = s[d][i]
      BY <1>n, <1>r, <1>11, <1>12, <3>1
    <3>3. ASSUME NEW c \in 0 .. d+1
          PROVE  len[c] <= len[d+1] /\ \A i \in 1 .. len[c] : s[d+1][i] = s[c][i]
      <4>1. CASE c = d+1
        BY <1>11, <3>1, <4>1
      <4>2. CASE c # d+1
        <5>1. c \in 0 .. d /\ c \in 0 .. N
          BY <4>2, <1>n
        <5>2. len[c] <= len[d] /\ \A i \in 1 .. len[c] : s[d][i] = s[c][i]
          BY <2>2, <5>1
        <5>3. len[c] \in Nat
          BY <1>11, <5>1
        <5>4. \A i \in 1 .. len[c] : i \in 1 .. len[d+1] /\ i <= len[d]
          BY <3>2, <5>2, <5>3
        <5> QED
          BY <3>2, <5>2, <5>3, <5>4
      <4> QED
        BY <4>1, <4>2
    <3> QED
      BY <3>1, <3>3
  <2> HIDE DEF Fine
  <2>3. \A d \in 0 .. N : d \in Fine
    BY <1>n, <2>1, <2>2, CountUp
  <2> QED
    BY <2>3 DEF Fine
<1>b. PICK base : base = [c \in Child |-> len[c-1]]
  OBVIOUS
<1>14. \A c \in Child : c \in 0 .. N /\ c-1 \in 0 .. N /\ base[c] = len[c-1] /\ base[c] \in Nat
                        /\ len[c] \in Nat /\ len[c] = base[c] + Len(r[c])
  <2> TAKE c \in Child
  <2>1. c \in 1 .. N /\ c \in 0 .. N /\ c-1 \in 0 .. N
    BY <1>n
  <2>2. base[c] = len[c-1] /\ len[c] = len[c-1] + Len(r[c])
    BY <1>b, <1>12, <2>1
  <2> QED
    BY <1>11, <2>1, <2>2
<1>15. \A c \in Child : \A k \in DOMAIN r[c] :
          base[c] + k \in 1 .. len[N] /\ s[N][base[c] + k] = r[c][k]
  <2> TAKE c \in Child
  <2> TAKE k \in DOMAIN r[c]
  <2>1. k \in 1 .. Len(r[c]) /\ Len(r[c]) \in Nat
    BY <1>r
  <2>2. base[c] + k \in 1 .. len[c] /\ ~(base[c] + k <= base[c]) /\ (base[c] + k) - base[c] = k
    BY <1>14, <2>1
  <2>3. s[c][base[c] + k] = r[c][k]
    <3>1. c \in 1 .. N
      BY <1>n
    <3>2. PICK i \in 1 .. len[c] : i = base[c] + k
      BY <2>2
    <3>3. s[c][i] = IF i <= len[c-1] THEN s[c-1][i] ELSE r[c][i - len[c-1]]
      BY <1>12, <3>1
    <3>4. len[c-1] = base[c]
      BY <1>14
    <3> QED
      BY <2>2, <3>2, <3>3, <3>4
  <2>4. c \in 0 .. N /\ N \in 0 .. N
    BY <1>n
  <2>5. len[c] <= len[N] /\ s[N][base[c] + k] = s[c][base[c] + k]
    BY <1>13, <2>2, <2>4
  <2>6. len[N] \in Nat
    BY <1>11, <2>4
  <2> QED
    BY <1>14, <2>2, <2>3, <2>5, <2>6
<1>16. ASSUME NEW c \in Child, NEW d \in Child, NEW k \in DOMAIN r[c], NEW j \in DOMAIN r[d], c < d
       PROVE  base[c] + k < base[d] + j
  <2>1. k \in 1 .. Len(r[c]) /\ j \in 1 .. Len(r[d])
    BY <1>r
  <2>2. c \in 0 .. d-1 /\ d-1 \in 0 .. N
    BY <1>n, <1>16
  <2>3. len[c] <= len[d-1]
    BY <1>13, <2>2
  <2>4. base[c] \in Nat /\ len[c] = base[c] + Len(r[c]) /\ base[d] \in Nat /\ base[d] = len[d-1]
    BY <1>14
  <2>5. Len(r[c]) \in Nat /\ Len(r[d]) \in Nat
    BY <1>r
  <2>6. PICK x \in Nat, y \in Nat, z \in Nat : x = base[c] /\ y = base[d] /\ z = Len(r[c])
    BY <2>4, <2>5
  <2>7. x + z <= y
    BY <2>3, <2>4, <2>6
  <2>8. k \in Nat /\ j \in Nat /\ k <= z /\ 1 <= j
    BY <2>1, <2>5, <2>6
  <2>9. x + k < y + j
    BY <2>7, <2>8
  <2> QED
    BY <2>6, <2>9
<1>17. \A c, d \in Child : \A k \in DOMAIN r[c], j \in DOMAIN r[d] :
          base[c] + k = base[d] + j => c = d /\ k = j
  <2> TAKE c, d \in Child
  <2> TAKE k \in DOMAIN r[c], j \in DOMAIN r[d]
  <2> HAVE base[c] + k = base[d] + j
  <2>1. k \in Nat /\ j \in Nat /\ base[c] \in Nat /\ base[d] \in Nat /\ c \in Int /\ d \in Int
    <3>1. k \in 1 .. Len(r[c]) /\ Len(r[c]) \in Nat /\ j \in 1 .. Len(r[d]) /\ Len(r[d]) \in Nat
      BY <1>r
    <3> QED
      BY <1>n, <1>14, <3>1
  <2>2. ~(c < d)
    BY <1>16, <2>1
  <2>3. ~(d < c)
    BY <1>16, <2>1
  <2> QED
    BY <2>1, <2>2, <2>3
<1>18. \A m \in 1 .. len[N] : \E c \in Child : \E k \in DOMAIN r[c] : m = base[c] + k
  <2> DEFINE Fine == {d \in 0 .. N : \A m \in 1 .. len[d] :
                        \E c \in Child : \E k \in DOMAIN r[c] : m = base[c] + k}
  <2>1. 0 \in Fine
    BY <1>n, <1>11
  <2>2. ASSUME NEW d \in 0 .. N, d < N, d \in Fine PROVE d+1 \in Fine
    <3>1. d+1 \in Child /\ (d+1)-1 = d /\ d+1 \in 0 .. N
      BY <1>n, <2>2
    <3>2. base[d+1] = len[d] /\ len[d+1] = len[d] + Len(r[d+1]) /\ len[d] \in Nat
      BY <1>14, <3>1
    <3>3. ASSUME NEW m \in 1 .. len[d+1]
          PROVE  \E c \in Child : \E k \in DOMAIN r[c] : m = base[c] + k
      <4>1. CASE m <= len[d]
        <5>1. m \in 1 .. len[d]
          BY <3>2, <4>1
        <5> QED
          BY <2>2, <5>1
      <4>2. CASE ~(m <= len[d])
        <5>1. m - len[d] \in DOMAIN r[d+1] /\ m = base[d+1] + (m - len[d])
          BY <1>r, <3>1, <3>2, <4>2
        <5> QED
          BY <3>1, <5>1
      <4> QED
        BY <4>1, <4>2
    <3> QED
      BY <3>1, <3>3
  <2>3. N \in Fine
    <3> HIDE DEF Fine
    <3>1. \A d \in 0 .. N : d \in Fine
      BY <1>n, <2>1, <2>2, CountUp
    <3> QED
      BY <1>n, <3>1
  <2> QED
    BY <2>3
<1>19. N \in 0 .. N /\ Results = s[N] /\ s[N] \in Seq(EntryType) /\ Len(s[N]) = len[N]
  BY <1>n, <1>3, <1>7, <1>9, <1>10
<1>20. base \in [Child -> Nat]
  BY <1>b, <1>14
<1>21. Laid(s[N], r, base)
  BY <1>15, <1>17, <1>18, <1>19, <1>20 DEF Laid
<1> QED
  BY <1>19, <1>21

\* What the parent prints of results that lie in the entries is their sum.
LEMMA MergeShows ==
  ASSUME files \in Inputs,
         \A c \in Child : IsResult(child[c].res, FileCount(c)),
         NEW r, r = [c \in Child |-> child[c].res],
         NEW entries, NEW base, Laid(entries, r, base),
         insertAll(entries) # <<>>
  PROVE  Shows(Words(topKFrequent(insertAll(entries), K)), InBest, K)
<1>1. PICK t : t = [c \in Child |-> FileCount(c)]
  OBVIOUS
<1>2. \A c \in Child : t[c] \in [Word -> Nat] /\ IsResult(r[c], t[c])
  BY <1>1, ResultOf
<1>3. PICK u : u = [w \in Word |->
                      SumOver([c \in Child |-> IF w \in Best(t[c], K) THEN t[c][w] ELSE 0])]
  OBVIOUS
<1>4. Table(insertAll(entries), u, {Empty})
  BY <1>2, <1>3, MergedTable
<1>5. u = InBest
  <2>1. ASSUME NEW w \in Word
        PROVE  [c \in Child |-> IF w \in Best(t[c], K) THEN t[c][w] ELSE 0]
                 = [c \in Child |-> IF w \in Best(FileCount(c), K) THEN FileCount(c)[w] ELSE 0]
    BY <1>1
  <2>2. InBest = [w \in Word |-> SumOver(
                    [c \in Child |-> IF w \in Best(FileCount(c), K) THEN FileCount(c)[w] ELSE 0])]
    BY DEF InBest, FileCount
  <2> QED
    BY <1>3, <2>1, <2>2
<1>6. PICK out : out = topKFrequent(insertAll(entries), K)
  OBVIOUS
<1>7. Shows(Words(out), u, K)
  BY <1>4, <1>6, BestShown
<1> QED
  BY <1>5, <1>6, <1>7

-------------------------------------------------------------------------------
(* Children that take turns *)

Cells == N * K * Slot

\* The m-th slot holds e.
Full(cells, m, e) ==
  /\ cells[Slot * (m-1)] = <<"letters", e.word>>
  /\ cells[Slot * (m-1) + MAX_STR] = <<"count", e.freq>>

\* A child that began behind the first slots is filling slot q+1.
AtWork(s, first, q, cells, off) ==
  /\ s.cur = Slot * q /\ first + s.i - 1 = q
  /\ off = Slot * q + IF s.field = "count" THEN MAX_STR ELSE 0
  /\ s.pc = "store" => s.read = off
  /\ s.field = "count" \/ s.pc # "copy" => cells[Slot * q] = <<"letters", s.res[s.i].word>>
  /\ s.field = "count" /\ s.pc # "copy" =>
       cells[Slot * q + MAX_STR] = <<"count", s.res[s.i].freq>>

\* The words that a child has behind it, with their counts.
Behind(c) == 1 .. child[c].i - 1

\* The children's words fill the first q slots, each child's behind its base, and no two the
\* same slot; one child at most fills the next.
Serial(base, q) ==
  /\ base \in [Child -> Nat] /\ q \in Nat /\ Slot * q <= Cells
  /\ DOMAIN memory = 0 .. Cells - 1
  /\ \A c \in Child : child[c].pc = "ended" => child[c].i = Len(child[c].res) + 1
  /\ \A c, d \in Child : Copying(c) /\ Copying(d) => c = d
  /\ \A c \in Child : \A k \in Behind(c) :
       base[c] + k \in 1 .. q /\ Full(memory, base[c] + k, child[c].res[k])
  /\ \A c, d \in Child : \A k \in Behind(c), j \in Behind(d) :
       base[c] + k = base[d] + j => c = d /\ k = j
  /\ \A m \in 1 .. q : \E c \in Child : \E k \in Behind(c) : m = base[c] + k
  /\ \A c \in Child : Copying(c) => AtWork(child[c], base[c], q, memory, offset)
  /\ \A a \in DOMAIN memory : a >= Slot * (q+1) => memory[a] = Unwritten
  /\ (\A c \in Child : ~Copying(c)) =>
       offset = Slot * q /\ \A a \in DOMAIN memory : a >= Slot * q => memory[a] = Unwritten

SerialInv == program = "proc" /\ ~overlap => \E base, q : Serial(base, q)

\* A child goes on to s without completing a slot, or is not copying.
Turns(c, s, base, q) ==
  /\ child' = [child EXCEPT ![c] = s]
  /\ DOMAIN memory' = DOMAIN memory
  /\ s.i = child[c].i /\ \A k \in Behind(c) : s.res[k] = child[c].res[k]
  /\ s.pc = "ended" => s.i = Len(s.res) + 1
  /\ \A a \in DOMAIN memory : a < Slot * q \/ a >= Slot * (q+1) => memory'[a] = memory[a]
  /\ IF s.pc \in {"copy", "load", "store"}
       THEN /\ \A d \in Child : Copying(d) => d = c
            /\ AtWork(s, base[c], q, memory', offset')
       ELSE ~Copying(c) /\ memory' = memory /\ offset' = offset

LEMMA CellsType == Cells \in Nat /\ N * K \in Nat /\ Cells = (N * K) * 17
<1>1. PICK x \in Nat : x = N * K
  BY TopKAssumption
<1> QED
  BY <1>1 DEF Cells, Slot, MAX_STR

LEMMA TurnKeeps ==
  ASSUME TInv, NEW base, NEW q, Serial(base, q), NEW c \in Child, NEW s, Turns(c, s, base, q)
  PROVE  Serial(base, q)'
<1>t. /\ child' = [child EXCEPT ![c] = s] /\ DOMAIN memory' = DOMAIN memory
      /\ s.i = child[c].i /\ \A k \in Behind(c) : s.res[k] = child[c].res[k]
      /\ s.pc = "ended" => s.i = Len(s.res) + 1
      /\ \A a \in DOMAIN memory : a < Slot * q \/ a >= Slot * (q+1) => memory'[a] = memory[a]
  BY DEF Turns
<1>p. s.pc \in {"copy", "load", "store"} =>
        /\ \A d \in Child : Copying(d) => d = c
        /\ AtWork(s, base[c], q, memory', offset')
  BY DEF Turns
<1>i. s.pc \notin {"copy", "load", "store"} => ~Copying(c) /\ memory' = memory /\ offset' = offset
  BY DEF Turns
<1>s. /\ base \in [Child -> Nat] /\ q \in Nat /\ Slot * q <= Cells
      /\ DOMAIN memory = 0 .. Cells - 1
      /\ \A d \in Child : child[d].pc = "ended" => child[d].i = Len(child[d].res) + 1
      /\ \A d, e \in Child : Copying(d) /\ Copying(e) => d = e
      /\ \A d \in Child : \A k \in Behind(d) :
           base[d] + k \in 1 .. q /\ Full(memory, base[d] + k, child[d].res[k])
      /\ \A d, e \in Child : \A k \in Behind(d), j \in Behind(e) :
           base[d] + k = base[e] + j => d = e /\ k = j
      /\ \A m \in 1 .. q : \E d \in Child : \E k \in Behind(d) : m = base[d] + k
      /\ \A d \in Child : Copying(d) => AtWork(child[d], base[d], q, memory, offset)
      /\ \A a \in DOMAIN memory : a >= Slot * (q+1) => memory[a] = Unwritten
      /\ (\A d \in Child : ~Copying(d)) =>
           offset = Slot * q /\ \A a \in DOMAIN memory : a >= Slot * q => memory[a] = Unwritten
  BY DEF Serial
<1>1. child'[c] = s /\ \A d \in Child : d # c => child'[d] = child[d]
  BY <1>t DEF TInv
<1>2. \A d \in Child : /\ Behind(d)' = Behind(d)
                       /\ \A k \in Behind(d) : child'[d].res[k] = child[d].res[k]
  BY <1>t, <1>1 DEF Behind
<1>3. \A d \in Child : d # c => (Copying(d)' <=> Copying(d))
  BY <1>1 DEF Copying
<1>4. Copying(c)' <=> s.pc \in {"copy", "load", "store"}
  BY <1>1 DEF Copying
<1>5. ASSUME NEW m \in 1 .. q, NEW e, Full(memory, m, e) PROVE Full(memory', m, e)
  <2>1. PICK x \in Nat : x = 17 * (m-1) /\ x + 16 < 17 * q
    BY <1>s
  <2>2. x \in 0 .. Cells - 1 /\ x + 16 \in 0 .. Cells - 1
    <3>1. PICK cells \in Nat : cells = Cells
      BY CellsType
    <3>2. q \in Nat /\ Slot * q <= cells
      BY <1>s, <3>1
    <3>3. x + 16 < cells
      BY <2>1, <3>2 DEF Slot, MAX_STR
    <3> QED
      BY <3>1, <3>3
  <2>3. memory'[x] = memory[x] /\ memory'[x + 16] = memory[x + 16]
    <3>1. x < Slot * q /\ x + 16 < Slot * q
      BY <1>s, <2>1 DEF Slot, MAX_STR
    <3>2. x \in DOMAIN memory /\ x + 16 \in DOMAIN memory
      BY <1>s, <2>2
    <3> QED
      BY <1>t, <3>1, <3>2
  <2>4. Slot * (m-1) = x /\ Slot * (m-1) + MAX_STR = x + 16
    BY <2>1 DEF Slot, MAX_STR
  <2> QED
    BY <1>5, <2>3, <2>4 DEF Full
<1>6. \A d \in Child : \A k \in Behind(d)' :
        base[d] + k \in 1 .. q /\ Full(memory', base[d] + k, child'[d].res[k])
  <2> TAKE d \in Child
  <2> TAKE k \in Behind(d)'
  <2>1. k \in Behind(d) /\ child'[d].res[k] = child[d].res[k]
    BY <1>2
  <2>2. base[d] + k \in 1 .. q /\ Full(memory, base[d] + k, child[d].res[k])
    BY <1>s, <2>1
  <2>3. Full(memory', base[d] + k, child[d].res[k])
    BY <1>5, <2>2
  <2> QED
    BY <2>1, <2>2, <2>3
<1>7. \A d, e \in Child : \A k \in Behind(d)', j \in Behind(e)' :
        base[d] + k = base[e] + j => d = e /\ k = j
  BY <1>s, <1>2
<1>8. \A m \in 1 .. q : \E d \in Child : \E k \in Behind(d)' : m = base[d] + k
  BY <1>s, <1>2
<1>9. \A d \in Child : child'[d].pc = "ended" => child'[d].i = Len(child'[d].res) + 1
  BY <1>s, <1>t, <1>1
<1>10. \A a \in DOMAIN memory' : a >= Slot * (q+1) => memory'[a] = Unwritten
  BY <1>s, <1>t
<1>11. CASE s.pc \in {"copy", "load", "store"}
  <2>1. \A d \in Child : Copying(d)' => d = c
    BY <1>p, <1>3, <1>11
  <2>2. \A d \in Child : Copying(d)' => AtWork(child'[d], base[d], q, memory', offset')
    BY <1>p, <1>1, <1>11, <2>1
  <2>3. Copying(c)'
    BY <1>4, <1>11
  <2> QED
    BY <1>s, <1>t, <1>6, <1>7, <1>8, <1>9, <1>10, <2>1, <2>2, <2>3 DEF Serial
<1>12. CASE s.pc \notin {"copy", "load", "store"}
  <2>1. \A d \in Child : Copying(d)' <=> Copying(d)
    BY <1>i, <1>3, <1>4, <1>12
  <2>2. \A d \in Child : Copying(d)' => AtWork(child'[d], base[d], q, memory', offset')
    BY <1>s, <1>i, <1>1, <1>12, <2>1
  <2>3. (\A d \in Child : ~Copying(d)') =>
          offset' = Slot * q /\ \A a \in DOMAIN memory' : a >= Slot * q => memory'[a] = Unwritten
    BY <1>s, <1>i, <1>12, <2>1
  <2>4. \A d, e \in Child : Copying(d)' /\ Copying(e)' => d = e
    BY <1>s, <2>1
  <2> QED
    BY <1>s, <1>t, <1>6, <1>7, <1>8, <1>9, <1>10, <2>2, <2>3, <2>4 DEF Serial
<1> QED
  BY <1>11, <1>12

\* A child that has read its file holds its result.
ResultInv ==
  \A c \in Child : IF child[c].pc = "start" THEN child[c].res = <<>>
                                            ELSE IsResult(child[c].res, FileCount(c))

LEMMA StartSerial ==
  ASSUME TInv, ResultInv, NEW base, NEW q, Serial(base, q), NEW c \in Child, Start(c)
  PROVE  Serial(base, q)'
<1>s. PICK s : s = child[c]
  OBVIOUS
<1>1. ChildOK(s) /\ s.pc = "start" /\ s.i = 1 /\ s.res = <<>>
  BY <1>s DEF TInv, Start, ChildOK, ResultInv
<1>2. Behind(c) = {}
  BY <1>s, <1>1 DEF Behind
<1>3. ~Copying(c) /\ memory' = memory /\ offset' = offset
  BY <1>s, <1>1 DEF Copying, Start
<1>4. CASE Readable(c)
  <2>1. PICK r : r = topKFrequent(Counted(files[c]), K)
    OBVIOUS
  <2>2. PICK t : t = [s EXCEPT !.pc = "locate", !.res = r]
    OBVIOUS
  <2>3. t.pc = "locate" /\ t.i = 1
    BY <1>1, <2>2 DEF ChildOK
  <2>4. child' = [child EXCEPT ![c] = t]
    BY <1>s, <1>4, <2>1, <2>2 DEF Start
  <2>5. Turns(c, t, base, q)
    BY <1>s, <1>1, <1>2, <1>3, <2>3, <2>4 DEF Turns
  <2> QED
    BY <2>5, TurnKeeps
<1>5. CASE ~Readable(c)
  <2>1. PICK t : t = [s EXCEPT !.pc = "ended"]
    OBVIOUS
  <2>2. t.pc = "ended" /\ t.i = 1 /\ t.res = <<>>
    BY <1>1, <2>1 DEF ChildOK
  <2>3. child' = [child EXCEPT ![c] = t]
    BY <1>s, <1>5, <2>1 DEF Start
  <2>4. t.i = Len(t.res) + 1
    BY <2>2
  <2>5. Turns(c, t, base, q)
    BY <1>s, <1>1, <1>2, <1>3, <2>2, <2>3, <2>4 DEF Turns
  <2> QED
    BY <2>5, TurnKeeps
<1> QED
  BY <1>4, <1>5

\* A child that has nothing behind it may as well begin behind all slots.
LEMMA BaseMoves ==
  ASSUME NEW base, NEW q, Serial(base, q), NEW c \in Child, Behind(c) = {}, ~Copying(c),
         NEW new, new = [base EXCEPT ![c] = q]
  PROVE  Serial(new, q)
<1>1. /\ new \in [Child -> Nat]
      /\ \A d \in Child : d # c => new[d] = base[d]
  BY DEF Serial
<1>2. \A d \in Child : \A k \in Behind(d) : d # c /\ new[d] = base[d]
  BY <1>1
<1>3. \A d \in Child : Copying(d) => d # c /\ new[d] = base[d]
  BY <1>1
<1>4. /\ \A d \in Child : \A k \in Behind(d) :
           new[d] + k \in 1 .. q /\ Full(memory, new[d] + k, child[d].res[k])
      /\ \A m \in 1 .. q : \E d \in Child : \E k \in Behind(d) : m = new[d] + k
  BY <1>2 DEF Serial
<1>5. \A d, e \in Child : \A k \in Behind(d), j \in Behind(e) :
        new[d] + k = new[e] + j => d = e /\ k = j
  BY <1>2 DEF Serial
<1>6. \A d \in Child : Copying(d) => AtWork(child[d], new[d], q, memory, offset)
  BY <1>3 DEF Serial
<1> QED
  BY <1>1, <1>4, <1>5, <1>6 DEF Serial

\* A child that finds no other copying begins behind all slots.
LEMMA LocateSerial ==
  ASSUME TInv, NEW base, NEW q, Serial(base, q), NEW c \in Child, Locate(c), ~overlap'
  PROVE  \E new : Serial(new, q)'
<1>s. PICK s : s = child[c]
  OBVIOUS
<1>1. ChildOK(s) /\ s.pc = "locate" /\ s.i = 1 /\ s.field = "word"
  BY <1>s DEF TInv, Locate, ChildOK
<1>2. Behind(c) = {}
  BY <1>s, <1>1 DEF Behind
<1>3. \A d \in Child : ~Copying(d)
  BY DEF Locate
<1>4. PICK new : new = [base EXCEPT ![c] = q]
  OBVIOUS
<1>5. Serial(new, q)
  BY <1>2, <1>3, <1>4, BaseMoves
<1>6. q \in Nat /\ offset = Slot * q /\ new[c] = q
  BY <1>3, <1>4, <1>5 DEF Serial
<1>7. PICK t : t = [s EXCEPT !.pc = "copy", !.cur = offset]
  OBVIOUS
<1>8. t = [pc |-> "copy", res |-> s.res, i |-> 1, field |-> "word", cur |-> offset, read |-> s.read]
  BY <1>1, <1>7 DEF ChildOK
<1>9. child' = [child EXCEPT ![c] = t] /\ memory' = memory /\ offset' = offset
  BY <1>s, <1>7 DEF Locate
<1>10. AtWork(t, new[c], q, memory', offset')
  BY <1>6, <1>8, <1>9 DEF AtWork, Slot, MAX_STR
<1>11. Turns(c, t, new, q)
  BY <1>s, <1>1, <1>2, <1>3, <1>8, <1>9, <1>10 DEF Turns
<1>12. Serial(new, q)'
  BY <1>5, <1>11, TurnKeeps
<1> QED
  BY <1>12

\* What holds of a child among its words.
LEMMA Working ==
  ASSUME TInv, NEW base, NEW q, Serial(base, q), NEW c \in Child, Copying(c)
  PROVE  /\ AtWork(child[c], base[c], q, memory, offset)
         /\ ChildOK(child[c]) /\ child[c].i \in Nat \ {0} /\ child[c].i <= Len(child[c].res)
         /\ q \in Nat /\ base[c] \in Nat /\ Slot * (q+1) <= Cells
         /\ DOMAIN memory = 0 .. Cells - 1
         /\ \A d \in Child : Copying(d) => d = c
<1>1. /\ AtWork(child[c], base[c], q, memory, offset) /\ q \in Nat /\ base[c] \in Nat
      /\ DOMAIN memory = 0 .. Cells - 1
      /\ \A d \in Child : Copying(d) => d = c
  BY DEF Serial
<1>2. ChildOK(child[c])
  BY DEF TInv
<1>3. PICK i \in Nat \ {0}, len \in Nat : i = child[c].i /\ len = Len(child[c].res) /\ i <= len
  <2>1. K \in Nat
    BY TopKAssumption
  <2> QED
    BY <1>2, <2>1 DEF ChildOK, Copying
<1>4. child[c].cur + Slot * (Len(child[c].res) - child[c].i + 1) <= N*K*Slot
  BY InvWithinSlots DEF WithinSlots
<1>5. PICK cells \in Nat : cells = Cells
  BY CellsType
<1>6. PICK x \in Nat, y \in Nat \ {0} : x = q /\ y = len - i + 1
  <2>1. q \in Nat
    BY <1>1
  <2>2. len - i + 1 \in Nat \ {0}
    BY <1>3
  <2> QED
    BY <2>1, <2>2
<1>7. 17 * x + 17 * y <= cells
  <2>1. child[c].cur = Slot * q /\ cells = N*K*Slot
    BY <1>1, <1>5 DEF AtWork, Cells
  <2>2. Slot * q + Slot * (len - i + 1) <= cells
    <3>1. child[c].cur + Slot * (len - i + 1) <= N*K*Slot
      BY <1>3, <1>4
    <3> QED
      BY <2>1, <3>1
  <2> QED
    BY <1>6, <2>2 DEF Slot, MAX_STR
<1>8. Slot * (q+1) <= Cells
  <2>1. 17 * (x+1) <= cells
    BY <1>7
  <2> QED
    BY <1>5, <1>6, <2>1 DEF Slot, MAX_STR
<1> QED
  BY <1>1, <1>2, <1>3, <1>8

LEMMA CopySerial ==
  ASSUME TInv, NEW base, NEW q, Serial(base, q), NEW c \in Child, Copy(c)
  PROVE  Serial(base, q)'
<1>s. PICK s : s = child[c]
  OBVIOUS
<1>1. s.pc = "copy" /\ Copying(c)
  BY <1>s DEF Copy, Copying
<1>2. /\ AtWork(s, base[c], q, memory, offset)
      /\ ChildOK(s) /\ q \in Nat /\ Slot * (q+1) <= Cells
      /\ DOMAIN memory = 0 .. Cells - 1
      /\ \A d \in Child : Copying(d) => d = c
  BY <1>s, <1>1, Working
<1>x. PICK x \in Nat : x = 17 * q /\ Slot * q = x /\ Slot * (q+1) = x + 17
  BY <1>2 DEF Slot, MAX_STR
<1>3. x \in DOMAIN memory /\ x + 16 \in DOMAIN memory
  BY <1>2, <1>x, CellsType
<1>e. PICK e : e = s.res[s.i]
  OBVIOUS
<1>4. memory' = [a \in DOMAIN memory |->
                   IF s.field = "count"
                     THEN IF a = x + 16 THEN <<"count", e.freq>> ELSE memory[a]
                   ELSE IF a = x THEN <<"letters", e.word>>
                   ELSE IF a > x /\ a < x + 16 THEN <<"heap">>
                   ELSE memory[a]]
  BY <1>s, <1>e, <1>2, <1>x DEF Copy, AtWork, MAX_STR
<1>5. \A a \in DOMAIN memory : a < x \/ a >= x + 17 => memory'[a] = memory[a]
  <2> TAKE a \in DOMAIN memory
  <2> HAVE a < x \/ a >= x + 17
  <2>1. a \in Int
    BY <1>2, CellsType
  <2>2. a # x + 16 /\ a # x /\ ~(a > x /\ a < x + 16)
    BY <2>1
  <2> QED
    BY <1>4, <2>2
<1>6. PICK t : t = [s EXCEPT !.pc = "load"]
  OBVIOUS
<1>7. t = [pc |-> "load", res |-> s.res, i |-> s.i, field |-> s.field, cur |-> s.cur,
           read |-> s.read]
  BY <1>2, <1>6 DEF ChildOK
<1>8. child' = [child EXCEPT ![c] = t] /\ offset' = offset /\ DOMAIN memory' = DOMAIN memory
  <2>1. child' = [child EXCEPT ![c] = t] /\ offset' = offset
    BY <1>s, <1>6 DEF Copy
  <2> QED
    BY <1>4, <2>1
<1>9. AtWork(t, base[c], q, memory', offset')
  <2>1. memory'[x] = <<"letters", e.word>>
    <3>1. CASE s.field = "count"
      <4>1. memory[x] = <<"letters", e.word>>
        BY <1>2, <1>e, <1>x, <3>1 DEF AtWork
      <4>2. x # x + 16
        OBVIOUS
      <4> QED
        BY <1>3, <1>4, <3>1, <4>1, <4>2
    <3>2. CASE s.field # "count"
      BY <1>3, <1>4, <3>2
    <3> QED
      BY <3>1, <3>2
  <2>2. s.field = "count" => memory'[x + 16] = <<"count", e.freq>>
    BY <1>3, <1>4
  <2>3. /\ t.pc = "load" /\ t.cur = s.cur /\ t.i = s.i /\ t.field = s.field /\ t.res[t.i] = e
    BY <1>e, <1>7
  <2> QED
    BY <1>2, <1>8, <1>x, <2>1, <2>2, <2>3 DEF AtWork, MAX_STR
<1>10. Turns(c, t, base, q)
  BY <1>s, <1>2, <1>5, <1>7, <1>8, <1>9, <1>x DEF Turns
<1> QED
  BY <1>10, TurnKeeps

LEMMA LoadSerial ==
  ASSUME TInv, NEW base, NEW q, Serial(base, q), NEW c \in Child, Load(c)
  PROVE  Serial(base, q)'
<1>s. PICK s : s = child[c]
  OBVIOUS
<1>1. s.pc = "load" /\ Copying(c)
  BY <1>s DEF Load, Copying
<1>2. /\ AtWork(s, base[c], q, memory, offset) /\ ChildOK(s)
      /\ \A d \in Child : Copying(d) => d = c
  BY <1>s, <1>1, Working
<1>3. PICK t : t = [s EXCEPT !.pc = "store", !.read = offset]
  OBVIOUS
<1>4. t = [pc |-> "store", res |-> s.res, i |-> s.i, field |-> s.field, cur |-> s.cur,
           read |-> offset]
  BY <1>2, <1>3 DEF ChildOK
<1>5. child' = [child EXCEPT ![c] = t] /\ offset' = offset /\ memory' = memory
  BY <1>s, <1>3 DEF Load
<1>6. AtWork(t, base[c], q, memory', offset')
  BY <1>1, <1>2, <1>4, <1>5 DEF AtWork
<1>7. Turns(c, t, base, q)
  BY <1>s, <1>2, <1>4, <1>5, <1>6 DEF Turns
<1> QED
  BY <1>7, TurnKeeps

\* The count after the word completes the slot.
LEMMA StoreSerial ==
  ASSUME TInv, NEW base, NEW q, Serial(base, q), NEW c \in Child, Store(c)
  PROVE  \E more : Serial(base, more)'
<1>s. PICK s : s = child[c]
  OBVIOUS
<1>1. s.pc = "store" /\ Copying(c)
  BY <1>s DEF Store, Copying
<1>2. /\ AtWork(s, base[c], q, memory, offset)
      /\ ChildOK(s) /\ s.i \in Nat \ {0} /\ s.i <= Len(s.res)
      /\ q \in Nat /\ base[c] \in Nat /\ Slot * (q+1) <= Cells
      /\ DOMAIN memory = 0 .. Cells - 1
      /\ \A d \in Child : Copying(d) => d = c
  BY <1>s, <1>1, Working
<1>3. PICK t : t = Advanced(s)
  OBVIOUS
<1>4. child' = [child EXCEPT ![c] = t] /\ offset' = offset + Size[s.field] /\ memory' = memory
  BY <1>s, <1>1, <1>2, <1>3 DEF Store, AtWork
<1>5. CASE s.field = "word"
  <2>1. t = [pc |-> "copy", res |-> s.res, i |-> s.i, field |-> "count", cur |-> s.cur,
             read |-> s.read]
    BY <1>2, <1>3, <1>5 DEF ChildOK, Advanced
  <2>2. offset' = offset + MAX_STR
    BY <1>4, <1>5 DEF Size
  <2>3. AtWork(t, base[c], q, memory', offset')
    BY <1>1, <1>2, <1>4, <1>5, <2>1, <2>2 DEF AtWork, Slot, MAX_STR
  <2>4. Turns(c, t, base, q)
    BY <1>s, <1>2, <1>4, <2>1, <2>3 DEF Turns
  <2>5. Serial(base, q)'
    BY <2>4, TurnKeeps
  <2> QED
    BY <2>5
<1>6. CASE s.field = "count"
  <2>1. PICK pc \in {"ended", "copy"} :
             /\ pc = IF s.i = Len(s.res) THEN "ended" ELSE "copy"
             /\ t = [pc |-> pc, res |-> s.res, i |-> s.i + 1, field |-> "word",
                     cur |-> s.cur + Slot, read |-> s.read]
    BY <1>2, <1>3, <1>6 DEF ChildOK, Advanced
  <2>2. t.pc = pc /\ t.res = s.res /\ t.i = s.i + 1 /\ t.field = "word" /\ t.cur = s.cur + Slot
    BY <2>1
  <2>3. child'[c] = t /\ \A d \in Child : d # c => child'[d] = child[d]
    BY <1>4 DEF TInv
  <2>4. /\ Behind(c)' = 1 .. s.i /\ Behind(c) = 1 .. s.i - 1
        /\ \A d \in Child : d # c => Behind(d)' = Behind(d) /\ ~Copying(d)'
    <3>1. Behind(c)' = 1 .. t.i - 1 /\ t.i - 1 = s.i
      BY <1>2, <2>2, <2>3 DEF Behind
    <3> QED
      BY <1>s, <1>2, <2>3, <3>1 DEF Behind, Copying
  <2>5. Copying(c)' <=> pc = "copy"
    BY <2>1, <2>2, <2>3 DEF Copying
  <2>x. PICK x \in Nat : x = 17 * q /\ Slot * q = x /\ Slot * (q+1) = x + 17
    BY <1>2 DEF Slot, MAX_STR
  <2>6. s.cur = x /\ base[c] + s.i = q+1 /\ offset = x + 16 /\ offset' = x + 17
    <3>1. s.cur = x /\ base[c] + s.i - 1 = q /\ offset = x + 16
      BY <1>2, <1>6, <2>x DEF AtWork, MAX_STR
    <3>2. offset' = offset + 1
      BY <1>4, <1>6 DEF Size
    <3> QED
      BY <1>2, <3>1, <3>2
  <2>7. Full(memory', q+1, s.res[s.i])
    <3>1. (q+1) - 1 = q
      BY <1>2
    <3> QED
      BY <1>1, <1>2, <1>4, <1>6, <3>1 DEF AtWork, Full
  <2>8. ASSUME NEW d \in Child, NEW k \in Behind(d)'
        PROVE  /\ child'[d].res[k] = child[d].res[k]
               /\ \/ d = c /\ k = s.i /\ base[d] + k = q+1
                  \/ k \in Behind(d) /\ base[d] + k \in 1 .. q
    <3>1. CASE d = c
      <4>1. child'[d].res = child[d].res
        BY <1>s, <2>2, <2>3, <3>1
      <4>2. k = s.i \/ k \in Behind(d)
        BY <1>2, <2>4, <3>1
      <4>3. k \in Behind(d) => base[d] + k \in 1 .. q
        BY DEF Serial
      <4> QED
        BY <2>6, <3>1, <4>1, <4>2, <4>3
    <3>2. CASE d # c
      <4>1. child'[d] = child[d] /\ k \in Behind(d)
        BY <2>3, <2>4, <3>2
      <4> QED
        BY <4>1 DEF Serial
    <3> QED
      BY <3>1, <3>2
  <2>9. \A d \in Child : \A k \in Behind(d)' :
          base[d] + k \in 1 .. q+1 /\ Full(memory', base[d] + k, child'[d].res[k])
    <3> TAKE d \in Child
    <3> TAKE k \in Behind(d)'
    <3>1. CASE d = c /\ k = s.i /\ base[d] + k = q+1
      BY <1>s, <1>2, <2>7, <2>8, <3>1
    <3>2. CASE k \in Behind(d) /\ base[d] + k \in 1 .. q
      <4>1. Full(memory, base[d] + k, child[d].res[k])
        BY <3>2 DEF Serial
      <4> QED
        BY <1>2, <1>4, <2>8, <3>2, <4>1
    <3> QED
      BY <2>8, <3>1, <3>2
  <2>10. \A d, e \in Child : \A k \in Behind(d)', j \in Behind(e)' :
           base[d] + k = base[e] + j => d = e /\ k = j
    <3> TAKE d, e \in Child
    <3> TAKE k \in Behind(d)', j \in Behind(e)'
    <3> HAVE base[d] + k = base[e] + j
    <3>0. q+1 \notin 1 .. q
      BY <1>2
    <3>1. CASE base[d] + k = q+1
      BY <2>8, <3>0, <3>1
    <3>2. CASE base[d] + k # q+1
      <4>1. k \in Behind(d) /\ j \in Behind(e)
        BY <2>8, <3>2
      <4> QED
        BY <4>1 DEF Serial
    <3> QED
      BY <3>1, <3>2
  <2>11. \A m \in 1 .. q+1 : \E d \in Child : \E k \in Behind(d)' : m = base[d] + k
    <3> TAKE m \in 1 .. q+1
    <3>1. CASE m = q+1
      <4>1. s.i \in Behind(c)'
        BY <1>2, <2>4
      <4> QED
        BY <2>6, <3>1, <4>1
    <3>2. CASE m # q+1
      <4>1. m \in 1 .. q
        BY <1>2, <3>2
      <4>2. PICK d \in Child : \E k \in Behind(d) : m = base[d] + k
        BY <4>1 DEF Serial
      <4>3. PICK k \in Behind(d) : m = base[d] + k
        BY <4>2
      <4>4. k \in Behind(d)'
        <5>1. 1 .. s.i - 1 \subseteq 1 .. s.i
          BY <1>2
        <5> QED
          BY <2>4, <5>1
      <4> QED
        BY <4>3, <4>4
    <3> QED
      BY <3>1, <3>2
  <2>12. \A d \in Child : Copying(d)' => d = c
    BY <2>4
  <2>13. Copying(c)' => AtWork(t, base[c], q+1, memory', offset')
    <3>1. t.pc = "copy" => base[c] + t.i - 1 = q+1
      BY <1>2, <2>2, <2>6
    <3>2. t.cur = Slot * (q+1) /\ offset' = Slot * (q+1) + 0
      BY <2>2, <2>6, <2>x DEF Slot, MAX_STR
    <3> QED
      BY <2>2, <2>5, <3>1, <3>2 DEF AtWork
  <2>14. \A d \in Child : Copying(d)' => AtWork(child'[d], base[d], q+1, memory', offset')
    BY <2>3, <2>12, <2>13
  <2>15. \A a \in DOMAIN memory : a >= Slot * (q+1) => memory[a] = Unwritten
    BY DEF Serial
  <2>16. \A a \in DOMAIN memory' : a >= Slot * ((q+1)+1) => memory'[a] = Unwritten
    <3> TAKE a \in DOMAIN memory'
    <3> HAVE a >= Slot * ((q+1)+1)
    <3>1. a \in Int /\ a \in DOMAIN memory
      BY <1>2, <1>4, CellsType
    <3>2. Slot * ((q+1)+1) = x + 34
      BY <1>2, <2>x DEF Slot, MAX_STR
    <3>3. a >= Slot * (q+1)
      BY <2>x, <3>1, <3>2
    <3> QED
      BY <1>4, <2>15, <3>1, <3>3
  <2>17. offset' = Slot * (q+1) /\ \A a \in DOMAIN memory' : a >= Slot * (q+1) => memory'[a] = Unwritten
    BY <1>4, <2>6, <2>15, <2>x
  <2>18. \A d \in Child : child'[d].pc = "ended" => child'[d].i = Len(child'[d].res) + 1
    <3> TAKE d \in Child
    <3>1. CASE d = c
      BY <2>1, <2>2, <2>3, <3>1
    <3>2. CASE d # c
      BY <2>3, <3>2 DEF Serial
    <3> QED
      BY <3>1, <3>2
  <2>19. base \in [Child -> Nat] /\ q+1 \in Nat /\ DOMAIN memory' = 0 .. Cells - 1
    BY <1>2, <1>4 DEF Serial
  <2>20. \A d, e \in Child : Copying(d)' /\ Copying(e)' => d = e
    BY <2>12
  <2>21. PICK more : more = q+1
    OBVIOUS
  <2>22. Serial(base, more)'
    BY <1>2, <2>9, <2>10, <2>11, <2>14, <2>16, <2>17, <2>18, <2>19, <2>20, <2>21 DEF Serial
  <2> QED
    BY <2>22
<1> QED
  BY <1>2, <1>5, <1>6 DEF ChildOK

-------------------------------------------------------------------------------
(* What is printed *)

PInv ==
  /\ TInv /\ ResultInv
  /\ program \in {"proc", "thread"}
  /\ SerialInv
  /\ PrintedIsSum

LEMMA PInvInit == TInit => PInv
<1> SUFFICES ASSUME TInit PROVE PInv
  OBVIOUS
<1>1. TInv
  BY TInvInit
<1>2. /\ \A c \in Child : /\ child[c].pc = "start" /\ child[c].res = <<>> /\ child[c].i = 1
      /\ offset = 0 /\ parent = "wait"
  BY DEF TInit
<1>3. ResultInv
  BY <1>2 DEF ResultInv
<1>4. program \in {"proc", "thread"}
  BY TopKAssumption DEF TInit
<1>5. DOMAIN memory = 0 .. Cells - 1 /\ \A a \in DOMAIN memory : memory[a] = Unwritten
  BY DEF TInit, Cells
<1>6. \A c \in Child : ~Copying(c) /\ Behind(c) = {}
  BY <1>2 DEF Copying, Behind
<1>7. Slot * 0 = 0 /\ 0 <= Cells
  BY CellsType DEF Slot, MAX_STR
<1>8. PICK base : base = [c \in Child |-> 0]
  OBVIOUS
<1>9. base \in [Child -> Nat]
  BY <1>8
<1>10. Serial(base, 0)
  BY <1>2, <1>5, <1>6, <1>7, <1>9 DEF Serial
<1>11. SerialInv
  BY <1>10 DEF SerialInv
<1>12. PrintedIsSum
  BY <1>2 DEF PrintedIsSum
<1> QED
  BY <1>1, <1>3, <1>4, <1>11, <1>12 DEF PInv

LEMMA ResultInvNext == TInv /\ ResultInv /\ [TNext]_tvars => ResultInv'
<1> SUFFICES ASSUME TInv, ResultInv, [TNext]_tvars PROVE ResultInv'
  OBVIOUS
<1>1. CASE UNCHANGED <<files, child>>
  BY <1>1 DEF ResultInv, FileCount
<1>2. ASSUME NEW c \in Child, NEW s, child' = [child EXCEPT ![c] = s], files' = files,
             s.pc # "start", IsResult(s.res, FileCount(c))
      PROVE  ResultInv'
  <2>1. child'[c] = s /\ \A d \in Child : d # c => child'[d] = child[d]
    BY <1>2 DEF TInv
  <2>2. \A d \in Child : FileCount(d)' = FileCount(d)
    BY <1>2 DEF FileCount
  <2> QED
    BY <1>2, <2>1, <2>2 DEF ResultInv
<1>3. ASSUME NEW c \in Child, ChildStep(c) PROVE ResultInv'
  <2>s. PICK s : s = child[c]
    OBVIOUS
  <2>1. ChildOK(s) /\ files \in Inputs
    BY <2>s DEF TInv
  <2>2. s.pc # "start" => IsResult(s.res, FileCount(c))
    BY <2>s DEF ResultInv
  <2>3. s.pc = "start" => s.res = <<>>
    BY <2>s DEF ResultInv
  <2>4. CASE Start(c)
    <3>1. CASE Readable(c)
      <4>1. PICK t : t = [s EXCEPT !.pc = "locate", !.res = topKFrequent(Counted(files[c]), K)]
        OBVIOUS
      <4>2. t.pc = "locate" /\ t.res = topKFrequent(Counted(files[c]), K)
        BY <2>1, <4>1 DEF ChildOK
      <4>3. child' = [child EXCEPT ![c] = t] /\ files' = files
        BY <2>s, <2>4, <3>1, <4>1 DEF Start
      <4>4. IsResult(t.res, FileCount(c))
        BY <2>1, <3>1, <4>2, ResultOf
      <4> QED
        BY <1>2, <4>2, <4>3, <4>4
    <3>2. CASE ~Readable(c)
      <4>1. PICK t : t = [s EXCEPT !.pc = "ended"]
        OBVIOUS
      <4>2. t.pc = "ended" /\ t.res = <<>>
        BY <2>s, <2>1, <2>3, <2>4, <4>1 DEF ChildOK, Start
      <4>3. child' = [child EXCEPT ![c] = t] /\ files' = files
        BY <2>s, <2>4, <3>2, <4>1 DEF Start
      <4>4. IsResult(t.res, FileCount(c))
        BY <2>1, <3>2, <4>2, ResultOf
      <4> QED
        BY <1>2, <4>2, <4>3, <4>4
    <3> QED
      BY <3>1, <3>2
  <2>5. CASE Worker(c)
    <3>1. PICK r : r = IF Readable(c) THEN topKFrequent(Counted(files[c]), K) ELSE <<>>
      OBVIOUS
    <3>2. PICK t : t = [s EXCEPT !.pc = "ended", !.res = r]
      OBVIOUS
    <3>3. t.pc = "ended" /\ t.res = r
      BY <2>1, <3>2 DEF ChildOK
    <3>4. child' = [child EXCEPT ![c] = t] /\ files' = files
      BY <2>s, <2>5, <3>1, <3>2 DEF Worker
    <3>5. IsResult(r, FileCount(c))
      BY <2>1, <3>1, ResultOf
    <3> QED
      BY <1>2, <3>3, <3>4, <3>5
  <2>6. ASSUME NEW t, child' = [child EXCEPT ![c] = t], files' = files,
               s.pc # "start", t.pc # "start", t.res = s.res
        PROVE  ResultInv'
    BY <1>2, <2>2, <2>6
  <2>7. CASE Locate(c)
    <3>1. PICK t : t = [s EXCEPT !.pc = "copy", !.cur = offset]
      OBVIOUS
    <3>2. t.pc = "copy" /\ t.res = s.res
      BY <2>1, <3>1 DEF ChildOK
    <3>3. child' = [child EXCEPT ![c] = t] /\ files' = files /\ s.pc # "start"
      BY <2>s, <2>7, <3>1 DEF Locate
    <3> QED
      BY <2>6, <3>2, <3>3
  <2>8. CASE Copy(c)
    <3>1. PICK t : t = [s EXCEPT !.pc = "load"]
      OBVIOUS
    <3>2. t.pc = "load" /\ t.res = s.res
      BY <2>1, <3>1 DEF ChildOK
    <3>3. child' = [child EXCEPT ![c] = t] /\ files' = files /\ s.pc # "start"
      BY <2>s, <2>8, <3>1 DEF Copy
    <3> QED
      BY <2>6, <3>2, <3>3
  <2>9. CASE Load(c)
    <3>1. PICK t : t = [s EXCEPT !.pc = "store", !.read = offset]
      OBVIOUS
    <3>2. t.pc = "store" /\ t.res = s.res
      BY <2>1, <3>1 DEF ChildOK
    <3>3. child' = [child EXCEPT ![c] = t] /\ files' = files /\ s.pc # "start"
      BY <2>s, <2>9, <3>1 DEF Load
    <3> QED
      BY <2>6, <3>2, <3>3
  <2>10. CASE Store(c)
    <3>1. PICK t : t = Advanced(s)
      OBVIOUS
    <3>2. t.pc # "start" /\ t.res = s.res
      BY <2>1, <3>1 DEF ChildOK, Advanced
    <3>3. child' = [child EXCEPT ![c] = t] /\ files' = files /\ s.pc # "start"
      BY <2>s, <2>10, <3>1 DEF Store
    <3> QED
      BY <2>6, <3>2, <3>3
  <2> QED
    BY <1>3, <2>4, <2>5, <2>7, <2>8, <2>9, <2>10 DEF ChildStep
<1>4. CASE Merge
  BY <1>1, <1>4 DEF Merge
<1> QED
  BY <1>1, <1>3, <1>4 DEF TNext, Exited, tvars

LEMMA SerialInvNext == TInv /\ ResultInv /\ SerialInv /\ [TNext]_tvars => SerialInv'
<1> SUFFICES ASSUME TInv, ResultInv, SerialInv, [TNext]_tvars, program' = "proc", ~overlap'
             PROVE  \E base, q : Serial(base, q)'
  BY DEF SerialInv
<1>1. CASE UNCHANGED <<program, offset, memory, child, overlap>>
  <2>1. PICK base, q : Serial(base, q)
    BY <1>1 DEF SerialInv
  <2>2. Serial(base, q)'
    BY <1>1, <2>1 DEF Serial, Behind, Copying
  <2> QED
    BY <2>2
<1>2. ASSUME NEW c \in Child, ChildStep(c) PROVE \E base, q : Serial(base, q)'
  <2>a. program = "proc" /\ ~Worker(c)
    BY <1>2 DEF ChildStep, Start, Locate, Copy, Load, Store, Worker
  <2>b. ~overlap
    <3>1. CASE Locate(c)
      BY <3>1 DEF Locate
    <3>2. CASE ~Locate(c)
      BY <1>2, <3>2 DEF ChildStep, Start, Copy, Load, Store, Worker
    <3> QED
      BY <3>1, <3>2
  <2>1. program = "proc" /\ ~overlap /\ ~Worker(c)
    BY <2>a, <2>b
  <2>2. PICK base, q : Serial(base, q)
    BY <2>1 DEF SerialInv
  <2>3. CASE Start(c)
    BY <2>2, <2>3, StartSerial
  <2>4. CASE Locate(c)
    BY <2>2, <2>4, LocateSerial
  <2>5. CASE Copy(c)
    BY <2>2, <2>5, CopySerial
  <2>6. CASE Load(c)
    BY <2>2, <2>6, LoadSerial
  <2>7. CASE Store(c)
    BY <2>2, <2>7, StoreSerial
  <2> QED
    BY <1>2, <2>1, <2>3, <2>4, <2>5, <2>6, <2>7 DEF ChildStep
<1>3. CASE Merge
  BY <1>1, <1>3 DEF Merge
<1> QED
  BY <1>1, <1>2, <1>3 DEF TNext, Exited, tvars

LEMMA SlotHolds ==
  ASSUME NEW m \in Int, NEW e \in EntryType, NEW other, NEW otherCount
  PROVE  /\ Full(memory, m, e) => SlotAt((m-1) * Slot, other, otherCount) = e
         /\ memory[(m-1) * Slot] = Unwritten /\ memory[(m-1) * Slot + MAX_STR] = Unwritten =>
              SlotAt((m-1) * Slot, other, otherCount) = Entry(Empty, 0)
<1>a. PICK a \in Int : a = (m-1) * Slot /\ a = Slot * (m-1)
  BY DEF Slot, MAX_STR
<1>1. ASSUME Full(memory, m, e) PROVE SlotAt(a, other, otherCount) = e
  <2>1. memory[a] = <<"letters", e.word>> /\ memory[a + MAX_STR] = <<"count", e.freq>>
    BY <1>1, <1>a DEF Full
  <2>2. memory[a] # Unwritten /\ memory[a][1] = "letters" /\ memory[a][2] = e.word
    BY <2>1 DEF Unwritten
  <2>3. memory[a + MAX_STR] # Unwritten /\ memory[a + MAX_STR][1] = "count"
        /\ memory[a + MAX_STR][2] = e.freq
    BY <2>1 DEF Unwritten
  <2>4. SlotAt(a, other, otherCount) = Entry(e.word, e.freq)
    BY <2>2, <2>3 DEF SlotAt
  <2> QED
    BY <2>4 DEF Entry, EntryType
<1>2. ASSUME memory[a] = Unwritten, memory[a + MAX_STR] = Unwritten
      PROVE  SlotAt(a, other, otherCount) = Entry(Empty, 0)
  <2>1. memory[a][1] = "zero" /\ memory[a + MAX_STR][1] = "zero"
    BY <1>2 DEF Unwritten
  <2>2. memory[a][1] # "letters" /\ memory[a + MAX_STR][1] # "letters"
        /\ memory[a + MAX_STR][1] # "count"
    BY <2>1
  <2> QED
    BY <1>2, <2>2 DEF SlotAt
<1> QED
  BY <1>a, <1>1, <1>2

\* When children that took turns have ended, the parent finds their words at the slots it
\* reads, and nothing else.
LEMMA SlotsLaid ==
  ASSUME ResultInv, NEW base, NEW q, Serial(base, q),
         \A c \in Child : child[c].pc = "ended",
         NEW entries \in Slots, NEW r, r = [c \in Child |-> child[c].res]
  PROVE  Laid(entries, r, base)
<1>1. \A c \in Child : /\ r[c] = child[c].res /\ r[c] \in Seq(EntryType) /\ Behind(c) = DOMAIN r[c]
                       /\ ~Copying(c)
  <2> TAKE c \in Child
  <2>1. r[c] = child[c].res /\ r[c] \in Seq(EntryType)
    BY DEF ResultInv, IsResult
  <2>2. child[c].i = Len(r[c]) + 1
    BY <2>1 DEF Serial
  <2>3. Len(r[c]) \in Nat /\ DOMAIN r[c] = 1 .. Len(r[c])
    BY <2>1, LenProperties
  <2> QED
    BY <2>1, <2>2, <2>3 DEF Behind, Copying
<1>2. /\ base \in [Child -> Nat] /\ q \in Nat /\ Slot * q <= Cells
      /\ DOMAIN memory = 0 .. Cells - 1
      /\ \A c \in Child : \A k \in DOMAIN r[c] :
           base[c] + k \in 1 .. q /\ Full(memory, base[c] + k, r[c][k])
      /\ \A c, d \in Child : \A k \in DOMAIN r[c], j \in DOMAIN r[d] :
           base[c] + k = base[d] + j => c = d /\ k = j
      /\ \A m \in 1 .. q : \E c \in Child : \E k \in DOMAIN r[c] : m = base[c] + k
      /\ \A a \in DOMAIN memory : a >= Slot * q => memory[a] = Unwritten
  <2>1. /\ base \in [Child -> Nat] /\ q \in Nat /\ Slot * q <= Cells
        /\ DOMAIN memory = 0 .. Cells - 1
        /\ (\A c \in Child : ~Copying(c)) =>
             \A a \in DOMAIN memory : a >= Slot * q => memory[a] = Unwritten
    BY DEF Serial
  <2>b. \A c \in Child : Behind(c) = DOMAIN r[c] /\ r[c] = child[c].res
    BY <1>1
  <2>2. \A c \in Child : \A k \in DOMAIN r[c] :
          base[c] + k \in 1 .. q /\ Full(memory, base[c] + k, r[c][k])
    <3>1. \A c \in Child : \A k \in Behind(c) :
             base[c] + k \in 1 .. q /\ Full(memory, base[c] + k, child[c].res[k])
      BY DEF Serial
    <3> QED
      BY <2>b, <3>1
  <2>3. \A c, d \in Child : \A k \in DOMAIN r[c], j \in DOMAIN r[d] :
          base[c] + k = base[d] + j => c = d /\ k = j
    <3>1. \A c, d \in Child : \A k \in Behind(c), j \in Behind(d) :
             base[c] + k = base[d] + j => c = d /\ k = j
      BY DEF Serial
    <3> TAKE c, d \in Child
    <3> TAKE k \in DOMAIN r[c], j \in DOMAIN r[d]
    <3>2. k \in Behind(c) /\ j \in Behind(d)
      BY <2>b
    <3> QED
      BY <3>1, <3>2
  <2>4. \A m \in 1 .. q : \E c \in Child : \E k \in DOMAIN r[c] : m = base[c] + k
    <3>1. \A m \in 1 .. q : \E c \in Child : \E k \in Behind(c) : m = base[c] + k
      BY DEF Serial
    <3> TAKE m \in 1 .. q
    <3>2. PICK c \in Child : \E k \in Behind(c) : m = base[c] + k
      BY <3>1
    <3>3. Behind(c) = DOMAIN r[c]
      BY <2>b
    <3> QED
      BY <3>2, <3>3
  <2> QED
    BY <1>1, <2>1, <2>2, <2>3, <2>4
<1>m. PICK n \in Nat : n = N * K /\ Cells = n * 17
  BY CellsType
<1>n. n = N * K /\ q <= n /\ Cells = n * 17
  <2>1. q \in Nat /\ Slot * q <= n * 17
    BY <1>2, <1>m
  <2>2. q <= n
    BY <2>1 DEF Slot, MAX_STR
  <2> QED
    BY <1>m, <2>2
<1>3. PICK other \in {Empty, Garbled}, otherCount \in {0, Huge} :
        entries = [k \in 1 .. n |-> SlotAt((k-1) * Slot, other, otherCount)]
  BY <1>n DEF Slots
<1>4. \A c \in Child : \A k \in DOMAIN r[c] :
        /\ base[c] + k \in 1 .. q /\ base[c] + k \in 1 .. n
        /\ entries[base[c] + k] = r[c][k] /\ r[c][k] \in EntryType
  <2> TAKE c \in Child
  <2> TAKE k \in DOMAIN r[c]
  <2>1. PICK m \in 1 .. q : m = base[c] + k
    BY <1>2
  <2>2. m \in 1 .. n /\ m \in Int
    BY <1>2, <1>n
  <2>3. PICK e \in EntryType : e = r[c][k]
    BY <1>1, ElementOfSeq, LenProperties
  <2>4. Full(memory, m, e)
    BY <1>2, <2>1, <2>3
  <2>5. SlotAt((m-1) * Slot, other, otherCount) = e
    BY <2>2, <2>4, SlotHolds
  <2>6. entries[m] = e
    BY <1>3, <2>2, <2>5
  <2> QED
    BY <2>1, <2>2, <2>3, <2>6
<1>5. ASSUME NEW m \in 1 .. n, m > q PROVE entries[m] = Entry(Empty, 0)
  <2>1. PICK a \in Int : a = (m-1) * Slot /\ a >= Slot * q /\ a \in 0 .. Cells - 1 /\ a + 16 \in 0 .. Cells - 1
    BY <1>2, <1>5, <1>n DEF Slot, MAX_STR
  <2>2. memory[a] = Unwritten /\ memory[a + 16] = Unwritten
    <3>1. a + 16 >= Slot * q
      BY <1>2, <2>1 DEF Slot, MAX_STR
    <3> QED
      BY <1>2, <2>1, <3>1
  <2>e. Entry(Empty, 0) \in EntryType
    BY DEF Entry, EntryType, Empty
  <2>3. PICK e \in EntryType : e = Entry(Empty, 0)
    BY <2>e
  <2>4. SlotAt((m-1) * Slot, other, otherCount) = Entry(Empty, 0)
    <3>1. memory[(m-1) * Slot] = Unwritten /\ memory[(m-1) * Slot + MAX_STR] = Unwritten
      BY <2>1, <2>2 DEF MAX_STR
    <3>2. m \in Int
      OBVIOUS
    <3> QED
      BY <2>3, <3>1, <3>2, SlotHolds
  <2> QED
    BY <1>3, <2>4
<1>6. ASSUME NEW m \in 1 .. n
      PROVE  /\ entries[m] \in EntryType
             /\ \/ entries[m] = Entry(Empty, 0)
                \/ \E c \in Child : \E k \in DOMAIN r[c] : m = base[c] + k
  <2>1. CASE m > q
    <3>1. Entry(Empty, 0) \in EntryType
      BY DEF Entry, EntryType, Empty
    <3> QED
      BY <1>5, <2>1, <3>1
  <2>2. CASE ~(m > q)
    <3>1. m \in 1 .. q
      BY <1>2, <2>2
    <3>2. PICK c \in Child : \E k \in DOMAIN r[c] : m = base[c] + k
      BY <1>2, <3>1
    <3>3. PICK k \in DOMAIN r[c] : m = base[c] + k
      BY <3>2
    <3> QED
      BY <1>4, <3>3
  <2> QED
    BY <2>1, <2>2
<1>7. entries \in Seq(EntryType) /\ Len(entries) = n
  <2>1. entries = [m \in 1 .. n |-> entries[m]]
    BY <1>3
  <2>2. entries \in Seq(EntryType)
    BY <1>6, <2>1, IsASeq
  <2> QED
    BY <2>1, <2>2, LenProperties
<1> QED
  BY <1>2, <1>4, <1>6, <1>7 DEF Laid

\* The parent prints the sum of what it finds.
LEMMA MergePrints ==
  ASSUME PInv, Merge
  PROVE  PrintedIsSum'
<1> SUFFICES ASSUME parent' = "done", ~overlap' PROVE Shows(Printed', InBest', K)
  BY DEF PrintedIsSum
<1>1. /\ \A c \in Child : child[c].pc = "ended"
      /\ files' = files /\ overlap' = overlap
  BY DEF Merge
<1>2. PICK entries \in IF program = "proc" THEN Slots ELSE {Results} :
        insertAll(entries) # <<>> /\ lines' = topKFrequent(insertAll(entries), K)
  BY DEF Merge
<1>3. files \in Inputs /\ \A c \in Child : IsResult(child[c].res, FileCount(c))
  BY <1>1 DEF PInv, TInv, ResultInv
<1>4. PICK r : r = [c \in Child |-> child[c].res]
  OBVIOUS
<1>5. \E base : Laid(entries, r, base)
  <2>1. CASE program = "proc"
    <3>1. PICK base, q : Serial(base, q)
      BY <1>1, <2>1 DEF PInv, SerialInv
    <3>2. entries \in Slots /\ ResultInv
      BY <1>2, <2>1 DEF PInv
    <3>3. Laid(entries, r, base)
      BY <1>1, <1>4, <3>1, <3>2, SlotsLaid
    <3> QED
      BY <3>3
  <2>2. CASE program # "proc"
    <3>1. entries = Results
      BY <1>2, <2>2
    <3>2. \A c \in Child : r[c] \in Seq(EntryType)
      BY <1>3, <1>4 DEF IsResult
    <3> QED
      BY <1>4, <3>1, <3>2, ResultsLaid
  <2> QED
    BY <2>1, <2>2
<1>6. PICK base : Laid(entries, r, base)
  BY <1>5
<1>7. Shows(Words(topKFrequent(insertAll(entries), K)), InBest, K)
  BY <1>2, <1>3, <1>4, <1>6, MergeShows
<1>8. Printed' = Words(topKFrequent(insertAll(entries), K))
  BY <1>2 DEF Printed, Words
<1>9. InBest' = InBest
  BY <1>1 DEF InBest
<1> QED
  BY <1>7, <1>8, <1>9

LEMMA PrintedNext == PInv /\ [TNext]_tvars => PrintedIsSum'
<1> SUFFICES ASSUME PInv, [TNext]_tvars PROVE PrintedIsSum'
  OBVIOUS
<1>1. CASE /\ files' = files /\ lines' = lines
           /\ parent' = "done" => parent = "done"
           /\ ~overlap' => ~overlap
  <2>1. Printed' = Printed /\ InBest' = InBest
    BY <1>1 DEF Printed, InBest
  <2> QED
    BY <1>1, <2>1 DEF PInv, PrintedIsSum
<1>2. ASSUME NEW c \in Child, ChildStep(c) PROVE PrintedIsSum'
  <2>1. files' = files /\ lines' = lines
    BY <1>2 DEF ChildStep, Start, Locate, Copy, Load, Store, Worker
  <2>2. parent' = "done" => parent = "done"
    BY <1>2 DEF ChildStep, Start, Locate, Copy, Load, Store, Worker
  <2>3. ~overlap' => ~overlap
    BY <1>2 DEF ChildStep, Start, Locate, Copy, Load, Store, Worker
  <2> QED
    BY <1>1, <2>1, <2>2, <2>3
<1>3. CASE Merge
  BY <1>3, MergePrints
<1> QED
  BY <1>1, <1>2, <1>3 DEF TNext, Exited, tvars

LEMMA PInvNext == PInv /\ [TNext]_tvars => PInv'
<1> SUFFICES ASSUME PInv, [TNext]_tvars PROVE PInv'
  OBVIOUS
<1>1. TInv' /\ ResultInv' /\ SerialInv' /\ PrintedIsSum'
  BY TInvNext, ResultInvNext, SerialInvNext, PrintedNext DEF PInv
<1>2. program' = program
  BY DEF TNext, ChildStep, Start, Locate, Copy, Load, Store, Worker, Merge, Exited, tvars
<1> QED
  BY <1>1, <1>2 DEF PInv

LEMMA PInvAlways == TSpec => []PInv
  BY PInvInit, PInvNext, PTL DEF TSpec

LEMMA PInvPrints == PInv => PrintedIsSum
  BY DEF PInv

\* If no two children copy at the same time (proctopk.c:122-140), in whatever order they do, the
\* parent finds their words at the slots that it reads and nothing else, and prints the sum of
\* their results (proctopk.c:55-76); so it does of the threads' results, one behind the other
\* (threadtopk.c:73-95).
THEOREM SumIsPrinted == TSpec => []PrintedIsSum
  BY PInvAlways, PInvPrints, PTL
===============================================================================
