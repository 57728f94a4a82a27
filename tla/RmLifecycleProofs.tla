--------------------------- MODULE RmLifecycleProofs ---------------------------
(***************************************************************************)
(* What becomes of p3's matrices in memory, where rm_detection() reads     *)
(* them without the mutex and rm_thread_started() and rm_thread_ended()    *)
(* count the threads without it: the library's guarantees in the programs  *)
(* that use it, for every number of threads, every program of calls and    *)
(* every number of polls.                                                  *)
(***************************************************************************)
EXTENDS RmLifecycle, ResourceManagerProofs, SequenceTheorems, FiniteSetTheorems

USE SizeAssumption, RmAssumption DEF Matrix

-------------------------------------------------------------------------------
(* What a run of writes leaves in a cell *)

\* Every write goes to a cell, and is a count.
Writings == Seq(Cell \X Nat)

\* The writes of w leave x in the cell c; they do not touch it.
Puts(w, c, x) ==
  \E k \in 1 .. Len(w) : w[k] = <<c, x>> /\ \A l \in 1 .. Len(w) : l > k => w[l][1] # c
\* No write of w goes to the cell c.
Misses(w, c) == \A k \in 1 .. Len(w) : w[k][1] # c

\* The cells of available, and those of one thread's row of a matrix.
IsFree(c)         == c[1] = "available"
\* The cell c belongs to the row of thread t in the matrix name.
InRow(c, name, t) == \E r \in Res : c = <<name, t, r>>

\* Once w has been written, a cell that held v holds x.
After(w, c, v, x) == Puts(w, c, x) \/ (Misses(w, c) /\ v = x)

\* No writes leave a cell as it is.
LEMMA AfterNothing ==
  ASSUME NEW c, NEW v, NEW x
  PROVE  After(<<>>, c, v, x) <=> v = x
<1>1. Len(<<>>) = 0
  OBVIOUS
<1> QED
  BY <1>1 DEF After, Puts, Misses

\* Of two runs of writes the second has the last word.
LEMMA AfterBoth ==
  ASSUME NEW u \in Writings, NEW w \in Writings, NEW c, NEW v, NEW y, NEW x,
         After(u, c, v, y), After(w, c, y, x)
  PROVE  u \o w \in Writings /\ After(u \o w, c, v, x)
<1> DEFINE s == u \o w
<1>1. /\ s \in Writings /\ Len(s) = Len(u) + Len(w)
      /\ \A i \in 1 .. Len(u) + Len(w) : s[i] = IF i <= Len(u) THEN u[i] ELSE w[i - Len(u)]
      /\ Len(u) \in Nat /\ Len(w) \in Nat
  BY ConcatProperties, LenProperties DEF Writings
<1>2. \A i \in 1 .. Len(u) : i \in 1 .. Len(s) /\ s[i] = u[i]
  BY <1>1
<1>3. \A i \in 1 .. Len(w) : Len(u) + i \in 1 .. Len(s) /\ s[Len(u) + i] = w[i]
  BY <1>1
<1>4. \A i \in 1 .. Len(s) : i > Len(u) => i - Len(u) \in 1 .. Len(w) /\ s[i] = w[i - Len(u)]
  BY <1>1
<1>5. \A i \in 1 .. Len(s) : i <= Len(u) => i \in 1 .. Len(u)
  BY <1>1
<1> HIDE DEF s
<1>6. CASE Puts(w, c, x)
  <2>1. PICK k \in 1 .. Len(w) : w[k] = <<c, x>> /\ \A l \in 1 .. Len(w) : l > k => w[l][1] # c
    BY <1>6 DEF Puts
  <2>2. Len(u) + k \in 1 .. Len(s) /\ s[Len(u) + k] = <<c, x>>
    BY <1>3, <2>1
  <2>3. ASSUME NEW l \in 1 .. Len(s), l > Len(u) + k PROVE s[l][1] # c
    <3>1. l > Len(u) /\ l - Len(u) > k
      BY <1>1, <2>3
    <3> QED
      BY <1>4, <2>1, <3>1
  <2> QED
    BY <1>1, <2>2, <2>3 DEF Puts, After, s
<1>7. CASE Misses(w, c) /\ Puts(u, c, x)
  <2>1. PICK k \in 1 .. Len(u) : u[k] = <<c, x>> /\ \A l \in 1 .. Len(u) : l > k => u[l][1] # c
    BY <1>7 DEF Puts
  <2>2. k \in 1 .. Len(s) /\ s[k] = <<c, x>>
    BY <1>2, <2>1
  <2>3. ASSUME NEW l \in 1 .. Len(s), l > k PROVE s[l][1] # c
    BY <1>7, <1>4, <1>5, <1>2, <2>1, <1>1, <2>3 DEF Misses
  <2> QED
    BY <1>1, <2>2, <2>3 DEF Puts, After, s
<1>8. CASE Misses(w, c) /\ Misses(u, c)
  <2>1. ASSUME NEW l \in 1 .. Len(s) PROVE s[l][1] # c
    <3>1. CASE l <= Len(u)
      <4>1. l \in 1 .. Len(u)
        BY <1>5, <3>1
      <4> QED
        BY <4>1, <1>8, <1>2 DEF Misses
    <3>2. CASE l > Len(u)
      BY <3>2, <1>8, <1>4 DEF Misses
    <3> QED
      BY <1>1, <3>1, <3>2
  <2>2. ~Puts(u, c, y) /\ ~Puts(w, c, x)
    BY <1>8 DEF Misses, Puts
  <2> QED
    BY <1>1, <2>1, <2>2 DEF After, Misses, s
<1>9. ~Puts(w, c, x) => Misses(w, c) /\ y = x
  BY DEF After
<1> QED
  BY <1>6, <1>7, <1>8, <1>9 DEF After

\* When the first of the writes is made, the rest still lead to the same value.
LEMMA AfterFirst ==
  ASSUME NEW w \in Writings, w # <<>>, NEW c, NEW v, NEW x, After(w, c, v, x)
  PROVE  /\ Head(w) \in Cell \X Nat /\ Tail(w) \in Writings
         /\ After(Tail(w), c, IF Head(w)[1] = c THEN Head(w)[2] ELSE v, x)
<1> DEFINE s == Tail(w)
<1>1. /\ Head(w) \in Cell \X Nat /\ s \in Writings /\ Len(s) = Len(w) - 1
      /\ \A i \in 1 .. Len(s) : s[i] = w[i+1]
      /\ Head(w) = w[1] /\ Len(w) \in Nat \ {0}
  BY HeadTailProperties, EmptySeq DEF Writings
<1> HIDE DEF s
<1>2. \A i \in 1 .. Len(w) : i # 1 => i-1 \in 1 .. Len(s) /\ w[i] = s[i-1]
  BY <1>1
<1>3. CASE Misses(w, c)
  <2>1. \A i \in 1 .. Len(s) : i+1 \in 1 .. Len(w)
    BY <1>1
  <2>2. Misses(s, c) /\ w[1][1] # c
    <3>1. w[1][1] # c
      BY <1>1, <1>3 DEF Misses
    <3>2. ASSUME NEW i \in 1 .. Len(s) PROVE s[i][1] # c
      BY <1>1, <1>3, <2>1 DEF Misses
    <3> QED
      BY <3>1, <3>2 DEF Misses
  <2>3. ~Puts(w, c, x)
    <3>1. \A k \in 1 .. Len(w) : w[k] # <<c, x>>
      BY <1>3 DEF Misses
    <3> QED
      BY <3>1 DEF Puts
  <2> QED
    BY <1>1, <2>2, <2>3 DEF After, s
<1>4. CASE Puts(w, c, x)
  <2>1. PICK k \in 1 .. Len(w) : w[k] = <<c, x>> /\ \A l \in 1 .. Len(w) : l > k => w[l][1] # c
    BY <1>4 DEF Puts
  <2>2. CASE k = 1
    <3>1. Misses(s, c)
      BY <1>1, <2>1, <2>2 DEF Misses
    <3>2. Head(w)[1] = c /\ Head(w)[2] = x
      BY <1>1, <2>1, <2>2
    <3> QED
      BY <1>1, <3>1, <3>2 DEF After, s
  <2>3. CASE k # 1
    <3>1. k-1 \in 1 .. Len(s) /\ s[k-1] = <<c, x>>
      BY <1>2, <2>1, <2>3
    <3>2. ASSUME NEW l \in 1 .. Len(s), l > k-1 PROVE s[l][1] # c
      <4>1. l+1 \in 1 .. Len(w) /\ l+1 > k /\ s[l] = w[l+1]
        BY <1>1, <3>2
      <4> QED
        BY <2>1, <4>1
    <3>3. Puts(s, c, x)
      BY <3>1, <3>2 DEF Puts
    <3> QED
      BY <1>1, <3>3 DEF After, s
  <2> QED
    BY <2>2, <2>3
<1> QED
  BY <1>3, <1>4 DEF After

\* A row of a matrix, written from left to right.
LEMMA AfterRow ==
  ASSUME NEW name \in {"allocation", "requests"}, NEW t \in Thread, NEW row \in Vector
  PROVE  /\ Row(name, t, row) \in Writings /\ Row(name, t, row) # <<>>
         /\ \A c, v, x :
              x = (IF InRow(c, name, t) THEN row[c[3]] ELSE v)
                => After(Row(name, t, row), c, v, x)
<1> DEFINE w == Row(name, t, row)
<1> USE DEF InRow
<1>1. \A k \in 1 .. M : k-1 \in Res /\ <<name, t, k-1>> \in Cell /\ row[k-1] \in Nat
  BY DEF Res, Cell, Vector
<1>2. w \in [1 .. M -> Cell \X Nat]
  BY <1>1 DEF Row
<1>3. w \in Writings /\ Len(w) = M
  BY <1>2 DEF Writings
<1>4. w # <<>>
  BY <1>3
<1>5. \A k \in 1 .. M : w[k] = <<<<name, t, k-1>>, row[k-1]>>
  BY DEF Row
<1> HIDE DEF w
<1>6. ASSUME NEW c, NEW v, NEW x,
             x = (IF InRow(c, name, t) THEN row[c[3]] ELSE v)
      PROVE  After(w, c, v, x)
  <2>1. CASE \E r \in Res : c = <<name, t, r>>
    <3>1. PICK r \in Res : c = <<name, t, r>>
      BY <2>1
    <3>2. x = row[r]
      BY <1>6, <2>1, <3>1
    <3>3. r+1 \in 1 .. M /\ (r+1)-1 = r
      BY DEF Res
    <3>4. w[r+1] = <<c, x>>
      BY <1>5, <3>1, <3>2, <3>3
    <3>5. ASSUME NEW l \in 1 .. M, l > r+1 PROVE w[l][1] # c
      <4>1. w[l][1] = <<name, t, l-1>> /\ l-1 # r
        BY <1>5, <3>5 DEF Res
      <4> QED
        BY <4>1, <3>1
    <3> QED
      BY <1>3, <3>3, <3>4, <3>5 DEF After, Puts
  <2>2. CASE ~\E r \in Res : c = <<name, t, r>>
    <3>1. Misses(w, c)
      BY <1>1, <1>3, <1>5, <2>2 DEF Misses
    <3> QED
      BY <1>6, <2>2, <3>1 DEF After
  <2> QED
    BY <2>1, <2>2
<1> QED
  BY <1>3, <1>4, <1>6 DEF w

\* available and a row of allocation, in turn.
LEMMA AfterMove ==
  ASSUME NEW t \in Thread, NEW free \in Vector, NEW held \in Vector
  PROVE  /\ Move(t, free, held) \in Writings /\ Move(t, free, held) # <<>>
         /\ \A c \in Cell : \A v, x :
              x = (IF IsFree(c) THEN free[c[2]]
                   ELSE IF InRow(c, "allocation", t) THEN held[c[3]] ELSE v)
                => After(Move(t, free, held), c, v, x)
<1> DEFINE w == Move(t, free, held)
<1> USE DEF InRow, IsFree
<1>0. 2*M \in Nat \ {0}
  OBVIOUS
<1>1. \A k \in 1 .. 2*M :
         /\ (k-1) \div 2 \in Res
         /\ k % 2 = 1 => k = 2 * ((k-1) \div 2) + 1
         /\ k % 2 # 1 => k = 2 * ((k-1) \div 2) + 2
  BY DEF Res
<1>2. \A r \in Res :
         /\ 2*r + 1 \in 1 .. 2*M /\ (2*r + 1) % 2 = 1 /\ ((2*r + 1) - 1) \div 2 = r
         /\ 2*r + 2 \in 1 .. 2*M /\ (2*r + 2) % 2 # 1 /\ ((2*r + 2) - 1) \div 2 = r
  BY DEF Res
<1>3. \A k \in 1 .. 2*M :
         LET r == (k-1) \div 2
         IN  w[k] = IF k % 2 = 1 THEN <<<<"available", r>>, free[r]>>
                                 ELSE <<<<"allocation", t, r>>, held[r]>>
  BY DEF Move
<1>4. \A r \in Res : /\ <<"available", r>> \in Cell /\ <<"allocation", t, r>> \in Cell
                     /\ free[r] \in Nat /\ held[r] \in Nat
  BY DEF Cell, Vector
<1>5. ASSUME NEW k \in 1 .. 2*M PROVE w[k] \in Cell \X Nat
  <2>1. PICK r \in Res : r = (k-1) \div 2
    BY <1>1
  <2>2. w[k] = IF k % 2 = 1 THEN <<<<"available", r>>, free[r]>>
                            ELSE <<<<"allocation", t, r>>, held[r]>>
    BY <1>3, <2>1
  <2> QED
    BY <1>4, <2>2
<1>6. w \in [1 .. 2*M -> Cell \X Nat]
  BY <1>5 DEF Move
<1>7. w \in Writings /\ Len(w) = 2*M
  BY <1>6, <1>0 DEF Writings
<1>8. w # <<>>
  BY <1>7, <1>0
<1>9. \A r \in Res : /\ w[2*r + 1] = <<<<"available", r>>, free[r]>>
                     /\ w[2*r + 2] = <<<<"allocation", t, r>>, held[r]>>
  BY <1>2, <1>3
<1>10. \A k \in 1 .. 2*M : \E r \in Res :
          \/ k = 2*r + 1 /\ w[k] = <<<<"available", r>>, free[r]>>
          \/ k = 2*r + 2 /\ w[k] = <<<<"allocation", t, r>>, held[r]>>
  BY <1>1, <1>3
<1> HIDE DEF w
<1>11. ASSUME NEW c \in Cell, NEW v, NEW x,
              x = (IF IsFree(c) THEN free[c[2]]
                   ELSE IF InRow(c, "allocation", t) THEN held[c[3]] ELSE v)
       PROVE  After(w, c, v, x)
  <2>0. \A r, s \in Res : /\ <<"available", r>> # <<"allocation", t, s>>
                          /\ <<"available", r>> = <<"available", s>> => r = s
                          /\ <<"allocation", t, r>> = <<"allocation", t, s>> => r = s
    OBVIOUS
  <2>1. ASSUME NEW r \in Res, c = <<"available", r>> PROVE After(w, c, v, x)
    <3>1. x = free[r]
      BY <1>11, <2>1
    <3>2. ASSUME NEW l \in 1 .. 2*M, l > 2*r + 1 PROVE w[l][1] # c
      <4>1. PICK s \in Res : \/ l = 2*s + 1 /\ w[l] = <<<<"available", s>>, free[s]>>
                             \/ l = 2*s + 2 /\ w[l] = <<<<"allocation", t, s>>, held[s]>>
        BY <1>10
      <4>2. l = 2*s + 1 => s # r
        BY <3>2 DEF Res
      <4> QED
        BY <2>0, <2>1, <4>1, <4>2
    <3> QED
      BY <1>2, <1>7, <1>9, <2>1, <3>1, <3>2 DEF After, Puts
  <2>2. ASSUME NEW r \in Res, c = <<"allocation", t, r>> PROVE After(w, c, v, x)
    <3>1. x = held[r]
      BY <1>11, <2>0, <2>2
    <3>2. ASSUME NEW l \in 1 .. 2*M, l > 2*r + 2 PROVE w[l][1] # c
      <4>1. PICK s \in Res : \/ l = 2*s + 1 /\ w[l] = <<<<"available", s>>, free[s]>>
                             \/ l = 2*s + 2 /\ w[l] = <<<<"allocation", t, s>>, held[s]>>
        BY <1>10
      <4>2. l = 2*s + 2 => s # r
        BY <3>2 DEF Res
      <4> QED
        BY <2>0, <2>2, <4>1, <4>2
    <3> QED
      BY <1>2, <1>7, <1>9, <2>2, <3>1, <3>2 DEF After, Puts
  <2>3. CASE ~\E r \in Res : c = <<"available", r>> \/ c = <<"allocation", t, r>>
    <3>1. Misses(w, c)
      BY <1>7, <1>10, <2>3 DEF Misses
    <3>2. c[1] # "available"
      BY <2>3 DEF Cell
    <3> QED
      BY <1>11, <2>3, <3>1, <3>2 DEF After
  <2> QED
    BY <2>1, <2>2, <2>3
<1> QED
  BY <1>7, <1>8, <1>11 DEF w

-------------------------------------------------------------------------------
(* The writes of a critical section bring memory up to date. *)

\* The cells have as many shapes as there are arrays.
LEMMA Cells ==
  ASSUME NEW c \in Cell
  PROVE  \/ \E r \in Res : c = <<"available", r>>
         \/ \E u \in Thread, r \in Res : c = <<"allocation", u, r>>
         \/ \E u \in Thread, r \in Res : c = <<"requests", u, r>>
BY DEF Cell

\* A row of a thread is in one matrix and of that thread only.
LEMMA CellShapes ==
  ASSUME NEW r \in Res, NEW u \in Thread, NEW t \in Thread
  PROVE  /\ LET c == <<"available", r>>
            IN  /\ IsFree(c) /\ ~InRow(c, "allocation", t) /\ ~InRow(c, "requests", t)
                /\ c[2] = r /\ c[1] # "allocation" /\ c \in Cell
         /\ LET c == <<"allocation", u, r>>
            IN  /\ ~IsFree(c) /\ ~InRow(c, "requests", t)
                /\ InRow(c, "allocation", t) <=> u = t
                /\ c[1] = "allocation" /\ c[2] = u /\ c[3] = r /\ c \in Cell
         /\ LET c == <<"requests", u, r>>
            IN  /\ ~IsFree(c) /\ ~InRow(c, "allocation", t)
                /\ InRow(c, "requests", t) <=> u = t
                /\ c[1] # "allocation" /\ c[2] = u /\ c[3] = r /\ c \in Cell
BY DEF IsFree, InRow, Cell

\* is_state_safe() leaves everything as it was.
LEMMA TrialWrites ==
  ASSUME TypeOK, NEW t \in Thread, NEW req \in Vector
  PROVE  /\ Trial(t, req) \in Writings
         /\ \A c \in Cell : \A v : (InRow(c, "allocation", t) => v = Actual(c)) =>
              After(Trial(t, req), c, v, v)
<1>1. CASE DA = 1
  <2> DEFINE tried == Plus(allocation[t], req)
             u == Row("allocation", t, tried)
             w == Row("allocation", t, allocation[t])
  <2>1. allocation[t] \in Vector /\ tried \in Vector
    BY VectorArith DEF TypeOK
  <2>2. u \in Writings /\ w \in Writings
    BY <2>1, AfterRow
  <2>3. Trial(t, req) = u \o w
    BY <1>1 DEF Trial
  <2>4. u \o w \in Writings
    BY <2>2, ConcatProperties DEF Writings
  <2>5. ASSUME NEW c \in Cell, NEW v, InRow(c, "allocation", t) => v = Actual(c)
        PROVE  After(u \o w, c, v, v)
    <3>1. PICK y : y = IF InRow(c, "allocation", t) THEN tried[c[3]] ELSE v
      OBVIOUS
    <3>2. After(u, c, v, y)
      BY <2>1, <3>1, AfterRow
    <3>3. v = IF InRow(c, "allocation", t) THEN allocation[t][c[3]] ELSE y
      BY <2>5, <3>1 DEF InRow, Actual, IsFree
    <3>4. After(w, c, y, v)
      BY <2>1, <3>3, AfterRow
    <3> HIDE DEF u, w
    <3> QED
      BY <2>2, <3>2, <3>4, AfterBoth
  <2> QED
    BY <2>3, <2>4, <2>5
<1>2. CASE DA # 1
  <2>1. Trial(t, req) = <<>>
    BY <1>2 DEF Trial
  <2>2. <<>> \in Writings
    BY EmptySeq DEF Writings
  <2> QED
    BY <2>1, <2>2, AfterNothing
<1> QED
  BY <1>1, <1>2

\* A grant reaches memory whole, whatever the caller has recorded as its request.
LEMMA TakeWrites ==
  ASSUME TypeOK, NEW t \in Thread, NEW req \in Vector, CanAllocate(t, req), Allocate(t, req)
  PROVE  /\ Take(t, req) \in Writings /\ Take(t, req) # <<>>
         /\ \A c \in Cell : \A v : (~InRow(c, "requests", t) => v = Actual(c)) =>
              After(Take(t, req), c, v, Actual(c)')
<1> DEFINE free == Minus(available, req)
           held == Plus(allocation[t], req)
           s == Trial(t, req)
           u == Move(t, free, held)
           w == Row("requests", t, Zero)
<1>1. free \in Vector /\ held \in Vector /\ Zero \in Vector
  <2>1. arrLessThan(req, available)
    BY DEF CanAllocate, is_available, TypeOK
  <2> QED
    BY <2>1, VectorArith DEF TypeOK
<1>2. s \in Writings
  BY TrialWrites
<1>3. u \in Writings /\ w \in Writings /\ w # <<>>
  BY <1>1, AfterMove, AfterRow
<1>4. Take(t, req) = (s \o u) \o w
  BY DEF Take
<1>5. s \o u \in Writings /\ (s \o u) \o w \in Writings /\ (s \o u) \o w # <<>>
  <2>1. s \o u \in Writings
    BY <1>2, <1>3, ConcatProperties DEF Writings
  <2> QED
    BY <2>1, <1>3, ConcatProperties, ConcatEqualIffEmpty DEF Writings
<1>6. /\ available' = free
      /\ allocation' = [allocation EXCEPT ![t] = held]
      /\ requests' = [requests EXCEPT ![t] = Zero]
  BY DEF Allocate, TypeOK
<1>7. ASSUME NEW c \in Cell, NEW v, ~InRow(c, "requests", t) => v = Actual(c)
      PROVE  After((s \o u) \o w, c, v, Actual(c)')
  <2>1. After(s, c, v, v)
    <3>1. InRow(c, "allocation", t) => ~InRow(c, "requests", t)
      BY DEF InRow
    <3> QED
      BY <1>7, <3>1, TrialWrites
  <2>2. PICK y : y = IF IsFree(c) THEN free[c[2]]
                     ELSE IF InRow(c, "allocation", t) THEN held[c[3]] ELSE v
    OBVIOUS
  <2>3. After(u, c, v, y)
    BY <1>1, <2>2, AfterMove
  <2>4. Actual(c)' = IF InRow(c, "requests", t) THEN Zero[c[3]] ELSE y
    <3>1. ASSUME NEW r \in Res, c = <<"available", r>>
          PROVE  Actual(c)' = IF InRow(c, "requests", t) THEN Zero[c[3]] ELSE y
      BY <3>1, <2>2, <1>6, CellShapes DEF Actual, IsFree
    <3>2. ASSUME NEW a \in Thread, NEW r \in Res, c = <<"allocation", a, r>>
          PROVE  Actual(c)' = IF InRow(c, "requests", t) THEN Zero[c[3]] ELSE y
      <4>1. /\ ~IsFree(c) /\ ~InRow(c, "requests", t) /\ (InRow(c, "allocation", t) <=> a = t)
            /\ c[1] = "allocation" /\ c[2] = a /\ c[3] = r
        BY <3>2, CellShapes
      <4>2. Actual(c)' = allocation'[a][r]
        BY <4>1 DEF Actual, IsFree
      <4>3. Actual(c) = allocation[a][r]
        BY <4>1 DEF Actual, IsFree
      <4>4. CASE a = t
        BY <4>4, <4>1, <4>2, <2>2, <1>6 DEF TypeOK
      <4>5. CASE a # t
        BY <4>5, <4>1, <4>2, <4>3, <2>2, <1>6, <1>7 DEF TypeOK
      <4> QED
        BY <4>4, <4>5
    <3>3. ASSUME NEW a \in Thread, NEW r \in Res, c = <<"requests", a, r>>
          PROVE  Actual(c)' = IF InRow(c, "requests", t) THEN Zero[c[3]] ELSE y
      <4>1. /\ ~IsFree(c) /\ ~InRow(c, "allocation", t) /\ (InRow(c, "requests", t) <=> a = t)
            /\ c[1] # "allocation" /\ c[2] = a /\ c[3] = r
        BY <3>3, CellShapes
      <4>2. Actual(c)' = requests'[a][r]
        BY <4>1 DEF Actual, IsFree
      <4>3. Actual(c) = requests[a][r]
        BY <4>1 DEF Actual, IsFree
      <4>4. CASE a = t
        BY <4>4, <4>1, <4>2, <1>6 DEF TypeOK
      <4>5. CASE a # t
        BY <4>5, <4>1, <4>2, <4>3, <2>2, <1>6, <1>7 DEF TypeOK
      <4> QED
        BY <4>4, <4>5
    <3> QED
      BY <3>1, <3>2, <3>3, Cells
  <2>5. After(w, c, y, Actual(c)')
    BY <1>1, <2>4, AfterRow
  <2> HIDE DEF s, u, w
  <2>6. After(s \o u, c, v, y)
    BY <1>2, <1>3, <2>1, <2>3, AfterBoth
  <2> QED
    BY <1>3, <1>5, <2>5, <2>6, AfterBoth
<1> QED
  BY <1>4, <1>5, <1>7

\* What is still to be written brings memory up to date.
MemInv ==
  /\ memory \in [Cell -> Nat]
  /\ writes \in Writings
  /\ \A c \in Cell : After(writes, c, memory[c], Actual(c))

\* A section whose writes lead from the old values to the new ones keeps MemInv.
LEMMA SectionFollows ==
  ASSUME MemInv, NEW w \in Writings, Section(w),
         \A c \in Cell : After(w, c, Actual(c), Actual(c)')
  PROVE  MemInv'
<1>1. \A c \in Cell : memory[c] = Actual(c)
  BY AfterNothing DEF MemInv, Section
<1> QED
  BY <1>1 DEF MemInv, Section

\* The cells depend on the three arrays alone.
LEMMA ActualKept ==
  ASSUME NEW c, UNCHANGED <<available, allocation, requests>>
  PROVE  Actual(c)' = Actual(c)
BY DEF Actual, IsFree

\* Nothing rm_detection() reads has changed.
Same == UNCHANGED <<available, allocation, requests>>

\* A section that changes no array, and writes nothing, keeps MemInv.
LEMMA SectionNothing ==
  ASSUME MemInv, Section(<<>>), Same
  PROVE  MemInv'
<1>1. <<>> \in Writings
  BY EmptySeq DEF Writings
<1>2. \A c \in Cell : After(<<>>, c, Actual(c), Actual(c)')
  BY AfterNothing, ActualKept DEF Same
<1> QED
  BY <1>1, <1>2, SectionFollows

\* A critical section that writes nothing has changed nothing.
LEMMA AskFollows ==
  ASSUME TypeOK, MemInv, NEW t \in Thread, NEW req \in Vector, Ask(t, req)
  PROVE  MemInv' /\ (writes' = <<>> => Same)
<1>1. CASE RequestRefused(t, req) /\ Section(<<>>)
  <2>1. Same
    BY <1>1 DEF RequestRefused, vars, Same
  <2> QED
    BY <1>1, <2>1, SectionNothing
<1> DEFINE u == Row("requests", t, req)
<1>2. u \in Writings /\ u # <<>>
  BY AfterRow
<1>3. CASE RequestGranted(t, req) /\ Section(u \o Take(t, req))
  <2> DEFINE w == Take(t, req)
  <2>1. CanAllocate(t, req) /\ Allocate(t, req)
    BY <1>3 DEF RequestGranted
  <2>2. w \in Writings
    BY <2>1, TakeWrites
  <2>3. u \o w \in Writings /\ u \o w # <<>>
    BY <1>2, <2>2, ConcatProperties, ConcatEqualIffEmpty DEF Writings
  <2>4. ASSUME NEW c \in Cell PROVE After(u \o w, c, Actual(c), Actual(c)')
    <3>1. PICK y : y = IF InRow(c, "requests", t) THEN req[c[3]] ELSE Actual(c)
      OBVIOUS
    <3>2. After(u, c, Actual(c), y)
      BY <3>1, AfterRow
    <3>3. After(w, c, y, Actual(c)')
      BY <2>1, <3>1, TakeWrites
    <3> HIDE DEF u, w
    <3> QED
      BY <1>2, <2>2, <3>2, <3>3, AfterBoth
  <2>5. Section(u \o w)
    BY <1>3
  <2>6. writes' # <<>>
    BY <2>3, <2>5 DEF Section
  <2> QED
    BY <2>3, <2>4, <2>5, <2>6, SectionFollows
<1>4. CASE RequestBlocked(t, req) /\ Section(u \o Trial(t, req))
  <2> DEFINE w == Trial(t, req)
  <2>1. requests' = [requests EXCEPT ![t] = req] /\ UNCHANGED <<available, allocation>>
    BY <1>4 DEF RequestBlocked
  <2>2. w \in Writings
    BY TrialWrites
  <2>3. u \o w \in Writings /\ u \o w # <<>>
    BY <1>2, <2>2, ConcatProperties, ConcatEqualIffEmpty DEF Writings
  <2>4. ASSUME NEW c \in Cell PROVE After(u \o w, c, Actual(c), Actual(c)')
    <3>1. Actual(c)' = IF InRow(c, "requests", t) THEN req[c[3]] ELSE Actual(c)
      <4>1. ASSUME NEW r \in Res, c = <<"available", r>>
            PROVE  Actual(c)' = IF InRow(c, "requests", t) THEN req[c[3]] ELSE Actual(c)
        BY <4>1, <2>1, CellShapes DEF Actual, IsFree
      <4>2. ASSUME NEW a \in Thread, NEW r \in Res, c = <<"allocation", a, r>>
            PROVE  Actual(c)' = IF InRow(c, "requests", t) THEN req[c[3]] ELSE Actual(c)
        BY <4>2, <2>1, CellShapes DEF Actual, IsFree
      <4>3. ASSUME NEW a \in Thread, NEW r \in Res, c = <<"requests", a, r>>
            PROVE  Actual(c)' = IF InRow(c, "requests", t) THEN req[c[3]] ELSE Actual(c)
        <5>1. /\ ~IsFree(c) /\ (InRow(c, "requests", t) <=> a = t)
              /\ c[1] # "allocation" /\ c[2] = a /\ c[3] = r
          BY <4>3, CellShapes
        <5>2. Actual(c)' = requests'[a][r] /\ Actual(c) = requests[a][r]
          BY <5>1 DEF Actual, IsFree
        <5> QED
          BY <5>1, <5>2, <2>1 DEF TypeOK
      <4> QED
        BY <4>1, <4>2, <4>3, Cells
    <3>2. After(u, c, Actual(c), Actual(c)')
      BY <3>1, AfterRow
    <3>3. After(w, c, Actual(c)', Actual(c)')
      <4>1. InRow(c, "allocation", t) => ~InRow(c, "requests", t)
        BY DEF InRow
      <4> QED
        BY <3>1, <4>1, TrialWrites
    <3> HIDE DEF u, w
    <3> QED
      BY <1>2, <2>2, <3>2, <3>3, AfterBoth
  <2>5. Section(u \o w)
    BY <1>4
  <2>6. writes' # <<>>
    BY <2>3, <2>5 DEF Section
  <2> QED
    BY <2>3, <2>4, <2>5, <2>6, SectionFollows
<1> QED
  BY <1>1, <1>3, <1>4 DEF Ask

\* So does a woken thread's second look at its request,
LEMMA AskAgainFollows ==
  ASSUME TypeOK, MemInv, NEW t \in Thread, AskAgain(t)
  PROVE  MemInv' /\ (writes' = <<>> => Same)
<1>0. requests[t] \in Vector
  BY DEF TypeOK
<1>1. CASE WokenGranted(t) /\ Section(Take(t, requests[t]))
  <2>1. CanAllocate(t, requests[t]) /\ Allocate(t, requests[t])
    BY <1>1 DEF WokenGranted
  <2>2. /\ Take(t, requests[t]) \in Writings /\ Take(t, requests[t]) # <<>>
        /\ \A c \in Cell : \A v : (~InRow(c, "requests", t) => v = Actual(c)) =>
             After(Take(t, requests[t]), c, v, Actual(c)')
    BY <1>0, <2>1, TakeWrites
  <2>3. MemInv'
    BY <1>1, <2>2, SectionFollows
  <2> QED
    BY <1>1, <2>2, <2>3 DEF Section
<1>2. CASE WokenBlocked(t) /\ Section(Trial(t, requests[t]))
  <2>1. Same
    BY <1>2 DEF WokenBlocked, matrices, Same
  <2>2. /\ Trial(t, requests[t]) \in Writings
        /\ \A c \in Cell : After(Trial(t, requests[t]), c, Actual(c), Actual(c))
    BY <1>0, TrialWrites
  <2>3. \A c \in Cell : After(Trial(t, requests[t]), c, Actual(c), Actual(c)')
    BY <2>1, <2>2, ActualKept DEF Same
  <2> QED
    BY <1>2, <2>1, <2>2, <2>3, SectionFollows
<1> QED
  BY <1>1, <1>2 DEF AskAgain

\* and a release.
LEMMA GiveBackFollows ==
  ASSUME TypeOK, MemInv, NEW t \in Thread, NEW rel \in Vector, GiveBack(t, rel)
  PROVE  MemInv' /\ (writes' = <<>> => Same)
<1>1. CASE ReleaseRefused(t, rel) /\ Section(<<>>)
  <2>1. Same
    BY <1>1 DEF ReleaseRefused, vars, Same
  <2> QED
    BY <1>1, <2>1, SectionNothing
<1> DEFINE free == Plus(available, rel)
           held == Minus(allocation[t], rel)
           w == Move(t, free, held)
<1>2. CASE Released(t, rel) /\ Section(w)
  <2>1. free \in Vector /\ held \in Vector
    BY <1>2, VectorArith DEF Released, TypeOK
  <2>2. w \in Writings /\ w # <<>>
    BY <2>1, AfterMove
  <2>3. available' = free /\ allocation' = [allocation EXCEPT ![t] = held] /\ requests' = requests
    BY <1>2 DEF Released, TypeOK
  <2>4. ASSUME NEW c \in Cell PROVE After(w, c, Actual(c), Actual(c)')
    <3>1. Actual(c)' = IF IsFree(c) THEN free[c[2]]
                       ELSE IF InRow(c, "allocation", t) THEN held[c[3]] ELSE Actual(c)
      <4>1. ASSUME NEW r \in Res, c = <<"available", r>>
            PROVE  Actual(c)' = free[c[2]] /\ IsFree(c)
        BY <4>1, <2>3, CellShapes DEF Actual, IsFree
      <4>2. ASSUME NEW a \in Thread, NEW r \in Res, c = <<"allocation", a, r>>
            PROVE  ~IsFree(c) /\ Actual(c)' = IF InRow(c, "allocation", t) THEN held[c[3]] ELSE Actual(c)
        <5>1. /\ ~IsFree(c) /\ (InRow(c, "allocation", t) <=> a = t)
              /\ c[1] = "allocation" /\ c[2] = a /\ c[3] = r
          BY <4>2, CellShapes
        <5>2. Actual(c)' = allocation'[a][r] /\ Actual(c) = allocation[a][r]
          BY <5>1 DEF Actual, IsFree
        <5> QED
          BY <5>1, <5>2, <2>3 DEF TypeOK
      <4>3. ASSUME NEW a \in Thread, NEW r \in Res, c = <<"requests", a, r>>
            PROVE  ~IsFree(c) /\ ~InRow(c, "allocation", t) /\ Actual(c)' = Actual(c)
        BY <4>3, <2>3, CellShapes DEF Actual, IsFree
      <4> QED
        BY <4>1, <4>2, <4>3, Cells
    <3> QED
      BY <2>1, <3>1, AfterMove
  <2>5. Section(w) /\ writes' # <<>>
    BY <1>2, <2>2 DEF Section
  <2> QED
    BY <2>2, <2>4, <2>5, SectionFollows
<1> QED
  BY <1>1, <1>2 DEF GiveBack

\* One write reaches memory.
LEMMA WriteFollows ==
  ASSUME MemInv, Write
  PROVE  MemInv'
<1> DEFINE h == Head(writes)
<1>1. /\ writes # <<>> /\ writes' = Tail(writes) /\ UNCHANGED vars
      /\ memory' = [memory EXCEPT ![h[1]] = h[2]]
  BY DEF Write
<1>2. h \in Cell \X Nat /\ Tail(writes) \in Writings
  BY <1>1, HeadTailProperties DEF MemInv, Writings
<1>3. h[1] \in Cell /\ h[2] \in Nat
  BY <1>2
<1>4. memory' \in [Cell -> Nat]
  BY <1>1, <1>3 DEF MemInv
<1>5. ASSUME NEW c \in Cell PROVE After(writes', c, memory'[c], Actual(c)')
  <2>1. memory'[c] = IF h[1] = c THEN h[2] ELSE memory[c]
    BY <1>1, <1>3 DEF MemInv
  <2>2. Actual(c)' = Actual(c)
    BY <1>1, ActualKept DEF vars
  <2>3. After(Tail(writes), c, IF h[1] = c THEN h[2] ELSE memory[c], Actual(c))
    BY <1>1, AfterFirst DEF MemInv
  <2> QED
    BY <1>1, <2>1, <2>2, <2>3
<1> QED
  BY <1>1, <1>2, <1>4, <1>5 DEF MemInv

\* All the writes of a section reach memory at once.
LEMMA WriteAllFollows ==
  ASSUME MemInv, WriteAll
  PROVE  MemInv'
<1>1. writes' = <<>> /\ UNCHANGED vars /\ memory' = [c \in Cell |-> Actual(c)]
  BY DEF WriteAll
<1>2. <<>> \in Writings
  BY EmptySeq DEF Writings
<1>3. ASSUME NEW c \in Cell
      PROVE  Actual(c) \in Nat /\ After(writes', c, memory'[c], Actual(c)')
  <2>1. memory'[c] = Actual(c) /\ Actual(c)' = Actual(c)
    BY <1>1, ActualKept DEF vars
  <2>2. After(writes, c, memory[c], Actual(c)) /\ writes \in Writings /\ memory[c] \in Nat
    BY DEF MemInv
  <2>3. Actual(c) \in Nat
    <3>1. CASE Puts(writes, c, Actual(c))
      BY <2>2, <3>1 DEF Puts, Writings
    <3>2. CASE memory[c] = Actual(c)
      BY <2>2, <3>2
    <3> QED
      BY <2>2, <3>1, <3>2 DEF After
  <2> QED
    BY <1>1, <2>1, <2>3, AfterNothing
<1>4. memory' \in [Cell -> Nat]
  BY <1>1, <1>3
<1> QED
  BY <1>1, <1>2, <1>3, <1>4 DEF MemInv

\* Memory is written, by one write or by all that are left.
Stores == Write \/ WriteAll

LEMMA StoresFollow ==
  ASSUME MemInv, Stores
  PROVE  MemInv'
BY WriteFollows, WriteAllFollows DEF Stores

-------------------------------------------------------------------------------
(* Memory and the detector apart, the threads do what ResourceManager says. *)

\* Writes and reads of memory are no steps of ResourceManager.
LEMMA DStepIsStep == [DNext]_<<vars, dvars>> => [Next]_vars
<1> SUFFICES ASSUME [DNext]_<<vars, dvars>> PROVE [Next]_vars
  OBVIOUS
<1>1. CASE UNCHANGED <<vars, dvars>>
  BY <1>1
<1>2. CASE Detect
  BY <1>2 DEF Detect, Called, CalledWith, ReadAvailable, Compare, AddRow, Returned, Step
<1>3. CASE Write
  BY <1>3 DEF Write
<1>4. ASSUME NEW t \in Thread, Locked(t), UNCHANGED DA PROVE [Next]_vars
  <2>1. Call(t)
    BY <1>4 DEF Locked, Ask, AskAgain, GiveBack, Call
  <2> QED
    BY <1>4, <2>1 DEF Next, ThreadStep
<1>5. ASSUME NEW t \in Thread, Unlocked(t), UNCHANGED DA PROVE [Next]_vars
  <2>1. Call(t)
    BY <1>5 DEF Unlocked, Call
  <2> QED
    BY <1>5, <2>1 DEF Next, ThreadStep
<1> QED
  BY <1>1, <1>2, <1>3, <1>4, <1>5 DEF DNext

\* Whatever rm_detection() reads, and however the writes of the critical sections
\* reach memory between its reads, the threads keep every promise ResourceManager
\* makes for them: a step of the detailed model is one of its steps, or none.
THEOREM DetectionIsHarmless == DSpec => Spec
<1>1. DInit => Init
  BY DEF DInit
<1> QED
  BY <1>1, DStepIsStep, PTL DEF DSpec, Spec

-------------------------------------------------------------------------------
(* A call of rm_detection() that no critical section overlaps *)

\* The detector, between two of its reads.
DetectorType ==
  /\ detector \in [pc : {"idle", "available", "scan", "add", "done"}, i : 0 .. N, j : Res,
                   work : Vector, finish : SUBSET Thread, quiet : BOOLEAN]
  /\ detector.pc = "add" => detector.i \in Thread
  /\ detector.quiet => writes = <<>>

\* What is free and what the threads marked as finished hold.
Freed(d, r) == available[r] + Held(allocation, d.finish, r)

\* What an undisturbed call has found out so far.
Sound(d) ==
  /\ d.pc = "available" =>
       /\ d.i = 0 /\ d.finish = {}
       /\ \A r \in Res : d.work[r] = IF r < d.j THEN available[r] ELSE 0
  /\ d.pc \in {"scan", "add"} => d.finish \cap Deadlocked = {}
  /\ d.pc = "scan" =>
       /\ \A r \in Res : d.work[r] = Freed(d, r)
       /\ \A u \in Thread \ d.finish : u < d.i => \E r \in Res : requests[u][r] > d.work[r]
       /\ d.i \in Thread \ d.finish => \A r \in Res : r < d.j => requests[d.i][r] <= d.work[r]
  /\ d.pc = "add" =>
       /\ d.i \notin d.finish
       /\ \A r \in Res :
            /\ d.work[r] = Freed(d, r) + (IF r < d.j THEN allocation[d.i][r] ELSE 0)
            /\ requests[d.i][r] <= Freed(d, r)
  /\ d.pc = "done" => Thread \ d.finish = Deadlocked

\* An undisturbed call of rm_detection() has read what is true.
QuietInv == detector.quiet => Sound(detector)

\* What the detector has found stays true while the arrays do not change.
LEMMA SoundKept ==
  ASSUME NEW d, Same
  PROVE  Sound(d)' <=> Sound(d)
BY DEF Same, Sound, Freed, Deadlocked

\* A thread whose request fits in what the finished ones leave is not deadlocked.
LEMMA FitsIsFree ==
  ASSUME TypeOK, NEW F \in SUBSET Thread, F \cap Deadlocked = {}, NEW i \in Thread,
         \A r \in Res : requests[i][r] <= available[r] + Held(allocation, F, r)
  PROVE  i \notin Deadlocked
<1> HIDE DEF Matrix
<1>1. PICK D \in SUBSET Thread : D = Deadlocked
  BY Detects
<1>2. Hopeless(available, allocation, requests, D)
  BY <1>1, Detects
<1>3. allocation \in Matrix /\ available \in Vector /\ requests \in Matrix
  BY DEF TypeOK, Matrix
<1>4. F \subseteq Thread \ D
  BY <1>1
<1>5. \A r \in Res : /\ Held(allocation, F, r) <= Held(allocation, Thread \ D, r)
                     /\ Held(allocation, F, r) \in Nat /\ Held(allocation, Thread \ D, r) \in Nat
                     /\ available[r] \in Nat /\ requests[i][r] \in Nat
  BY <1>3, <1>4, HeldMono, HeldType DEF Vector, Matrix
<1>6. ASSUME i \in D PROVE FALSE
  <2>1. PICK r \in Res : requests[i][r] > available[r] + Held(allocation, Thread \ D, r)
    BY <1>2, <1>6 DEF Hopeless
  <2> QED
    BY <1>5, <2>1
<1> QED
  BY <1>1, <1>6

\* When no thread that is left fits, the threads left are the deadlocked ones.
LEMMA NoneFits ==
  ASSUME TypeOK, NEW F \in SUBSET Thread, F \cap Deadlocked = {},
         \A u \in Thread \ F :
           \E r \in Res : requests[u][r] > available[r] + Held(allocation, F, r)
  PROVE  Thread \ F = Deadlocked
<1>1. Thread \ (Thread \ F) = F
  OBVIOUS
<1>2. Hopeless(available, allocation, requests, Thread \ F)
  BY <1>1 DEF Hopeless
<1>3. Thread \ F \subseteq Deadlocked
  BY <1>2, Detects
<1> QED
  BY <1>3, Detects

\* Memory shows the arrays when no write is under way.
LEMMA MemoryIsUpToDate ==
  ASSUME MemInv, writes = <<>>
  PROVE  /\ \A r \in Res : memory[<<"available", r>>] = available[r]
         /\ \A t \in Thread, r \in Res :
              /\ memory[<<"allocation", t, r>>] = allocation[t][r]
              /\ memory[<<"requests", t, r>>] = requests[t][r]
<1>1. \A c \in Cell : memory[c] = Actual(c)
  BY AfterNothing DEF MemInv
<1>2. ASSUME NEW r \in Res PROVE memory[<<"available", r>>] = available[r]
  <2>1. <<"available", r>> \in Cell /\ Actual(<<"available", r>>) = available[r]
    BY DEF Actual, Cell, IsFree
  <2> QED
    BY <1>1, <2>1
<1>3. ASSUME NEW t \in Thread, NEW r \in Res
      PROVE  /\ memory[<<"allocation", t, r>>] = allocation[t][r]
             /\ memory[<<"requests", t, r>>] = requests[t][r]
  <2>1. <<"allocation", t, r>> \in Cell /\ Actual(<<"allocation", t, r>>) = allocation[t][r]
    BY DEF Actual, Cell, IsFree
  <2>2. <<"requests", t, r>> \in Cell /\ Actual(<<"requests", t, r>>) = requests[t][r]
    BY DEF Actual, Cell, IsFree
  <2> QED
    BY <1>1, <2>1, <2>2
<1> QED
  BY <1>2, <1>3

\* The inductive invariant of the detection.
DInv == Inv1 /\ MemInv /\ DetectorType /\ QuietInv

\* It holds at first.
LEMMA InitDInv == DInit => DInv
<1> SUFFICES ASSUME DInit PROVE DInv
  OBVIOUS
<1>1. Inv1
  BY InitInv1 DEF DInit
<1>2. MemInv
  <2>1. <<>> \in Writings
    BY EmptySeq DEF Writings
  <2>2. ASSUME NEW c \in Cell PROVE memory[c] = Actual(c) /\ memory[c] \in Nat
    <3>1. ASSUME NEW r \in Res, c = <<"available", r>>
          PROVE  memory[c] = Actual(c) /\ memory[c] \in Nat
      <4>1. Actual(c) = available[r]
        BY <3>1 DEF Actual, IsFree
      <4> QED
        BY <3>1, <4>1, <1>1 DEF DInit, Inv1, TypeOK, Vector
    <3>2. ASSUME NEW a \in Thread, NEW r \in Res, c = <<"allocation", a, r>>
          PROVE  memory[c] = Actual(c) /\ memory[c] \in Nat
      <4>1. Actual(c) = allocation[a][r]
        BY <3>2 DEF Actual, IsFree
      <4> QED
        BY <3>2, <4>1 DEF DInit, Init, Zero
    <3>3. ASSUME NEW a \in Thread, NEW r \in Res, c = <<"requests", a, r>>
          PROVE  memory[c] = Actual(c) /\ memory[c] \in Nat
      <4>1. Actual(c) = requests[a][r]
        BY <3>3 DEF Actual, IsFree
      <4> QED
        BY <3>3, <4>1 DEF DInit, Init, Zero
    <3> QED
      BY <3>1, <3>2, <3>3, Cells
  <2>3. memory \in [Cell -> Nat]
    BY <2>2 DEF DInit
  <2> QED
    BY <2>1, <2>2, <2>3, AfterNothing DEF MemInv, DInit
<1>3. DetectorType /\ QuietInv
  <2>1. 0 \in Res /\ 0 \in 0 .. N /\ Zero \in Vector
    BY DEF Res, Vector, Zero
  <2> QED
    BY <2>1 DEF DetectorType, QuietInv, DInit, Idle
<1> QED
  BY <1>1, <1>2, <1>3 DEF DInv

\* A step of the detector changes neither the arrays nor memory.
LEMMA MemKept ==
  ASSUME MemInv, UNCHANGED <<vars, memory, writes>>
  PROVE  MemInv'
<1>1. \A c \in Cell : Actual(c)' = Actual(c)
  BY ActualKept DEF vars
<1> QED
  BY <1>1 DEF MemInv

\* The call: a thread that asks for nothing is finished at once.
LEMMA CalledFinds ==
  ASSUME DInv, NEW n, CalledWith(n), n = 0 => \A t \in Thread : pc[t] = "ended"
  PROVE  DetectorType' /\ QuietInv'
<1>0. Step([Idle EXCEPT !.pc = IF n = 0 THEN "done" ELSE "available",
                        !.finish = IF n = 0 THEN Thread ELSE {},
                        !.quiet = writes = <<>>])
  BY DEF CalledWith
<1> DEFINE d == [pc |-> IF n = 0 THEN "done" ELSE "available", i |-> 0, j |-> 0,
                 work |-> Zero, finish |-> IF n = 0 THEN Thread ELSE {},
                 quiet |-> writes = <<>>]
<1>1. detector' = d /\ UNCHANGED <<vars, memory, writes>>
  BY <1>0 DEF Step, Idle
<1>2. 0 \in Res /\ 0 \in 0 .. N /\ Zero \in Vector
  BY DEF Res, Vector, Zero
<1>3. DetectorType'
  BY <1>1, <1>2 DEF DetectorType
<1>4. TypeOK /\ Bookkeeping
  BY DEF DInv, Inv1
<1>5. CASE n = 0
  <2>1. \A t \in Thread : requests[t] = Zero
    BY <1>4, <1>5 DEF Bookkeeping
  <2>2. \A t \in Thread, r \in Res :
           requests[t][r] <= available[r] + Held(allocation, {}, r)
    <3> SUFFICES ASSUME NEW t \in Thread, NEW r \in Res
                 PROVE  requests[t][r] <= available[r] + Held(allocation, {}, r)
      OBVIOUS
    <3>1. allocation \in Matrix /\ available \in Vector
      BY <1>4 DEF TypeOK, Matrix
    <3>2. Held(allocation, {}, r) \in Nat
      BY <3>1, HeldType
    <3>3. available[r] \in Nat
      BY <3>1 DEF Vector
    <3>4. requests[t][r] = 0
      BY <2>1 DEF Zero
    <3> QED
      BY <3>2, <3>3, <3>4
  <2>3. \A t \in Thread : t \notin Deadlocked
    BY <1>4, <2>2, FitsIsFree
  <2>4. Deadlocked = {}
    BY <2>3 DEF Deadlocked
  <2>5. Sound(d)
    BY <1>5, <2>4 DEF Sound
  <2>6. Sound(d)'
    BY <1>1, <2>5, SoundKept DEF Same, vars
  <2> QED
    BY <1>1, <1>3, <2>6 DEF QuietInv
<1>6. CASE n # 0
  <2>1. Sound(d)
    BY <1>6 DEF Sound, Zero, Res
  <2>6. Sound(d)'
    BY <1>1, <2>1, SoundKept DEF Same, vars
  <2> QED
    BY <1>1, <1>3, <2>6 DEF QuietInv
<1> QED
  BY <1>3, <1>5, <1>6

\* One int of available is read into work.
LEMMA ReadAvailableFinds ==
  ASSUME DInv, ReadAvailable
  PROVE  DetectorType' /\ QuietInv'
<1> DEFINE j == detector.j
           d == [detector EXCEPT !.work[j] = memory[<<"available", j>>],
                                 !.j = IF j = M-1 THEN 0 ELSE j+1,
                                 !.pc = IF j = M-1 THEN "scan" ELSE @]
<1>1. detector.pc = "available" /\ detector' = d /\ UNCHANGED <<vars, memory, writes>>
  BY DEF ReadAvailable, Step
<1>2. DetectorType /\ MemInv /\ TypeOK
  BY DEF DInv, Inv1
<1>3. j \in Res /\ detector.work \in Vector /\ memory[<<"available", j>>] \in Nat
  BY <1>2 DEF DetectorType, MemInv, Cell
<1>4. /\ d.pc = IF j = M-1 THEN "scan" ELSE "available"
      /\ d.i = detector.i /\ d.j = (IF j = M-1 THEN 0 ELSE j+1)
      /\ d.finish = detector.finish /\ d.quiet = detector.quiet
      /\ d.work = [detector.work EXCEPT ![j] = memory[<<"available", j>>]]
  BY <1>1, <1>2 DEF DetectorType
<1>5. d.j \in Res /\ d.work \in Vector
  BY <1>3, <1>4 DEF Res, Vector
<1>6. d \in [pc : {"idle", "available", "scan", "add", "done"}, i : 0 .. N, j : Res,
             work : Vector, finish : SUBSET Thread, quiet : BOOLEAN]
  BY <1>2, <1>4, <1>5 DEF DetectorType
<1>7. DetectorType'
  BY <1>1, <1>2, <1>4, <1>6 DEF DetectorType
<1>8. ASSUME detector.quiet PROVE Sound(d)
  <2>1. Sound(detector) /\ writes = <<>>
    BY <1>2, <1>8 DEF DInv, QuietInv, DetectorType
  <2>2. /\ detector.i = 0 /\ detector.finish = {}
        /\ \A r \in Res : detector.work[r] = IF r < j THEN available[r] ELSE 0
    BY <1>1, <2>1 DEF Sound
  <2>3. memory[<<"available", j>>] = available[j]
    BY <1>2, <1>3, <2>1, MemoryIsUpToDate
  <2>4. \A r \in Res : d.work[r] = IF r <= j THEN available[r] ELSE 0
    BY <1>3, <1>4, <2>2, <2>3 DEF Res, Vector
  <2> HIDE DEF d
  <2>5. CASE j = M-1
    <3>1. \A r \in Res : d.work[r] = available[r] + Held(allocation, {}, r)
      <4>1. ASSUME NEW r \in Res PROVE d.work[r] = available[r] + Held(allocation, {}, r)
        <5>1. Held(allocation, {}, r) = 0
          BY <1>2, HeldEmpty DEF TypeOK
        <5>2. d.work[r] = available[r]
          BY <2>4, <2>5 DEF Res
        <5>3. available[r] \in Nat
          BY <1>2 DEF TypeOK, Vector
        <5> QED
          BY <5>1, <5>2, <5>3
      <4> QED
        BY <4>1
    <3> QED
      BY <1>4, <2>2, <2>5, <3>1 DEF Sound, Freed, Res, Thread
  <2>6. CASE j # M-1
    <3>1. \A r \in Res : d.work[r] = IF r < d.j THEN available[r] ELSE 0
      BY <1>3, <1>4, <2>4, <2>6 DEF Res
    <3> QED
      BY <1>4, <2>2, <2>6, <3>1 DEF Sound
  <2> QED
    BY <2>5, <2>6
<1>9. ASSUME detector.quiet PROVE Sound(detector)'
  <2>1. PICK e : e = d
    OBVIOUS
  <2>2. Sound(e)'
    BY <1>1, <1>8, <1>9, <2>1, SoundKept DEF Same, vars
  <2> QED
    BY <1>1, <2>1, <2>2
<1> QED
  BY <1>1, <1>4, <1>7, <1>9 DEF QuietInv

\* One int of a request is compared with one of work.
LEMMA CompareFinds ==
  ASSUME DInv, Compare
  PROVE  DetectorType' /\ QuietInv'
<1> DEFINE i == detector.i
           j == detector.j
           asked == memory[<<"requests", i, j>>]
           skips == i \in detector.finish \/ asked > detector.work[j]
           d == IF i = N THEN [detector EXCEPT !.pc = "done"]
                ELSE IF skips THEN [detector EXCEPT !.i = i+1, !.j = 0]
                ELSE IF j < M-1 THEN [detector EXCEPT !.j = j+1]
                ELSE [detector EXCEPT !.pc = "add", !.j = 0]
<1>1. detector.pc = "scan" /\ detector' = d /\ UNCHANGED <<vars, memory, writes>>
  BY DEF Compare, Step
<1>2. DetectorType /\ MemInv /\ TypeOK
  BY DEF DInv, Inv1
<1>3. j \in Res /\ i \in 0 .. N /\ detector.work \in Vector /\ detector.finish \in SUBSET Thread
  BY <1>2 DEF DetectorType
<1>4. i # N => i \in Thread /\ i+1 \in 0 .. N
  BY <1>3 DEF Thread
<1>5. 0 \in Res /\ (j < M-1 => j+1 \in Res)
  BY <1>3 DEF Res
<1>6. /\ d.finish = detector.finish /\ d.quiet = detector.quiet /\ d.work = detector.work
      /\ d \in [pc : {"idle", "available", "scan", "add", "done"}, i : 0 .. N, j : Res,
                work : Vector, finish : SUBSET Thread, quiet : BOOLEAN]
  BY <1>2, <1>4, <1>5 DEF DetectorType
<1>7. /\ d.pc \in {"scan", "add", "done"}
      /\ d.pc = "done" => i = N
      /\ d.pc = "add" => i # N /\ ~skips /\ j >= M-1 /\ d.i = i /\ d.j = 0
      /\ d.pc = "scan" => /\ i # N
                          /\ \/ skips /\ d.i = i+1 /\ d.j = 0
                             \/ ~skips /\ j < M-1 /\ d.i = i /\ d.j = j+1
  <2> HIDE DEF skips
  <2>1. CASE i = N
    BY <2>1, <1>1, <1>2 DEF DetectorType
  <2>2. CASE i # N /\ skips
    BY <2>2, <1>1, <1>2 DEF DetectorType
  <2>3. CASE i # N /\ ~skips /\ j < M-1
    BY <2>3, <1>1, <1>2 DEF DetectorType
  <2>4. CASE i # N /\ ~skips /\ ~(j < M-1)
    <3>1. j >= M-1
      BY <1>3, <2>4 DEF Res
    <3> QED
      BY <2>4, <3>1, <1>1, <1>2 DEF DetectorType
  <2> QED
    BY <2>1, <2>2, <2>3, <2>4
<1>8. DetectorType'
  BY <1>1, <1>2, <1>4, <1>6, <1>7 DEF DetectorType
<1>9. ASSUME detector.quiet PROVE Sound(d)
  <2>1. Sound(detector) /\ writes = <<>>
    BY <1>2, <1>9 DEF DInv, QuietInv, DetectorType
  <2>2. i # N => asked = requests[i][j]
    BY <1>2, <1>3, <1>4, <2>1, MemoryIsUpToDate
  <2>3. /\ detector.finish \cap Deadlocked = {}
        /\ \A r \in Res : detector.work[r] = Freed(detector, r)
        /\ \A u \in Thread \ detector.finish :
             u < i => \E r \in Res : requests[u][r] > detector.work[r]
        /\ i \in Thread \ detector.finish =>
             \A r \in Res : r < j => requests[i][r] <= detector.work[r]
    BY <1>1, <2>1 DEF Sound
  <2>4. \A r \in Res : Freed(d, r) = Freed(detector, r)
    BY <1>6 DEF Freed
  <2>5. \A u \in Thread, r \in Res : requests[u][r] \in Nat /\ detector.work[r] \in Nat
    BY <1>2, <1>3 DEF TypeOK, Vector
  <2> HIDE DEF d
  <2>6. CASE d.pc = "done"
    <3>1. \A u \in Thread : u < i
      BY <1>7, <2>6 DEF Thread
    <3>2. \A u \in Thread \ detector.finish : \E r \in Res :
            requests[u][r] > available[r] + Held(allocation, detector.finish, r)
      BY <2>3, <3>1 DEF Freed
    <3>3. Thread \ detector.finish = Deadlocked
      BY <1>2, <1>3, <2>3, <3>2, NoneFits
    <3> QED
      BY <1>6, <2>6, <3>3 DEF Sound
  <2>7. CASE d.pc = "add"
    <3>1. i \in Thread \ detector.finish /\ requests[i][j] <= detector.work[j] /\ j = M-1
      BY <1>3, <1>4, <1>7, <2>2, <2>5, <2>7 DEF Res
    <3>2. \A r \in Res : requests[i][r] <= detector.work[r]
      BY <2>3, <3>1 DEF Res
    <3>3. \A r \in Res : requests[i][r] <= Freed(d, r) /\ d.work[r] = Freed(d, r)
      BY <1>6, <2>3, <2>4, <3>2
    <3>4. \A r \in Res : ~(r < d.j) /\ d.work[r] \in Nat
      BY <1>6, <1>7, <2>5, <2>7, <1>4 DEF Res
    <3>5. \A r \in Res : d.work[r] = Freed(d, r) + (IF r < d.j THEN allocation[d.i][r] ELSE 0)
      BY <3>3, <3>4
    <3>6. d.i \notin d.finish /\ d.i = i
      BY <1>6, <1>7, <2>7, <3>1
    <3> QED
      BY <1>6, <2>3, <2>7, <3>3, <3>5, <3>6 DEF Sound
  <2>8. CASE d.pc = "scan" /\ skips /\ d.i = i+1 /\ d.j = 0
    <3>1. ASSUME NEW u \in Thread \ d.finish, u < d.i
          PROVE  \E r \in Res : requests[u][r] > d.work[r]
      <4>1. CASE u = i
        <5>1. i # N /\ asked > detector.work[j]
          BY <4>1, <1>6, <2>8, <3>1 DEF Thread
        <5> QED
          BY <4>1, <5>1, <1>3, <1>6, <2>2
      <4>2. CASE u # i
        <5>1. u < i
          BY <4>2, <2>8, <3>1, <1>3 DEF Thread
        <5> QED
          BY <5>1, <1>6, <2>3
      <4> QED
        BY <4>1, <4>2
    <3>2. \A r \in Res : ~(r < d.j)
      BY <2>8 DEF Res
    <3>3. \A r \in Res : d.work[r] = Freed(d, r)
      BY <1>6, <2>3, <2>4
    <3> QED
      BY <1>6, <2>3, <2>8, <3>1, <3>2, <3>3 DEF Sound
  <2>9. CASE d.pc = "scan" /\ ~skips /\ j < M-1 /\ d.i = i /\ d.j = j+1
    <3>1. i # N
      BY <1>7, <2>9
    <3>2. i \in Thread \ detector.finish /\ requests[i][j] <= detector.work[j]
      BY <1>3, <1>4, <2>2, <2>5, <2>9, <3>1
    <3>3. \A r \in Res : r < d.j => requests[i][r] <= detector.work[r]
      BY <1>3, <2>3, <2>9, <3>2 DEF Res
    <3>4. \A r \in Res : d.work[r] = Freed(d, r)
      BY <1>6, <2>3, <2>4
    <3> QED
      BY <1>6, <2>3, <2>9, <3>3, <3>4 DEF Sound
  <2> QED
    BY <1>7, <2>6, <2>7, <2>8, <2>9
<1>10. ASSUME detector.quiet PROVE Sound(detector)'
  <2>1. PICK e : e = d
    OBVIOUS
  <2>2. Sound(e)'
    BY <1>1, <1>9, <1>10, <2>1, SoundKept DEF Same, vars
  <2> QED
    BY <1>1, <2>1, <2>2
<1> QED
  BY <1>1, <1>6, <1>8, <1>10 DEF QuietInv

\* One int of a finished thread's allocation is added to work.
LEMMA AddRowFinds ==
  ASSUME DInv, AddRow
  PROVE  DetectorType' /\ QuietInv'
<1> DEFINE i == detector.i
           j == detector.j
           got == memory[<<"allocation", i, j>>]
           more == [detector EXCEPT !.work[j] = @ + got]
           d == IF j < M-1 THEN [more EXCEPT !.j = j+1]
                ELSE [more EXCEPT !.finish = @ \cup {more.i}, !.pc = "scan", !.i = 0, !.j = 0]
<1>1. detector.pc = "add" /\ detector' = d /\ UNCHANGED <<vars, memory, writes>>
  BY DEF AddRow, Step
<1>2. DetectorType /\ MemInv /\ TypeOK
  BY DEF DInv, Inv1
<1>3. /\ j \in Res /\ i \in Thread /\ detector.work \in Vector
      /\ detector.finish \in SUBSET Thread /\ got \in Nat
  BY <1>1, <1>2 DEF DetectorType, MemInv, Cell
<1>4. /\ d.quiet = detector.quiet
      /\ d.work = [detector.work EXCEPT ![j] = @ + got]
      /\ j < M-1 => d.pc = "add" /\ d.i = i /\ d.j = j+1 /\ d.finish = detector.finish
      /\ ~(j < M-1) => d.pc = "scan" /\ d.i = 0 /\ d.j = 0 /\ d.finish = detector.finish \cup {i}
  BY <1>1, <1>2 DEF DetectorType
<1>5. d.work \in Vector
  BY <1>3, <1>4 DEF Vector
<1>6. /\ d.j \in Res /\ d.i \in 0 .. N /\ d.finish \in SUBSET Thread
      /\ d.pc = "add" => d.i \in Thread
  BY <1>3, <1>4 DEF Res, Thread
<1>7. d \in [pc : {"idle", "available", "scan", "add", "done"}, i : 0 .. N, j : Res,
             work : Vector, finish : SUBSET Thread, quiet : BOOLEAN]
  BY <1>2, <1>4, <1>5, <1>6 DEF DetectorType
<1>8. DetectorType'
  BY <1>1, <1>2, <1>4, <1>6, <1>7 DEF DetectorType
<1>9. ASSUME detector.quiet PROVE Sound(d)
  <2>1. Sound(detector) /\ writes = <<>>
    BY <1>2, <1>9 DEF DInv, QuietInv, DetectorType
  <2>2. got = allocation[i][j]
    BY <1>2, <1>3, <2>1, MemoryIsUpToDate
  <2>3. /\ detector.finish \cap Deadlocked = {} /\ i \notin detector.finish
        /\ \A r \in Res :
             /\ detector.work[r] = Freed(detector, r) + (IF r < j THEN allocation[i][r] ELSE 0)
             /\ requests[i][r] <= Freed(detector, r)
    BY <1>1, <2>1 DEF Sound
  <2>4. \A r \in Res : /\ allocation[i][r] \in Nat /\ detector.work[r] \in Nat
                       /\ Freed(detector, r) \in Nat
    <3>1. \A r \in Res : Held(allocation, detector.finish, r) \in Nat
      BY <1>2, HeldType DEF TypeOK
    <3> HIDE DEF d
    <3> QED
      BY <3>1, <1>2, <1>3 DEF TypeOK, Vector, Freed
  <2>5. \A r \in Res :
          d.work[r] = Freed(detector, r) + (IF r <= j THEN allocation[i][r] ELSE 0)
    <3>1. \A r \in Res : d.work[r] = IF r = j THEN detector.work[j] + got ELSE detector.work[r]
      BY <1>3, <1>4 DEF Vector
    <3>2. \A r \in Res : r <= j <=> (r < j \/ r = j)
      BY <1>3 DEF Res
    <3>3. ~(j < j)
      BY <1>3 DEF Res
    <3> QED
      BY <1>3, <2>2, <2>3, <2>4, <3>1, <3>2, <3>3
  <2> HIDE DEF d
  <2>6. CASE j < M-1
    <3>1. \A r \in Res : Freed(d, r) = Freed(detector, r)
      BY <1>4, <2>6 DEF Freed
    <3>2. \A r \in Res : r <= j <=> r < d.j
      BY <1>3, <1>4, <2>6 DEF Res
    <3> QED
      BY <1>4, <2>3, <2>5, <2>6, <3>1, <3>2 DEF Sound
  <2>7. CASE ~(j < M-1)
    <3>1. \A r \in Res : d.work[r] = Freed(d, r)
      <4>1. ASSUME NEW r \in Res PROVE d.work[r] = Freed(d, r)
        <5>1. Held(allocation, detector.finish \cup {i}, r)
                = Held(allocation, detector.finish, r) + Held(allocation, {i}, r)
          <6>1. detector.finish \cap {i} = {} /\ allocation \in Matrix
            BY <2>3, <1>2 DEF TypeOK
          <6> QED
            BY <6>1, HeldUnion
        <5>2. Held(allocation, {i}, r) = allocation[i][r]
          <6>1. allocation \in Matrix /\ i \in Thread
            BY <1>2, <1>3 DEF TypeOK
          <6> QED
            BY <6>1, HeldSingle
        <5>3. r <= j
          BY <1>3, <2>7 DEF Res
        <5>4. /\ Held(allocation, detector.finish, r) \in Nat
              /\ available[r] \in Nat
          BY <1>2, HeldType DEF TypeOK, Vector
        <5>5. d.finish = detector.finish \cup {i}
          BY <1>4, <2>7
        <5> QED
          BY <2>4, <2>5, <5>1, <5>2, <5>3, <5>4, <5>5 DEF Freed
      <4> QED
        BY <4>1
    <3>2. i \notin Deadlocked
      BY <1>2, <1>3, <2>3, FitsIsFree DEF Freed
    <3>3. d.finish \cap Deadlocked = {}
      BY <1>4, <2>3, <2>7, <3>2
    <3>4. (\A u \in Thread : ~(u < d.i)) /\ \A r \in Res : ~(r < d.j)
      BY <1>4, <2>7 DEF Res, Thread
    <3> QED
      BY <1>4, <2>7, <3>1, <3>3, <3>4 DEF Sound
  <2> QED
    BY <2>6, <2>7
<1>10. ASSUME detector.quiet PROVE Sound(detector)'
  <2>1. PICK e : e = d
    OBVIOUS
  <2>2. Sound(e)'
    BY <1>1, <1>9, <1>10, <2>1, SoundKept DEF Same, vars
  <2> QED
    BY <1>1, <2>1, <2>2
<1> QED
  BY <1>1, <1>4, <1>8, <1>10 DEF QuietInv

\* The call returns.
LEMMA ReturnedFinds ==
  ASSUME DInv, Returned
  PROVE  DetectorType' /\ QuietInv'
<1>1. 0 \in Res /\ 0 \in 0 .. N /\ Zero \in Vector
  BY DEF Res, Vector, Zero
<1>2. detector' = Idle
  BY DEF Returned, Step
<1> QED
  BY <1>1, <1>2 DEF Idle, DetectorType, QuietInv

\* A call in progress outlives a critical section that wrote nothing.
LEMMA SectionQuiet ==
  ASSUME DetectorType, QuietInv, NEW w, Section(w), writes' = <<>> => Same
  PROVE  DetectorType' /\ QuietInv'
<1>1. writes' = w /\ detector' = [detector EXCEPT !.quiet = detector.quiet /\ w = <<>>]
  BY DEF Section
<1>2. DetectorType'
  BY <1>1 DEF DetectorType
<1>3. ASSUME detector.quiet' PROVE Sound(detector)'
  <2>1. detector.quiet = TRUE /\ w = <<>>
    BY <1>1, <1>3 DEF DetectorType
  <2>2. detector' = detector
    BY <1>1, <2>1 DEF DetectorType
  <2>3. PICK e : e = detector
    OBVIOUS
  <2>4. Sound(e)'
    BY <1>1, <2>1, <2>3, SoundKept DEF QuietInv
  <2> QED
    BY <2>2, <2>3, <2>4
<1> QED
  BY <1>2, <1>3 DEF QuietInv

\* The steps of the detector keep the invariant,
LEMMA DetectorKept ==
  ASSUME DetectorType, QuietInv, UNCHANGED <<writes, detector>>, Same
  PROVE  DetectorType' /\ QuietInv'
<1>1. DetectorType'
  BY DEF DetectorType
<1>2. PICK e : e = detector
  OBVIOUS
<1>3. Sound(e)' <=> Sound(e)
  BY SoundKept
<1> QED
  BY <1>1, <1>2, <1>3 DEF QuietInv

\* What each kind of step does to memory and to a call in progress.
LEMMA DetectStep ==
  ASSUME DInv, NEW n, n = 0 => \A t \in Thread : pc[t] = "ended",
         CalledWith(n) \/ ReadAvailable \/ Compare \/ AddRow \/ Returned
  PROVE  MemInv' /\ DetectorType' /\ QuietInv'
<1>1. UNCHANGED <<vars, memory, writes>>
  BY DEF CalledWith, ReadAvailable, Compare, AddRow, Returned, Step
<1>2. MemInv'
  BY <1>1, MemKept DEF DInv
<1> QED
  BY <1>2, CalledFinds, ReadAvailableFinds, CompareFinds, AddRowFinds, ReturnedFinds

\* as does a critical section, which ends the quiet,
LEMMA SectionStep ==
  ASSUME DInv, NEW t \in Thread, NEW v \in Vector, Ask(t, v) \/ AskAgain(t) \/ GiveBack(t, v)
  PROVE  MemInv' /\ DetectorType' /\ QuietInv'
<1>1. TypeOK /\ MemInv /\ DetectorType /\ QuietInv
  BY DEF DInv, Inv1
<1>2. MemInv' /\ (writes' = <<>> => Same)
  BY <1>1, AskFollows, AskAgainFollows, GiveBackFollows
<1>3. \E w : Section(w)
  BY DEF Ask, AskAgain, GiveBack
<1> QED
  BY <1>1, <1>2, <1>3, SectionQuiet

\* and a write of one.
LEMMA WriteStep ==
  ASSUME DInv, Stores
  PROVE  MemInv' /\ DetectorType' /\ QuietInv'
<1>1. MemInv'
  BY StoresFollow DEF DInv
<1>2. detector' = [detector EXCEPT !.quiet = FALSE]
  BY DEF Stores, Write, WriteAll
<1> QED
  BY <1>1, <1>2 DEF DInv, DetectorType, QuietInv

\* A step that touches neither memory nor anything rm_detection() reads.
LEMMA OtherStep ==
  ASSUME DInv, UNCHANGED dvars, Same
  PROVE  MemInv' /\ DetectorType' /\ QuietInv'
<1>1. MemInv'
  BY ActualKept DEF DInv, MemInv, dvars, Same
<1>2. DetectorType' /\ QuietInv'
  BY DetectorKept DEF DInv, dvars
<1> QED
  BY <1>1, <1>2

\* There are finitely many threads.
LEMMA ThreadFinite == IsFiniteSet(Thread)
<1>1. 0 \in Int /\ N-1 \in Int
  OBVIOUS
<1> QED
  BY <1>1, FS_Interval DEF Thread

\* A poll that is told of no threads is told so when all have ended.
LEMMA CountedNone ==
  Cardinality({t \in Thread : pc[t] # "ended"}) = 0 => \A t \in Thread : pc[t] = "ended"
<1>2. IsFiniteSet({t \in Thread : pc[t] # "ended"})
  BY ThreadFinite, FS_Subset
<1>3. Cardinality({t \in Thread : pc[t] # "ended"}) = 0 => {t \in Thread : pc[t] # "ended"} = {}
  BY <1>2, FS_EmptySet
<1> QED
  BY <1>3

\* Every step keeps the inductive invariant.
LEMMA StepDInv == DInv /\ [DNext]_<<vars, dvars>> => DInv'
<1> SUFFICES ASSUME DInv, [DNext]_<<vars, dvars>> PROVE DInv'
  OBVIOUS
<1>1. Inv1'
  BY DStepIsStep, StepInv1 DEF DInv
<1>2. CASE UNCHANGED <<vars, dvars>>
  BY <1>1, <1>2, OtherStep DEF DInv, vars, Same
<1>3. CASE Detect
  <2>1. PICK n : n = Cardinality({t \in Thread : pc[t] # "ended"})
    OBVIOUS
  <2>2. CalledWith(n) \/ ReadAvailable \/ Compare \/ AddRow \/ Returned
    BY <1>3, <2>1 DEF Detect, Called
  <2> QED
    BY <1>1, <2>1, <2>2, CountedNone, DetectStep DEF DInv
<1>4. CASE Write
  BY <1>1, <1>4, WriteStep DEF DInv, Stores
<1>5. ASSUME NEW t \in Thread, Locked(t), UNCHANGED DA PROVE DInv'
  BY <1>1, <1>5, SectionStep DEF Locked, DInv, Vector, Thread
<1>6. ASSUME NEW t \in Thread, Unlocked(t), UNCHANGED DA PROVE DInv'
  <2>1. UNCHANGED dvars /\ Same
    BY <1>6 DEF Unlocked, ClaimRejected, ClaimAccepted, ClaimColumn, SpuriousWakeup, ThreadEnded,
                matrices, Same
  <2> QED
    BY <1>1, <2>1, OtherStep DEF DInv
<1> QED
  BY <1>2, <1>3, <1>4, <1>5, <1>6 DEF DNext

\* rm_detection() takes no lock, and reads one int after another; but a call of
\* it that no critical section overlaps reports exactly the deadlocked threads.
THEOREM QuietDetection == DSpec => []QuietDetectionExact
<1>1. DInv => QuietDetectionExact
  BY DEF DInv, QuietInv, Sound, QuietDetectionExact, Reported
<1> QED
  BY <1>1, InitDInv, StepDInv, PTL DEF DSpec

-------------------------------------------------------------------------------
(* app.c and myapp.c, as users of the library *)

USE ProgramAssumption

\* The programs pass the library the arrays it may be passed.
LEMMA Arrays ==
  ASSUME NEW t \in Thread, NEW op, ip[t] \in Nat \ {0}, Current(t, op)
  PROVE  /\ Arr(t) \in Vector /\ op \in Op
         /\ op = "claim" => Arr(t) \in Claims
         /\ op \in {"request", "release"} => Arr(t) \in Requests
<1>1. Program[t] \in Seq([op : Op, arr : Vector]) /\ ip[t] \in 1 .. Len(Program[t])
  <2>1. Program[t] \in Seq([op : Op, arr : Vector])
    OBVIOUS
  <2>2. Len(Program[t]) \in Nat
    BY <2>1, LenProperties
  <2> QED
    BY <2>1, <2>2 DEF Current
<1>2. Program[t][ip[t]] \in [op : Op, arr : Vector]
  BY <1>1, ElementOfSeq
<1>3. Program[t][ip[t]].op = op
  BY DEF Current
<1> QED
  BY <1>1, <1>2, <1>3 DEF Arr

\* Programs are read from their first call on.
IpType == ip \in [Thread -> Nat \ {0}]

\* A call of a thread is one of its steps in ResourceManager.
LEMMA CallsStep ==
  ASSUME IpType, NEW t \in Thread, Calls(t)
  PROVE  ThreadStep(t)
<1>0. ip[t] \in Nat \ {0} /\ UNCHANGED DA
  BY DEF IpType, Calls
<1>1. CASE Current(t, "claim") /\ (ClaimRejected(t, Arr(t)) \/ ClaimAccepted(t, Arr(t)))
  <2>1. Arr(t) \in Claims
    BY <1>0, <1>1, Arrays
  <2> QED
    BY <1>0, <1>1, <2>1 DEF ThreadStep, Call
<1>2. CASE ClaimColumn(t)
  BY <1>0, <1>2 DEF ThreadStep, Call
<1>3. CASE Current(t, "request") /\ Ask(t, Arr(t))
  <2>1. Arr(t) \in Requests
    BY <1>0, <1>3, Arrays
  <2> QED
    BY <1>0, <1>3, <2>1 DEF ThreadStep, Call, Ask
<1>4. CASE AskAgain(t)
  BY <1>0, <1>4 DEF ThreadStep, Call, AskAgain
<1>5. CASE Current(t, "release") /\ GiveBack(t, Arr(t))
  <2>1. Arr(t) \in Requests
    BY <1>0, <1>5, Arrays
  <2> QED
    BY <1>0, <1>5, <2>1 DEF ThreadStep, Call, GiveBack
<1>6. CASE ThreadEnded(t)
  BY <1>0, <1>6 DEF ThreadStep, Call
<1> QED
  BY <1>1, <1>2, <1>3, <1>4, <1>5, <1>6 DEF Calls

\* A spurious wakeup of a program's thread is one of the library's.
LEMMA SpuriousStep ==
  ASSUME NEW t \in Thread, Spurious(t)
  PROVE  ThreadStep(t)
BY DEF Spurious, ThreadStep, Call

\* A poll changes nothing but the detector.
LEMMA PollIsNoStep ==
  ASSUME NEW n, MainPolls(n) \/ MainPolled \/ MainStopsPolling \/ MainJoins
  PROVE  UNCHANGED vars
BY DEF MainPolls, MainPolled, MainStopsPolling, MainJoins, CalledWith, ReadAvailable, Compare,
       AddRow, Returned, Step

\* How a step of the library with its threads' starts and ends touches the rest.
LEMMA LibraryStep ==
  ASSUME [LNext]_allvars
  PROVE  \/ UNCHANGED <<vars, ip>> /\ UNCHANGED dvars
         \/ UNCHANGED <<vars, ip>> /\ UNCHANGED <<memory, writes>>
         \/ Stores /\ UNCHANGED ip
         \/ \E t \in Thread : Calls(t)
         \/ \E t \in Thread : Spurious(t)
<1>1. ASSUME NEW n, MainPolls(n) \/ MainPolled \/ MainStopsPolling \/ MainJoins
      PROVE  UNCHANGED <<vars, ip>> /\ UNCHANGED <<memory, writes>>
  BY <1>1 DEF MainPolls, MainPolled, MainStopsPolling, MainJoins, CalledWith, ReadAvailable,
       Compare, AddRow, Returned, Step, dvars
<1>2. CASE LMain
  BY <1>1, <1>2 DEF LMain, MainPrints, MainDetects, MainDetected, MainEnds, avars
<1>3. CASE LibraryWrites
  BY <1>3 DEF LibraryWrites, Writes, Stores
<1>4. ASSUME NEW t \in Thread, StartOrEnd(t)
      PROVE  (UNCHANGED <<vars, ip>> /\ UNCHANGED dvars) \/ Calls(t)
  BY <1>4 DEF StartOrEnd, rm_thread_started, rm_thread_ended, Load, Store, EndAndFree, avars
<1>5. ASSUME NEW t \in Thread, InLibrary(t) PROVE Calls(t)
  BY <1>5 DEF InLibrary
<1>6. ASSUME NEW t \in Thread, Woken(t) PROVE Spurious(t)
  BY <1>6 DEF Woken
<1>7. CASE UNCHANGED allvars
  BY <1>7 DEF allvars, avars
<1> QED
  BY <1>2, <1>3, <1>4, <1>5, <1>6, <1>7 DEF LNext

\* A step of the program, seen by its parts.
LEMMA AppStep ==
  ASSUME [PollingNext]_avars
  PROVE  \/ UNCHANGED avars
         \/ UNCHANGED <<vars, ip>> /\ UNCHANGED <<memory, writes>>
                                 /\ (MainPolls(Active) \/ MainPolled \/ UNCHANGED detector)
         \/ Stores /\ UNCHANGED ip
         \/ \E t \in Thread : Calls(t)
         \/ \E t \in Thread : Spurious(t)
<1>1. ASSUME MainPolls(Active) \/ MainPolled \/ MainStopsPolling \/ MainJoins
      PROVE  UNCHANGED <<vars, ip>> /\ UNCHANGED <<memory, writes>>
             /\ (MainPolls(Active) \/ MainPolled \/ UNCHANGED detector)
  BY <1>1 DEF MainPolls, MainPolled, MainStopsPolling, MainJoins, CalledWith, ReadAvailable,
       Compare, AddRow, Returned, Step, dvars
<1> QED
  BY <1>1 DEF PollingNext, MainPolling, Main, Threads, Writes, Stores

\* A call leaves every index an index.
LEMMA CallsIpKept ==
  ASSUME IpType, NEW t \in Thread, Calls(t)
  PROVE  IpType'
BY DEF Calls, IpType

\* Every step of app.c or myapp.c is one of the library, or none;
LEMMA AppStepIsStep == IpType /\ [PollingNext]_avars => [Next]_vars /\ IpType'
<1> SUFFICES ASSUME IpType, [PollingNext]_avars PROVE [Next]_vars /\ IpType'
  OBVIOUS
<1>1. ASSUME NEW t \in Thread, Calls(t) PROVE Next /\ IpType'
  BY <1>1, CallsStep, CallsIpKept DEF Next
<1>2. ASSUME NEW t \in Thread, Spurious(t) PROVE Next /\ UNCHANGED ip
  BY <1>2, SpuriousStep DEF Next, Spurious
<1> QED
  BY <1>1, <1>2, AppStep DEF Stores, Write, WriteAll, avars, IpType

\* so it is with the starts and ends of the threads in detail.
LEMMA LStepIsStep == IpType /\ [LNext]_allvars => [Next]_vars /\ IpType'
<1> SUFFICES ASSUME IpType, [LNext]_allvars PROVE [Next]_vars /\ IpType'
  OBVIOUS
<1>1. ASSUME NEW t \in Thread, Calls(t) PROVE Next /\ IpType'
  BY <1>1, CallsStep, CallsIpKept DEF Next
<1>2. ASSUME NEW t \in Thread, Spurious(t) PROVE Next /\ UNCHANGED ip
  BY <1>2, SpuriousStep DEF Next, Spurious
<1> QED
  BY <1>1, <1>2, LibraryStep DEF Stores, Write, WriteAll, IpType

\* app.c and myapp.c keep within ResourceManager, polls or none, and with the
\* starts and ends of their threads: all that is proved of it holds of them.
THEOREM AppsUseLibrary == (PollingSpec => Spec) /\ (LSpec => Spec)
<1>1. AInit => Init /\ IpType
  BY DEF AInit, DInit, IpType
<1>2. LInit => Init /\ IpType
  BY <1>1 DEF LInit
<1>3. PollingSpec => Spec
  BY <1>1, AppStepIsStep, PTL DEF PollingSpec, Spec
<1>4. LSpec => Spec
  BY <1>2, LStepIsStep, PTL DEF LSpec, Spec
<1> QED
  BY <1>3, <1>4

-------------------------------------------------------------------------------
(* What main() is told *)

\* A call keeps the invariant, whether or not it is a critical section.
LEMMA CallsSection ==
  ASSUME DInv, IpType, NEW t \in Thread, Calls(t)
  PROVE  MemInv' /\ DetectorType' /\ QuietInv'
<1>1. ip[t] \in Nat \ {0}
  BY DEF IpType
<1>2. CASE Current(t, "claim") /\ (ClaimRejected(t, Arr(t)) \/ ClaimAccepted(t, Arr(t)))
                               /\ UNCHANGED dvars
  BY <1>2, OtherStep DEF ClaimRejected, ClaimAccepted, matrices, Same
<1>3. CASE ClaimColumn(t) /\ UNCHANGED dvars
  BY <1>3, OtherStep DEF ClaimColumn, Same
<1>4. CASE Current(t, "request") /\ Ask(t, Arr(t))
  BY <1>1, <1>4, Arrays, SectionStep
<1>5. CASE AskAgain(t)
  <2>1. Zero \in Vector
    BY DEF Zero, Vector
  <2> QED
    BY <1>5, <2>1, SectionStep
<1>6. CASE Current(t, "release") /\ GiveBack(t, Arr(t))
  BY <1>1, <1>6, Arrays, SectionStep
<1>7. CASE ThreadEnded(t) /\ UNCHANGED dvars
  BY <1>7, OtherStep DEF ThreadEnded, matrices, Same
<1> QED
  BY <1>2, <1>3, <1>4, <1>5, <1>6, <1>7 DEF Calls

\* The programs keep the detection's invariant.
LEMMA AppStepDInv == DInv /\ IpType /\ [PollingNext]_avars => DInv' /\ IpType'
<1> SUFFICES ASSUME DInv, IpType, [PollingNext]_avars PROVE DInv'
  BY AppStepIsStep
<1>1. Inv1'
  BY AppStepIsStep, StepInv1 DEF DInv
<1>2. CASE UNCHANGED avars
  BY <1>1, <1>2, OtherStep DEF DInv, avars, vars, Same
<1>3. CASE UNCHANGED <<vars, ip>> /\ UNCHANGED <<memory, writes>> /\ UNCHANGED detector
  BY <1>1, <1>3, OtherStep DEF DInv, vars, dvars, Same
<1>4. CASE MainPolls(Active) \/ MainPolled
  <2>1. Active = 0 => \A t \in Thread : pc[t] = "ended"
    BY CountedNone DEF Active
  <2>2. CalledWith(Active) \/ ReadAvailable \/ Compare \/ AddRow \/ Returned
    BY <1>4 DEF MainPolls, MainPolled
  <2> QED
    BY <1>1, <2>1, <2>2, DetectStep DEF DInv
<1>5. CASE Stores
  BY <1>1, <1>5, WriteStep DEF DInv
<1>6. ASSUME NEW t \in Thread, Calls(t) PROVE DInv'
  BY <1>1, <1>6, CallsSection DEF DInv
<1>7. ASSUME NEW t \in Thread, Spurious(t) PROVE DInv'
  BY <1>1, <1>7, OtherStep DEF DInv, Spurious, SpuriousWakeup, matrices, Same
<1> QED
  BY <1>2, <1>3, <1>4, <1>5, <1>6, <1>7, AppStep

\* When no rm_request() or rm_release() overlaps its poll, main() is told the
\* truth, in either program and whatever the threads do between its polls.
THEOREM QuietPolls == PollingSpec => []QuietDetectionExact
<1>1. DInv => QuietDetectionExact
  BY DEF DInv, QuietInv, Sound, QuietDetectionExact, Reported
<1>2. AInit => DInv /\ IpType
  BY InitDInv DEF AInit, IpType
<1> QED
  BY <1>1, <1>2, AppStepDInv, PTL DEF PollingSpec

-------------------------------------------------------------------------------
(* Whose writes are under way *)

\* The last of the writes is to a row of t.
LastBy(w, t) == w # <<>> /\ w[Len(w)][1][1] # "available" /\ w[Len(w)][1][2] = t

\* The last write of a run is the last of its end,
LEMMA LastOfBoth ==
  ASSUME NEW u \in Writings, NEW w \in Writings, NEW t, LastBy(w, t)
  PROVE  LastBy(u \o w, t)
<1>1. /\ Len(u \o w) = Len(u) + Len(w) /\ u \o w \in Writings
      /\ \A i \in 1 .. Len(u) + Len(w) :
           (u \o w)[i] = IF i <= Len(u) THEN u[i] ELSE w[i - Len(u)]
      /\ Len(u) \in Nat /\ Len(w) \in Nat \ {0}
  BY ConcatProperties, LenProperties, EmptySeq DEF Writings, LastBy
<1>2. Len(u) + Len(w) \in 1 .. Len(u) + Len(w) /\ ~(Len(u) + Len(w) <= Len(u))
      /\ (Len(u) + Len(w)) - Len(u) = Len(w)
  BY <1>1
<1>3. (u \o w)[Len(u \o w)] = w[Len(w)]
  BY <1>1, <1>2
<1>4. u \o w # <<>>
  BY ConcatEqualIffEmpty DEF Writings, LastBy
<1> QED
  BY <1>3, <1>4 DEF LastBy

\* and that of a row is to that row;
LEMMA LastOfRow ==
  ASSUME NEW name \in {"allocation", "requests"}, NEW t \in Thread, NEW row \in Vector
  PROVE  LastBy(Row(name, t, row), t)
<1> DEFINE w == Row(name, t, row)
<1>1. w # <<>> /\ w \in Writings
  BY AfterRow
<1>2. Len(w) = M /\ w[M] = <<<<name, t, M-1>>, row[M-1]>>
  BY DEF Row
<1> HIDE DEF w
<1>3. LastBy(w, t)
  BY <1>1, <1>2 DEF LastBy
<1> QED
  BY <1>3 DEF w

\* so it is when available and an allocation change together,
LEMMA LastOfMove ==
  ASSUME NEW t \in Thread, NEW free \in Vector, NEW held \in Vector
  PROVE  LastBy(Move(t, free, held), t)
<1> DEFINE w == Move(t, free, held)
<1>1. w # <<>> /\ w \in Writings
  BY AfterMove
<1>2. 2*M \in 1 .. 2*M /\ (2*M) % 2 # 1
  OBVIOUS
<1>3. Len(w) = 2*M
  BY DEF Move
<1>4. w[2*M] = <<<<"allocation", t, (2*M - 1) \div 2>>, held[(2*M - 1) \div 2]>>
  BY <1>2 DEF Move
<1> HIDE DEF w
<1>5. LastBy(w, t)
  BY <1>1, <1>3, <1>4 DEF LastBy
<1> QED
  BY <1>5 DEF w

\* when a trial is undone,
LEMMA LastOfTrial ==
  ASSUME TypeOK, NEW t \in Thread, NEW req \in Vector, Trial(t, req) # <<>>
  PROVE  LastBy(Trial(t, req), t)
<1>1. DA = 1
  BY DEF Trial
<1> DEFINE u == Row("allocation", t, Plus(allocation[t], req))
           w == Row("allocation", t, allocation[t])
<1>2. allocation[t] \in Vector /\ Plus(allocation[t], req) \in Vector
  BY VectorArith DEF TypeOK
<1>3. u \in Writings /\ w \in Writings /\ LastBy(w, t)
  BY <1>2, AfterRow, LastOfRow
<1>4. Trial(t, req) = u \o w
  BY <1>1 DEF Trial
<1> HIDE DEF u, w
<1> QED
  BY <1>3, <1>4, LastOfBoth

\* and when a request is granted.
LEMMA LastOfTake ==
  ASSUME TypeOK, NEW t \in Thread, NEW req \in Vector, CanAllocate(t, req)
  PROVE  Take(t, req) \in Writings /\ LastBy(Take(t, req), t)
<1> DEFINE free == Minus(available, req)
           held == Plus(allocation[t], req)
           s == Trial(t, req)
           u == Move(t, free, held)
           w == Row("requests", t, Zero)
<1>1. free \in Vector /\ held \in Vector /\ Zero \in Vector
  <2>1. arrLessThan(req, available)
    BY DEF CanAllocate, is_available, TypeOK
  <2> QED
    BY <2>1, VectorArith DEF TypeOK
<1>2. s \in Writings /\ u \in Writings /\ w \in Writings /\ LastBy(w, t)
  BY <1>1, TrialWrites, AfterMove, AfterRow, LastOfRow
<1>3. Take(t, req) = (s \o u) \o w
  BY DEF Take
<1> HIDE DEF s, u, w
<1>4. s \o u \in Writings /\ (s \o u) \o w \in Writings
  BY <1>2, ConcatProperties DEF Writings
<1> QED
  BY <1>2, <1>3, <1>4, LastOfBoth

\* Only the thread in a critical section has something to write.
LEMMA SectionIsOwn ==
  ASSUME TypeOK, NEW t \in Thread, NEW v \in Vector, Ask(t, v) \/ AskAgain(t) \/ GiveBack(t, v)
  PROVE  writes = <<>> /\ (writes' # <<>> => LastBy(writes', t))
<1>1. PICK w : Section(w) /\ \/ w = <<>>
                             \/ w = Row("requests", t, v) \o Take(t, v) /\ CanAllocate(t, v)
                             \/ w = Row("requests", t, v) \o Trial(t, v)
                             \/ w = Take(t, requests[t]) /\ CanAllocate(t, requests[t])
                             \/ w = Trial(t, requests[t])
                             \/ /\ w = Move(t, Plus(available, v), Minus(allocation[t], v))
                                /\ arrLessThan(v, allocation[t])
  BY DEF Ask, AskAgain, GiveBack, RequestGranted, WokenGranted, Released
<1>2. requests[t] \in Vector /\ available \in Vector /\ allocation[t] \in Vector
  BY DEF TypeOK
<1>3. Row("requests", t, v) \in Writings /\ LastBy(Row("requests", t, v), t)
  BY AfterRow, LastOfRow
<1>4. w # <<>> => LastBy(w, t)
  <2>1. CASE w = Row("requests", t, v) \o Take(t, v) /\ CanAllocate(t, v)
    BY <2>1, <1>3, LastOfTake, LastOfBoth
  <2>2. CASE w = Row("requests", t, v) \o Trial(t, v)
    <3>1. Trial(t, v) \in Writings
      BY TrialWrites
    <3>2. CASE Trial(t, v) = <<>>
      <4>1. Row("requests", t, v) \o <<>> = Row("requests", t, v)
        BY <1>3, ConcatEmptySeq DEF Writings
      <4> QED
        BY <2>2, <3>2, <4>1, <1>3
    <3>3. CASE Trial(t, v) # <<>>
      BY <2>2, <3>1, <3>3, <1>3, LastOfTrial, LastOfBoth
    <3> QED
      BY <3>2, <3>3
  <2>3. CASE w = Take(t, requests[t]) /\ CanAllocate(t, requests[t])
    BY <2>3, <1>2, LastOfTake
  <2>4. CASE w = Trial(t, requests[t])
    BY <2>4, <1>2, LastOfTrial
  <2>5. CASE /\ w = Move(t, Plus(available, v), Minus(allocation[t], v))
             /\ arrLessThan(v, allocation[t])
    <3>1. Plus(available, v) \in Vector /\ Minus(allocation[t], v) \in Vector
      BY <1>2, <2>5, VectorArith
    <3> QED
      BY <2>5, <3>1, LastOfMove
  <2> QED
    BY <1>1, <2>1, <2>2, <2>3, <2>4, <2>5
<1> QED
  BY <1>1, <1>4 DEF Section

-------------------------------------------------------------------------------
(* Where the threads are *)

\* The stages of a thread, from pthread_create() to its end.
Life == {"new", "starting", "running", "ending", "testing", "gone"}

\* The count, the copies of it that threads hold, and the stages.
LifeType ==
  /\ tcount \in Int
  /\ life \in [Thread -> Life]
  /\ loaded \in [Thread -> Int]
  /\ freed \in BOOLEAN
  /\ orderly \in BOOLEAN

\* The thread's next or current call is one of ops.
At(t, ops) == ip[t] <= Len(Program[t]) /\ Program[t][ip[t]].op \in ops

\* A thread calls the library between its start and its end only.
LifeInv ==
  \A t \in Thread :
    /\ life[t] \in {"new", "starting"} => pc[t] = "started"
    /\ pc[t] = "ended" <=> life[t] = "gone"
    /\ life[t] \in {"ending", "testing"} => At(t, {"end"})
    /\ pc[t] \in {"claiming", "waiting", "woken"} => At(t, {"claim", "request"})

\* Nobody starts or ends while its critical section has still to reach memory.
WriterRuns == writes # <<>> => \E t \in Thread : life[t] = "running" /\ LastBy(writes, t)

\* How a call moves its thread along.
LEMMA CallsMove ==
  ASSUME TypeOK, IpType, NEW t \in Thread, Calls(t)
  PROVE  \/ /\ Current(t, "end") /\ pc[t] = "idle" /\ pc' = [pc EXCEPT ![t] = "ended"]
            /\ ip' = [ip EXCEPT ![t] = ip[t] + 1] /\ UNCHANGED writes
         \/ /\ \A u \in Thread \ {t} :
                 pc'[u] = pc[u] \/ (pc[u] = "waiting" /\ pc'[u] = "woken")
            /\ pc'[t] \in {"idle", "claiming", "waiting"}
            /\ pc[t] = "claiming" \/ pc[t] = "woken" \/ At(t, {"claim", "request", "release"})
            /\ pc'[t] = "idle" => ip' = [ip EXCEPT ![t] = ip[t] + 1]
            /\ pc'[t] # "idle" =>
                 ip' = ip /\ (At(t, {"claim", "request"}) \/ pc[t] = "claiming" \/ pc[t] = "woken")
            /\ writes' = writes \/ (writes = <<>> /\ (writes' # <<>> => LastBy(writes', t)))
<1>0. pc \in [Thread -> PC] /\ ip[t] \in Nat \ {0}
      /\ ip' = IF pc'[t] \in {"idle", "ended"} THEN [ip EXCEPT ![t] = ip[t] + 1] ELSE ip
  BY DEF TypeOK, IpType, Calls
<1>1. CASE Current(t, "claim") /\ (ClaimRejected(t, Arr(t)) \/ ClaimAccepted(t, Arr(t)))
                               /\ UNCHANGED dvars
  BY <1>0, <1>1 DEF ClaimRejected, ClaimAccepted, PC, dvars, Current, At
<1>2. CASE ClaimColumn(t) /\ UNCHANGED dvars
  BY <1>0, <1>2 DEF ClaimColumn, PC, dvars
<1>3. CASE Current(t, "request") /\ Ask(t, Arr(t))
  <2>1. writes = <<>> /\ (writes' # <<>> => LastBy(writes', t))
    BY <1>0, <1>3, Arrays, SectionIsOwn
  <2>2. pc[t] = "idle" /\ (UNCHANGED pc \/ pc' = [pc EXCEPT ![t] = "waiting"])
    BY <1>3 DEF Ask, RequestRefused, RequestGranted, RequestBlocked, vars
  <2> QED
    BY <1>0, <1>3, <2>1, <2>2 DEF Current, At, PC
<1>4. CASE AskAgain(t)
  <2>1. Zero \in Vector
    BY DEF Zero, Vector
  <2>2. writes = <<>> /\ (writes' # <<>> => LastBy(writes', t))
    BY <1>4, <2>1, SectionIsOwn
  <2>3. pc[t] = "woken" /\ (pc' = [pc EXCEPT ![t] = "idle"] \/ pc' = [pc EXCEPT ![t] = "waiting"])
    BY <1>4 DEF AskAgain, WokenGranted, WokenBlocked
  <2> QED
    BY <1>0, <2>2, <2>3 DEF PC
<1>5. CASE Current(t, "release") /\ GiveBack(t, Arr(t))
  <2>1. writes = <<>> /\ (writes' # <<>> => LastBy(writes', t))
    BY <1>0, <1>5, Arrays, SectionIsOwn
  <2>2. pc[t] = "idle" /\ (UNCHANGED pc \/ pc' = Signalled)
    BY <1>5 DEF GiveBack, Released, ReleaseRefused, vars
  <2> QED
    BY <1>0, <1>5, <2>1, <2>2 DEF Current, At, PC, Signalled
<1>6. CASE Current(t, "end") /\ ThreadEnded(t) /\ UNCHANGED dvars
  BY <1>0, <1>6 DEF ThreadEnded, PC, dvars
<1> QED
  BY <1>1, <1>2, <1>3, <1>4, <1>5, <1>6 DEF Calls

-------------------------------------------------------------------------------
(* The steps of the threads *)

\* A call keeps memory consistent.
LEMMA CallsMem ==
  ASSUME Inv1, MemInv, IpType, NEW t \in Thread, Calls(t)
  PROVE  MemInv'
<1>1. ip[t] \in Nat \ {0} /\ TypeOK
  BY DEF IpType, Inv1
<1>2. CASE Same /\ UNCHANGED dvars
  BY <1>2, ActualKept DEF MemInv, dvars, Same
<1>3. CASE Current(t, "request") /\ Ask(t, Arr(t))
  BY <1>1, <1>3, Arrays, AskFollows
<1>4. CASE AskAgain(t)
  BY <1>1, <1>4, AskAgainFollows
<1>5. CASE Current(t, "release") /\ GiveBack(t, Arr(t))
  BY <1>1, <1>5, Arrays, GiveBackFollows
<1> QED
  BY <1>2, <1>3, <1>4, <1>5
  DEF Calls, ClaimRejected, ClaimAccepted, ClaimColumn, ThreadEnded, matrices, Same

\* The types, the matrices and the writes, under the library's own steps.
LBase == Inv1 /\ MemInv /\ IpType

\* Every step keeps it.
LEMMA StepLBase == LBase /\ [LNext]_allvars => LBase'
<1> SUFFICES ASSUME LBase, [LNext]_allvars PROVE LBase'
  OBVIOUS
<1>1. Inv1' /\ IpType'
  BY LStepIsStep, StepInv1 DEF LBase
<1>2. ASSUME UNCHANGED <<vars, ip>> /\ UNCHANGED <<memory, writes>> PROVE MemInv'
  BY <1>2, MemKept DEF LBase
<1>3. ASSUME NEW t \in Thread, Calls(t) PROVE MemInv'
  BY <1>3, CallsMem DEF LBase
<1>4. ASSUME NEW t \in Thread, Spurious(t) PROVE MemInv'
  BY <1>4, ActualKept DEF LBase, MemInv, Spurious, SpuriousWakeup, matrices, dvars
<1>5. ASSUME Stores PROVE MemInv'
  BY <1>5, StoresFollow DEF LBase
<1> QED
  BY <1>1, <1>2, <1>3, <1>4, <1>5, LibraryStep DEF LBase, dvars

\* The steps of the library, by what they do to the threads' starts and ends.
Starts(t) == Load(t, "new", "starting", TRUE) \/ Store(t, "starting", "running", loaded[t] + 1)
\* rm_thread_ended()'s halves, and the free() that the last thread does.
Ends(t) ==
  \/ Current(t, "end") /\ Load(t, "running", "ending", \A u \in Thread : life[u] # "new")
  \/ Store(t, "ending", "testing", loaded[t] - 1)
\* What main() does with the matrices.
MainUses ==
  /\ UNCHANGED <<vars, ip, writes>>
  /\ UNCHANGED <<tcount, life, loaded, freed, orderly>>
  /\ fault' = fault \/ (freed /\ fault' = "main")

\* The steps of a program whose threads start and end in detail.
LEMMA LStepCases ==
  ASSUME LNext
  PROVE  \/ MainUses
         \/ LibraryWrites
         \/ \E t \in Thread : Starts(t) \/ Ends(t) \/ EndAndFree(t) \/ InLibrary(t) \/ Woken(t)
<1>1. CASE LMain
  <2>1. CASE MainPrints
    BY <2>1 DEF MainPrints, MainUses, Use, lvars, avars, dvars
  <2>2. CASE MainDetects
    BY <2>2 DEF MainDetects, MainUses, Use, lvars, MainPolls, CalledWith, ReadAvailable, Compare,
                AddRow, Step
  <2>3. CASE MainDetected
    BY <2>3 DEF MainDetected, MainUses, lvars, MainPolled, Returned, Step
  <2>4. CASE MainEnds
    BY <2>4 DEF MainEnds, MainUses, lvars, MainStopsPolling, MainJoins, dvars
  <2> QED
    BY <1>1, <2>1, <2>2, <2>3, <2>4 DEF LMain
<1> QED
  BY <1>1 DEF LNext, StartOrEnd, rm_thread_started, rm_thread_ended, Starts, Ends

\* The last step of an end moves its thread past its program, and writes nothing.
LEMMA EndIsLast ==
  ASSUME LBase, LifeInv, NEW t \in Thread, EndAndFree(t)
  PROVE  /\ pc[t] = "idle" /\ pc' = [pc EXCEPT ![t] = "ended"]
         /\ ip' = [ip EXCEPT ![t] = ip[t] + 1] /\ UNCHANGED writes
<1>1. life[t] = "testing" /\ Calls(t) /\ At(t, {"end"})
  BY DEF EndAndFree, LifeInv
<1>2. ~At(t, {"claim", "request", "release"}) /\ ~At(t, {"claim", "request"})
  BY <1>1 DEF At
<1>3. pc[t] \notin {"claiming", "waiting", "woken"}
  BY <1>2 DEF LifeInv
<1> QED
  BY <1>1, <1>2, <1>3, CallsMove DEF LBase, Inv1

\* A call other than the end moves a running thread only, and wakes others.
LEMMA InLibraryMove ==
  ASSUME LBase, LifeInv, NEW t \in Thread, InLibrary(t)
  PROVE  /\ life[t] = "running" /\ UNCHANGED <<tcount, life, loaded, freed, orderly>>
         /\ \A u \in Thread \ {t} :
              /\ pc'[u] = pc[u] \/ (pc[u] = "waiting" /\ pc'[u] = "woken")
              /\ ip'[u] = ip[u]
         /\ pc'[t] \in {"idle", "claiming", "waiting"}
         /\ pc'[t] # "idle" => ip' = ip /\ At(t, {"claim", "request"})
         /\ writes' = writes \/ (writes = <<>> /\ (writes' # <<>> => LastBy(writes', t)))
         /\ fault' = fault \/ (freed /\ fault' = "thread")
<1>1. /\ life[t] = "running" /\ ~Current(t, "end") /\ Calls(t)
      /\ UNCHANGED <<tcount, life, loaded, freed, orderly>>
      /\ fault' = fault \/ (freed /\ fault' = "thread")
  BY DEF InLibrary, Use, lvars
<1>2. \A u \in Thread \ {t} : ip'[u] = ip[u]
  BY <1>1 DEF Calls, LBase, IpType
<1>3. pc[t] \in {"claiming", "woken"} => At(t, {"claim", "request"})
  BY DEF LifeInv
<1> QED
  BY <1>1, <1>2, <1>3, CallsMove DEF LBase, Inv1

\* The stages follow each other in order,
LEMMA StepLifeType == LBase /\ LifeType /\ [LNext]_allvars => LifeType'
<1> SUFFICES ASSUME LBase, LifeType, [LNext]_allvars PROVE LifeType'
  OBVIOUS
<1>1. CASE UNCHANGED allvars
  BY <1>1 DEF LifeType, allvars, lvars
<1>2. CASE MainUses
  BY <1>2 DEF LifeType, MainUses
<1>3. CASE LibraryWrites
  BY <1>3 DEF LifeType, LibraryWrites, Use
<1>4. ASSUME NEW t \in Thread, NEW from, NEW to \in Life, NEW inOrder,
             Load(t, from, to, inOrder)
      PROVE  LifeType'
  <2>1. orderly' \in BOOLEAN
    <3>1. orderly' = (orderly /\ inOrder /\ \A u \in Thread : life[u] \notin Counting)
      BY <1>4 DEF Load
    <3>2. (orderly /\ inOrder /\ \A u \in Thread : life[u] \notin Counting) \in BOOLEAN
      OBVIOUS
    <3> QED
      BY <3>1, <3>2
  <2>2. /\ life' = [life EXCEPT ![t] = to] /\ loaded' = [loaded EXCEPT ![t] = tcount]
        /\ UNCHANGED <<tcount, freed>>
    BY <1>4 DEF Load
  <2> QED
    BY <2>1, <2>2 DEF LifeType
<1>5. ASSUME NEW t \in Thread, NEW from, NEW to \in Life, NEW value \in Int,
             Store(t, from, to, value)
      PROVE  LifeType'
  BY <1>5 DEF LifeType, Store
<1>6. ASSUME NEW t \in Thread, Starts(t) \/ Ends(t) PROVE LifeType'
  <2>1. /\ {"starting", "running", "ending", "testing"} \subseteq Life
        /\ loaded[t] + 1 \in Int /\ loaded[t] - 1 \in Int
    BY DEF Life, LifeType
  <2> QED
    BY <1>4, <1>5, <1>6, <2>1 DEF Starts, Ends
<1>7. ASSUME NEW t \in Thread, EndAndFree(t) PROVE LifeType'
  BY <1>7 DEF LifeType, EndAndFree, Life
<1>8. ASSUME NEW t \in Thread, InLibrary(t) \/ Woken(t) PROVE LifeType'
  BY <1>8 DEF LifeType, InLibrary, Woken, Use, lvars
<1> QED
  BY <1>1, <1>2, <1>3, <1>6, <1>7, <1>8, LStepCases

\* and tell where in its program a thread is;
LEMMA StepLifeInv == LBase /\ LifeType /\ LifeInv /\ [LNext]_allvars => LifeInv'
<1> SUFFICES ASSUME LBase, LifeType, LifeInv, [LNext]_allvars PROVE LifeInv'
  OBVIOUS
<1>0. /\ life \in [Thread -> Life] /\ pc \in [Thread -> PC] /\ ip \in [Thread -> Nat \ {0}]
  BY DEF LifeType, LBase, Inv1, TypeOK, IpType
<1>1. CASE UNCHANGED <<life, pc, ip>>
  BY <1>1 DEF LifeInv, At
<1>2. ASSUME NEW t \in Thread, Starts(t) PROVE LifeInv'
  BY <1>0, <1>2 DEF LifeInv, At, Starts, Load, Store, avars, vars
<1>3. ASSUME NEW t \in Thread, Ends(t) PROVE LifeInv'
  <2>1. UNCHANGED <<pc, ip>>
    BY <1>3 DEF Ends, Load, Store, avars, vars
  <2>2. CASE Current(t, "end") /\ Load(t, "running", "ending", \A u \in Thread : life[u] # "new")
    <3>1. At(t, {"end"})
      BY <2>2 DEF Current, At
    <3>2. life[t] = "running" /\ life' = [life EXCEPT ![t] = "ending"]
      BY <2>2 DEF Load
    <3> QED
      BY <1>0, <2>1, <3>1, <3>2 DEF LifeInv, At
  <2>3. CASE Store(t, "ending", "testing", loaded[t] - 1)
    BY <1>0, <2>1, <2>3 DEF LifeInv, At, Store
  <2> QED
    BY <1>3, <2>2, <2>3 DEF Ends
<1>4. ASSUME NEW t \in Thread, EndAndFree(t) PROVE LifeInv'
  <2>1. life[t] = "testing" /\ life' = [life EXCEPT ![t] = "gone"]
    BY <1>4 DEF EndAndFree
  <2>2. /\ pc[t] = "idle" /\ pc' = [pc EXCEPT ![t] = "ended"]
        /\ ip' = [ip EXCEPT ![t] = ip[t] + 1]
    BY <1>4, EndIsLast
  <2> QED
    BY <1>0, <2>1, <2>2 DEF LifeInv, At
<1>5. ASSUME NEW t \in Thread, InLibrary(t) PROVE LifeInv'
  <2>1. /\ life[t] = "running" /\ life' = life
        /\ \A u \in Thread \ {t} :
             /\ pc'[u] = pc[u] \/ (pc[u] = "waiting" /\ pc'[u] = "woken")
             /\ ip'[u] = ip[u]
        /\ pc'[t] \in {"idle", "claiming", "waiting"}
        /\ pc'[t] # "idle" => ip' = ip /\ At(t, {"claim", "request"})
    BY <1>5, InLibraryMove
  <2>2. ASSUME NEW u \in Thread, u # t
        PROVE  /\ (life[u] \in {"new", "starting"} => pc[u] = "started")'
               /\ (pc[u] = "ended" <=> life[u] = "gone")'
               /\ (life[u] \in {"ending", "testing"} => At(u, {"end"}))'
               /\ (pc[u] \in {"claiming", "waiting", "woken"} => At(u, {"claim", "request"}))'
    BY <2>1, <2>2 DEF LifeInv, At
  <2>3. /\ (life[t] \in {"new", "starting"} => pc[t] = "started")'
        /\ (pc[t] = "ended" <=> life[t] = "gone")'
        /\ (life[t] \in {"ending", "testing"} => At(t, {"end"}))'
        /\ (pc[t] \in {"claiming", "waiting", "woken"} => At(t, {"claim", "request"}))'
    BY <2>1 DEF At
  <2> QED
    BY <2>2, <2>3 DEF LifeInv
<1>6. ASSUME NEW t \in Thread, Woken(t) PROVE LifeInv'
  BY <1>0, <1>6 DEF LifeInv, At, Woken, Spurious, SpuriousWakeup, Use
<1> QED
  BY <1>1, <1>2, <1>3, <1>4, <1>5, <1>6, LStepCases
  DEF MainUses, LibraryWrites, Writes, Write, WriteAll, Use, allvars, avars, lvars, vars

\* writes under way are those of a thread that has not ended.
LEMMA StepWriterRuns ==
  LBase /\ LifeType /\ LifeInv /\ WriterRuns /\ [LNext]_allvars => WriterRuns'
<1> SUFFICES ASSUME LBase, LifeType, LifeInv, WriterRuns, [LNext]_allvars PROVE WriterRuns'
  OBVIOUS
<1>0. life \in [Thread -> Life]
  BY DEF LifeType
<1>1. CASE UNCHANGED <<life, writes>>
  BY <1>1 DEF WriterRuns
<1>2. CASE LibraryWrites
  <2>0. CASE writes' = <<>>
    BY <2>0 DEF WriterRuns
  <2>1. /\ writes # <<>> /\ life' = life /\ writes \in Writings
        /\ writes' = Tail(writes) \/ writes' = <<>>
    BY <1>2 DEF LibraryWrites, Writes, Write, WriteAll, Use, LBase, MemInv
  <2>2. PICK t \in Thread : life[t] = "running" /\ LastBy(writes, t)
    BY <2>1 DEF WriterRuns
  <2>3. PICK s : s = Tail(writes)
    OBVIOUS
  <2>4. /\ Len(s) = Len(writes) - 1 /\ s \in Writings
        /\ \A i \in 1 .. Len(s) : s[i] = writes[i+1]
    BY <2>1, <2>3, HeadTailProperties DEF Writings
  <2>5. ASSUME s # <<>> PROVE LastBy(s, t)
    <3>1. Len(s) \in Nat \ {0} /\ Len(writes) \in Nat
      BY <2>1, <2>4, <2>5, EmptySeq, LenProperties DEF Writings
    <3>2. Len(s) \in 1 .. Len(s) /\ Len(s) + 1 = Len(writes)
      BY <2>4, <3>1
    <3>3. s[Len(s)] = writes[Len(writes)]
      BY <2>4, <3>2
    <3> QED
      BY <2>2, <2>5, <3>3 DEF LastBy
  <2> QED
    BY <2>0, <2>1, <2>2, <2>3, <2>5 DEF WriterRuns
<1>3. ASSUME NEW t \in Thread, life' = [life EXCEPT ![t] = life'[t]], writes' = writes,
             life[t] # "running"
      PROVE  WriterRuns'
  BY <1>0, <1>3 DEF WriterRuns
<1>4. ASSUME NEW t \in Thread, Current(t, "end"),
             Load(t, "running", "ending", \A u \in Thread : life[u] # "new")
      PROVE  WriterRuns'
  <2>1. life' = [life EXCEPT ![t] = "ending"] /\ writes' = writes
    BY <1>4 DEF Load, avars, dvars
  <2>2. ~LastBy(writes, t)
    <3>1. writes # <<>> => Len(writes) \in DOMAIN writes
      BY EmptySeq, LenProperties DEF LBase, MemInv, Writings
    <3> QED
      BY <1>4, <3>1 DEF Current, Writing, LastBy
  <2> QED
    BY <1>0, <2>1, <2>2 DEF WriterRuns
<1>5. ASSUME NEW t \in Thread, Starts(t) PROVE WriterRuns'
  BY <1>0, <1>3, <1>5 DEF Starts, Load, Store, avars, dvars
<1>6. ASSUME NEW t \in Thread, Ends(t) PROVE WriterRuns'
  BY <1>0, <1>3, <1>4, <1>6 DEF Ends, Store, avars, dvars
<1>7. ASSUME NEW t \in Thread, EndAndFree(t) PROVE WriterRuns'
  BY <1>0, <1>3, <1>7, EndIsLast DEF EndAndFree
<1>8. ASSUME NEW t \in Thread, InLibrary(t) PROVE WriterRuns'
  BY <1>8, InLibraryMove DEF WriterRuns
<1>9. ASSUME NEW t \in Thread, Woken(t) PROVE WriterRuns'
  BY <1>1, <1>9 DEF Woken, Spurious, Use, dvars
<1> QED
  BY <1>1, <1>2, <1>5, <1>6, <1>7, <1>8, <1>9, LStepCases
  DEF MainUses, allvars, avars, lvars, dvars

-------------------------------------------------------------------------------
(* The count of threads, and the memory it guards *)

\* The threads that the count should count.
Counted == {t \in Thread : life[t] \in {"running", "ending"}}

\* What holds as long as no start or end has overlapped another: at most one
\* thread is counting, from a value that is still right; nobody ends before all
\* have started; and the memory is freed exactly when the last one has gone.
OrderlyInv ==
  orderly =>
    /\ \A t, u \in Thread : life[t] \in Counting /\ life[u] \in Counting => t = u
    /\ tcount = Cardinality(Counted)
    /\ \A t \in Thread : life[t] \in {"starting", "ending"} => loaded[t] = tcount
    /\ \A t, u \in Thread :
         life[t] \in {"ending", "testing", "gone"} => life[u] \notin {"new", "starting"}
    /\ freed => \A t \in Thread : life[t] = "gone"
    /\ (\A t \in Thread : life[t] = "gone") => freed
    /\ fault \in {"none", "main"}
    /\ fault = "main" => freed

\* The threads that count can be counted.
LEMMA CountedFinite ==
  /\ IsFiniteSet(Counted)
  /\ Cardinality(Counted) \in Nat
  /\ Cardinality(Counted) = 0 <=> Counted = {}
<1>1. IsFiniteSet(Counted)
  BY ThreadFinite, FS_Subset DEF Counted
<1> QED
  BY <1>1, FS_CardinalityType, FS_EmptySet

\* rm_thread_started() reads the count,
LEMMA OrderlyLoadStart ==
  ASSUME LifeType, OrderlyInv, NEW t \in Thread, Load(t, "new", "starting", TRUE)
  PROVE  OrderlyInv'
<1>1. /\ fault = "none" /\ life[t] = "new" /\ life' = [life EXCEPT ![t] = "starting"]
      /\ loaded' = [loaded EXCEPT ![t] = tcount]
      /\ orderly' = (orderly /\ TRUE /\ \A u \in Thread : life[u] \notin Counting)
      /\ UNCHANGED <<tcount, freed, fault>>
  BY DEF Load, Running
<1> SUFFICES ASSUME orderly' PROVE OrderlyInv'
  BY DEF OrderlyInv
<1>2. orderly /\ \A u \in Thread : life[u] \notin Counting
  BY <1>1
<1>3. \A u \in Thread : life'[u] = IF u = t THEN "starting" ELSE life[u]
  BY <1>1 DEF LifeType
<1>4. \A u \in Thread : loaded'[u] = IF u = t THEN tcount ELSE loaded[u]
  BY <1>1 DEF LifeType
<1>5. Counted' = Counted
  BY <1>1, <1>3 DEF Counted
<1>6. (\A v, u \in Thread : life[v] \in Counting /\ life[u] \in Counting => v = u)'
  BY <1>2, <1>3 DEF Counting
<1>7. (\A v \in Thread : life[v] \in {"starting", "ending"} => loaded[v] = tcount)'
  BY <1>1, <1>2, <1>3, <1>4 DEF Counting
<1>8. (\A v, u \in Thread :
        life[v] \in {"ending", "testing", "gone"} => life[u] \notin {"new", "starting"})'
  BY <1>1, <1>2, <1>3 DEF OrderlyInv
<1>9. ~freed /\ ~(\A u \in Thread : life'[u] = "gone")
  BY <1>1, <1>2, <1>3 DEF OrderlyInv
<1> QED
  BY <1>1, <1>2, <1>5, <1>6, <1>7, <1>8, <1>9 DEF OrderlyInv

\* and stores it one higher.
LEMMA OrderlyStoreStart ==
  ASSUME LifeType, OrderlyInv, NEW t \in Thread,
         Store(t, "starting", "running", loaded[t] + 1)
  PROVE  OrderlyInv'
<1>1. /\ fault = "none" /\ life[t] = "starting" /\ life' = [life EXCEPT ![t] = "running"]
      /\ tcount' = loaded[t] + 1 /\ loaded' = [loaded EXCEPT ![t] = 0]
      /\ UNCHANGED <<freed, fault, orderly>>
  BY DEF Store, Running
<1> SUFFICES ASSUME orderly PROVE OrderlyInv'
  BY <1>1 DEF OrderlyInv
<1>2. \A u \in Thread : life'[u] = IF u = t THEN "running" ELSE life[u]
  BY <1>1 DEF LifeType
<1>3. \A u \in Thread : u # t => life[u] \notin Counting
  BY <1>1 DEF OrderlyInv, Counting
<1>4. Counted' = Counted \cup {t} /\ t \notin Counted
  BY <1>1, <1>2 DEF Counted
<1>5. Cardinality(Counted') = Cardinality(Counted) + 1
  BY <1>4, CountedFinite, FS_AddElement
<1>6. tcount' = Cardinality(Counted')
  BY <1>1, <1>5 DEF OrderlyInv
<1>7. \A u \in Thread : life'[u] \notin Counting
  BY <1>2, <1>3 DEF Counting
<1>8. (\A v, u \in Thread :
        life[v] \in {"ending", "testing", "gone"} => life[u] \notin {"new", "starting"})'
  BY <1>1, <1>2 DEF OrderlyInv
<1>9. ~freed /\ ~(\A u \in Thread : life'[u] = "gone")
  BY <1>1, <1>2 DEF OrderlyInv
<1> QED
  BY <1>1, <1>6, <1>7, <1>8, <1>9 DEF OrderlyInv, Counting

\* rm_thread_ended() reads the count,
LEMMA OrderlyLoadEnd ==
  ASSUME LifeType, OrderlyInv, NEW t \in Thread,
         Load(t, "running", "ending", \A u \in Thread : life[u] # "new")
  PROVE  OrderlyInv'
<1>1. /\ fault = "none" /\ life[t] = "running" /\ life' = [life EXCEPT ![t] = "ending"]
      /\ loaded' = [loaded EXCEPT ![t] = tcount]
      /\ orderly' = (orderly /\ (\A u \in Thread : life[u] # "new")
                             /\ \A u \in Thread : life[u] \notin Counting)
      /\ UNCHANGED <<tcount, freed, fault>>
  BY DEF Load, Running
<1> SUFFICES ASSUME orderly' PROVE OrderlyInv'
  BY DEF OrderlyInv
<1>2. orderly /\ \A u \in Thread : life[u] \notin Counting /\ life[u] # "new"
  BY <1>1
<1>3. \A u \in Thread : life'[u] = IF u = t THEN "ending" ELSE life[u]
  BY <1>1 DEF LifeType
<1>4. \A u \in Thread : loaded'[u] = IF u = t THEN tcount ELSE loaded[u]
  BY <1>1 DEF LifeType
<1>5. Counted' = Counted
  BY <1>1, <1>3 DEF Counted
<1>6. (\A v, u \in Thread : life[v] \in Counting /\ life[u] \in Counting => v = u)'
  BY <1>2, <1>3 DEF Counting
<1>7. (\A v \in Thread : life[v] \in {"starting", "ending"} => loaded[v] = tcount)'
  BY <1>1, <1>2, <1>3, <1>4 DEF Counting
<1>8. \A u \in Thread : life'[u] \notin {"new", "starting"}
  BY <1>1, <1>2, <1>3 DEF Counting
<1>9. ~freed /\ ~(\A u \in Thread : life'[u] = "gone")
  BY <1>1, <1>2, <1>3 DEF OrderlyInv
<1> QED
  BY <1>1, <1>2, <1>5, <1>6, <1>7, <1>8, <1>9 DEF OrderlyInv

\* stores it one lower,
LEMMA OrderlyStoreEnd ==
  ASSUME LifeType, OrderlyInv, NEW t \in Thread,
         Store(t, "ending", "testing", loaded[t] - 1)
  PROVE  OrderlyInv'
<1>1. /\ fault = "none" /\ life[t] = "ending" /\ life' = [life EXCEPT ![t] = "testing"]
      /\ tcount' = loaded[t] - 1 /\ loaded' = [loaded EXCEPT ![t] = 0]
      /\ UNCHANGED <<freed, fault, orderly>>
  BY DEF Store, Running
<1> SUFFICES ASSUME orderly PROVE OrderlyInv'
  BY <1>1 DEF OrderlyInv
<1>2. \A u \in Thread : life'[u] = IF u = t THEN "testing" ELSE life[u]
  BY <1>1 DEF LifeType
<1>3. \A u \in Thread : u # t => life[u] \notin Counting
  BY <1>1 DEF OrderlyInv, Counting
<1>4. Counted' = Counted \ {t} /\ t \in Counted
  BY <1>1, <1>2 DEF Counted
<1>5. Cardinality(Counted') = Cardinality(Counted) - 1
  BY <1>4, CountedFinite, FS_RemoveElement
<1>6. tcount' = Cardinality(Counted')
  BY <1>1, <1>5 DEF OrderlyInv
<1>7. \A u \in Thread : u # t => life'[u] \notin Counting
  BY <1>2, <1>3 DEF Counting
<1>8. (\A v, u \in Thread :
        life[v] \in {"ending", "testing", "gone"} => life[u] \notin {"new", "starting"})'
  BY <1>1, <1>2 DEF OrderlyInv
<1>9. ~freed /\ ~(\A u \in Thread : life'[u] = "gone")
  BY <1>1, <1>2 DEF OrderlyInv
<1>10. (\A v \in Thread : life[v] \in {"starting", "ending"} => loaded[v] = tcount)'
  BY <1>2, <1>7 DEF Counting
<1>11. (\A v, u \in Thread : life[v] \in Counting /\ life[u] \in Counting => v = u)'
  BY <1>7
<1> QED
  BY <1>1, <1>6, <1>8, <1>9, <1>10, <1>11 DEF OrderlyInv

\* and frees the matrices if it is 0.
LEMMA OrderlyEnd ==
  ASSUME LifeType, OrderlyInv, NEW t \in Thread, EndAndFree(t)
  PROVE  OrderlyInv'
<1>1. /\ fault = "none" /\ life[t] = "testing" /\ life' = [life EXCEPT ![t] = "gone"]
      /\ freed' = (freed \/ tcount = 0)
      /\ fault' = IF freed /\ tcount = 0 THEN "twice" ELSE fault
      /\ UNCHANGED <<tcount, loaded, orderly>>
  BY DEF EndAndFree, Running
<1> SUFFICES ASSUME orderly PROVE OrderlyInv'
  BY <1>1 DEF OrderlyInv
<1>2. \A u \in Thread : life'[u] = IF u = t THEN "gone" ELSE life[u]
  BY <1>1 DEF LifeType
<1>3. \A u \in Thread : u # t => life[u] \notin Counting
  BY <1>1 DEF OrderlyInv, Counting
<1>4. ~freed
  BY <1>1 DEF OrderlyInv
<1>5. fault' = "none"
  BY <1>1, <1>4
<1>6. Counted' = Counted
  BY <1>1, <1>2 DEF Counted
<1>7. tcount = Cardinality(Counted)
  BY DEF OrderlyInv
<1>8. tcount = 0 <=> Counted = {}
  BY <1>7, CountedFinite
<1>9. \A u \in Thread : u # t => life[u] \in {"running", "gone"}
  BY <1>1, <1>3 DEF OrderlyInv, LifeType, Life, Counting
<1>10. Counted = {} <=> \A u \in Thread : life'[u] = "gone"
  BY <1>1, <1>2, <1>9 DEF Counted
<1>11. freed' <=> \A u \in Thread : life'[u] = "gone"
  BY <1>1, <1>4, <1>8, <1>10
<1>12. \A u \in Thread : life'[u] \notin Counting
  BY <1>2, <1>3 DEF Counting
<1>13. \A u \in Thread : life'[u] \notin {"new", "starting"}
  BY <1>2, <1>9
<1> QED
  BY <1>1, <1>5, <1>6, <1>7, <1>11, <1>12, <1>13 DEF OrderlyInv, Counting

\* Every step keeps the orderly part.
LEMMA StepOrderlyInv ==
  LBase /\ LifeType /\ LifeInv /\ WriterRuns /\ OrderlyInv /\ [LNext]_allvars => OrderlyInv'
<1> SUFFICES ASSUME LBase, LifeType, LifeInv, WriterRuns, OrderlyInv, [LNext]_allvars
             PROVE  OrderlyInv'
  OBVIOUS
<1>1. ASSUME UNCHANGED <<tcount, life, loaded, freed, orderly>>,
             orderly => fault' = fault \/ (freed /\ fault' = "main")
      PROVE  OrderlyInv'
  <2>1. Counted' = Counted
    BY <1>1 DEF Counted
  <2>2. orderly => fault' \in {"none", "main"} /\ (fault' = "main" => freed)
    BY <1>1 DEF OrderlyInv
  <2> QED
    BY <1>1, <2>1, <2>2 DEF OrderlyInv
<1>2. CASE MainUses
  BY <1>1, <1>2 DEF MainUses
<1>3. ASSUME orderly, freed PROVE \A t \in Thread : life[t] = "gone" /\ pc[t] = "ended"
  BY <1>3 DEF OrderlyInv, LifeInv
<1>4. CASE LibraryWrites
  <2>1. writes # <<>> /\ UNCHANGED <<tcount, life, loaded, freed, orderly>>
        /\ fault' = IF freed THEN "thread" ELSE fault
    BY <1>4 DEF LibraryWrites, Writes, Write, WriteAll, Use
  <2>2. orderly => ~freed
    BY <1>3, <2>1 DEF WriterRuns
  <2> QED
    BY <1>1, <2>1, <2>2
<1>5. ASSUME NEW t \in Thread, InLibrary(t) PROVE OrderlyInv'
  BY <1>1, <1>3, <1>5, InLibraryMove
<1>6. ASSUME NEW t \in Thread, Woken(t) PROVE OrderlyInv'
  <2>1. pc[t] = "waiting" /\ UNCHANGED <<tcount, life, loaded, freed, orderly>>
        /\ fault' = IF freed THEN "thread" ELSE fault
    BY <1>6 DEF Woken, Spurious, SpuriousWakeup, Use
  <2>2. orderly => ~freed
    BY <1>3, <2>1
  <2> QED
    BY <1>1, <2>1, <2>2
<1>7. ASSUME NEW t \in Thread, Starts(t) \/ Ends(t) \/ EndAndFree(t) PROVE OrderlyInv'
  BY <1>7, OrderlyLoadStart, OrderlyStoreStart, OrderlyLoadEnd, OrderlyStoreEnd, OrderlyEnd
  DEF Starts, Ends
<1>8. CASE UNCHANGED allvars
  BY <1>1, <1>8 DEF allvars, lvars
<1> QED
  BY <1>2, <1>4, <1>5, <1>6, <1>7, <1>8, LStepCases

\* The inductive invariant of the starts and ends.
LInv == LBase /\ LifeType /\ LifeInv /\ WriterRuns /\ OrderlyInv

\* It holds at first,
LEMMA InitLInv == LInit => LInv
<1> SUFFICES ASSUME LInit PROVE LInv
  OBVIOUS
<1>1. DInv /\ IpType
  BY InitDInv DEF LInit, AInit, IpType
<1>2. /\ life = [t \in Thread |-> "new"] /\ pc = [t \in Thread |-> "started"]
      /\ tcount = 0 /\ loaded = [t \in Thread |-> 0] /\ freed = FALSE /\ fault = "none"
      /\ orderly = TRUE /\ writes = <<>>
  BY DEF LInit, AInit, DInit, Init
<1>3. LifeType /\ LifeInv /\ WriterRuns
  <2>1. LifeType
    <3>1. tcount \in Int /\ loaded \in [Thread -> Int]
      BY <1>2
    <3>2. life \in [Thread -> Life]
      BY <1>2 DEF Life
    <3>3. freed \in BOOLEAN /\ orderly \in BOOLEAN
      BY <1>2, Zenon
    <3> QED
      BY <3>1, <3>2, <3>3 DEF LifeType
  <2>2. \A t \in Thread : life[t] = "new" /\ pc[t] = "started"
    BY <1>2
  <2> QED
    BY <1>2, <2>1, <2>2 DEF LifeInv, WriterRuns
<1>4. Counted = {}
  BY <1>2 DEF Counted
<1>5. OrderlyInv
  <2>1. Cardinality(Counted) = 0
    BY <1>4, CountedFinite
  <2>2. 0 \in Thread
    BY DEF Thread
  <2> QED
    BY <1>2, <2>1, <2>2 DEF OrderlyInv, Counting
<1> QED
  BY <1>1, <1>3, <1>5 DEF LInv, LBase, DInv

\* and every step keeps it.
LEMMA StepLInv == LInv /\ [LNext]_allvars => LInv'
BY StepLBase, StepLifeType, StepLifeInv, StepWriterRuns, StepOrderlyInv DEF LInv

\* rm_thread_started() and rm_thread_ended() count without the mutex.  If no two of
\* them overlap and all threads start before one ends, the count is right, the
\* matrices live exactly as long as a thread may use them, and nobody frees them
\* twice: only main() may still read on while the last thread frees.
THEOREM OrderlySafe == LSpec => []OrderlyIsSafe
<1>1. LInv => OrderlyIsSafe
  <2> SUFFICES ASSUME LInv, orderly
               PROVE  /\ (\A t \in Thread : life[t] \notin Counting) =>
                           tcount = Cardinality({t \in Thread : life[t] = "running"})
                      /\ freed \/ fault = "main" => AllEnded
                      /\ AllEnded => freed
                      /\ fault \in {"none", "main"}
    BY DEF OrderlyIsSafe
  <2>1. OrderlyInv /\ LifeInv
    BY DEF LInv
  <2>2. ASSUME \A t \in Thread : life[t] \notin Counting
        PROVE  Counted = {t \in Thread : life[t] = "running"}
    BY <2>2 DEF Counted, Counting
  <2>3. AllEnded <=> \A t \in Thread : life[t] = "gone"
    BY <2>1 DEF AllEnded, LifeInv
  <2> QED
    BY <2>1, <2>2, <2>3 DEF OrderlyInv
<1> QED
  BY <1>1, InitLInv, StepLInv, PTL DEF LSpec

-------------------------------------------------------------------------------
(* What a thread holds between two calls *)

\* o[k] is what the calls of prog before the k-th leave a thread holding.  What a
\* call returns depends on the thread's own claim and holdings alone: the others
\* can delay it, but never change its result.
Tidy(prog, o) ==
  LET n     == Len(prog)
      bound == prog[1].arr
  IN  /\ n >= 2
      /\ prog[1].op = "claim" /\ arrLessThan(bound, ExistingRes)
      /\ \A k \in 1 .. n : o[k] \in Vector
      /\ o[2] = Zero
      /\ \A k \in 2 .. n-1 :
           /\ prog[k].op \in {"request", "release"}
           /\ prog[k].op = "request" =>
                o[k+1] = IF arrLessThan(Plus(o[k], prog[k].arr), bound)
                           THEN Plus(o[k], prog[k].arr) ELSE o[k]
           /\ prog[k].op = "release" =>
                o[k+1] = IF arrLessThan(prog[k].arr, o[k])
                           THEN Minus(o[k], prog[k].arr) ELSE o[k]
      /\ prog[n].op = "end"
      /\ o[n] = Zero

\* Every thread has a tidy program.
Balanced == \A t \in Thread : \E o : Tidy(Program[t], o)

\* The holdings of a tidy program, call by call.
Owed(t) == CHOOSE o : Tidy(Program[t], o)

\* Thread t is where its own calls have brought it.
OnCourse(t) ==
  LET prog  == Program[t]
      bound == prog[1].arr
  IN  /\ pc[t] \in {"started", "claiming"} => ip[t] = 1
      /\ pc[t] = "claiming" =>
           /\ claim[t].vector = bound
           /\ \A r \in Res : r < claim[t].col => maxDemand[t][r] = bound[r]
      /\ pc[t] \in {"idle", "waiting", "woken"} =>
           /\ ip[t] \in 2 .. Len(prog)
           /\ allocation[t] = Owed(t)[ip[t]]
           /\ maxDemand[t] = bound
      /\ pc[t] \in {"waiting", "woken"} =>
           prog[ip[t]].op = "request" /\ requests[t] = prog[ip[t]].arr

\* A step of another thread leaves a thread where it is, asleep or awake.
LEMMA CallsApart ==
  ASSUME TypeOK, IpType, NEW u \in Thread, NEW t \in Thread, t # u, Calls(u)
  PROVE  /\ allocation'[t] = allocation[t] /\ maxDemand'[t] = maxDemand[t]
         /\ requests'[t] = requests[t] /\ claim'[t] = claim[t] /\ ip'[t] = ip[t]
         /\ pc'[t] = pc[t] \/ (pc[t] = "waiting" /\ pc'[t] = "woken")
<1>1. ip'[t] = ip[t]
  BY DEF Calls, IpType
<1>2. ThreadStep(u)
  BY CallsStep
<1>3. CASE \E c \in Claims : ClaimRejected(u, c) \/ ClaimAccepted(u, c)
  BY <1>1, <1>3 DEF ClaimRejected, ClaimAccepted, matrices, TypeOK
<1>4. CASE ClaimColumn(u)
  BY <1>1, <1>4 DEF ClaimColumn, TypeOK
<1>5. CASE \E req \in Requests : RequestRefused(u, req) \/ RequestGranted(u, req) \/ RequestBlocked(u, req)
  BY <1>1, <1>5 DEF RequestRefused, RequestGranted, RequestBlocked, Allocate, vars, TypeOK
<1>6. CASE SpuriousWakeup(u) \/ WokenGranted(u) \/ WokenBlocked(u)
  BY <1>1, <1>6 DEF SpuriousWakeup, WokenGranted, WokenBlocked, Allocate, matrices, TypeOK
<1>7. CASE \E rel \in Requests : Released(u, rel) \/ ReleaseRefused(u, rel)
  BY <1>1, <1>7 DEF Released, ReleaseRefused, Signalled, vars, TypeOK
<1>8. CASE ThreadEnded(u)
  BY <1>1, <1>8 DEF ThreadEnded, matrices, TypeOK
<1> QED
  BY <1>2, <1>3, <1>4, <1>5, <1>6, <1>7, <1>8 DEF ThreadStep, Call

\* So it stays on course.
LEMMA OnCourseApart ==
  ASSUME NEW t \in Thread, OnCourse(t),
         allocation'[t] = allocation[t], maxDemand'[t] = maxDemand[t],
         requests'[t] = requests[t], claim'[t] = claim[t], ip'[t] = ip[t],
         pc'[t] = pc[t] \/ (pc[t] = "waiting" /\ pc'[t] = "woken")
  PROVE  OnCourse(t)'
BY DEF OnCourse

\* A request is refused exactly when it would take the thread beyond its claim.
LEMMA FitsIff ==
  ASSUME Inv2, NEW t \in Thread, NEW a \in Vector
  PROVE  /\ arrLessThan(a, need[t]) <=> arrLessThan(Plus(allocation[t], a), maxDemand[t])
         /\ Admissible(t, a) <=> arrLessThan(Plus(allocation[t], a), maxDemand[t])
<1>1. \A r \in Res :
        /\ need[t][r] + allocation[t][r] = maxDemand[t][r] /\ maxDemand[t][r] <= ExistingRes[r]
        /\ need[t][r] \in Nat /\ allocation[t][r] \in Nat /\ maxDemand[t][r] \in Nat
        /\ a[r] \in Nat /\ ExistingRes[r] \in Nat
  BY DEF Inv2, Inv1, TypeOK, NeedBalance, Vector
<1>2. \A r \in Res : /\ a[r] <= need[t][r] <=> allocation[t][r] + a[r] <= maxDemand[t][r]
                     /\ a[r] <= need[t][r] => a[r] <= ExistingRes[r]
  BY <1>1
<1> QED
  BY <1>2 DEF arrLessThan, Plus, Admissible

\* What the tidy program says of the call a thread is at.
LEMMA CallAt ==
  ASSUME TypeOK, IpType, NEW t \in Thread, OnCourse(t), Tidy(Program[t], Owed(t)),
         pc[t] \in {"idle", "waiting", "woken"}, Program[t][ip[t]].op \in {"request", "release"}
  PROVE  LET k == ip[t]
             a == Program[t][k].arr
             b == Program[t][1].arr
             o == Owed(t)
         IN  /\ k \in Nat /\ k+1 \in 2 .. Len(Program[t]) /\ k+1 # 1
             /\ a \in Vector /\ allocation[t] = o[k] /\ maxDemand[t] = b
             /\ Program[t][k].op = "request" =>
                  o[k+1] = IF arrLessThan(Plus(o[k], a), b) THEN Plus(o[k], a) ELSE o[k]
             /\ Program[t][k].op = "release" =>
                  o[k+1] = IF arrLessThan(a, o[k]) THEN Minus(o[k], a) ELSE o[k]
<1>1. Program[t] \in Seq([op : Op, arr : Vector]) /\ Len(Program[t]) \in Nat
  <2>1. Program[t] \in Seq([op : Op, arr : Vector])
    OBVIOUS
  <2> QED
    BY <2>1, LenProperties
<1>2. ip[t] \in 2 .. Len(Program[t]) /\ allocation[t] = Owed(t)[ip[t]]
      /\ maxDemand[t] = Program[t][1].arr
  BY DEF OnCourse
<1>3. ip[t] # Len(Program[t])
  BY DEF Tidy
<1>4. ip[t] \in 2 .. Len(Program[t]) - 1
  BY <1>1, <1>2, <1>3
<1>5. Program[t][ip[t]] \in [op : Op, arr : Vector]
  <2>1. ip[t] \in 1 .. Len(Program[t])
    BY <1>1, <1>2
  <2> QED
    BY <1>1, <2>1, ElementOfSeq
<1>6. ip[t] \in Nat /\ ip[t]+1 \in 2 .. Len(Program[t]) /\ ip[t]+1 # 1
  BY <1>1, <1>4
<1> QED
  BY <1>2, <1>4, <1>5, <1>6 DEF Tidy

\* A thread's own step takes it along its course.
LEMMA OnCourseOwn ==
  ASSUME Inv2, IpType, NEW t \in Thread, OnCourse(t), Tidy(Program[t], Owed(t)), Calls(t)
  PROVE  OnCourse(t)'
<1> DEFINE prog == Program[t]
           bound == prog[1].arr
           k == ip[t]
           a == prog[k].arr
           o == Owed(t)
<1>0. /\ TypeOK /\ Bookkeeping /\ ip \in [Thread -> Nat \ {0}] /\ k \in Nat \ {0}
      /\ ip' = IF pc'[t] \in {"idle", "ended"} THEN [ip EXCEPT ![t] = k + 1] ELSE ip
  BY DEF Inv2, Inv1, IpType, Calls
<1>1. CASE Current(t, "claim") /\ (ClaimRejected(t, Arr(t)) \/ ClaimAccepted(t, Arr(t)))
  <2>1. pc[t] = "started" /\ k = 1 /\ Arr(t) = bound
    BY <1>1 DEF ClaimRejected, ClaimAccepted, OnCourse, Arr
  <2>2. ClaimAccepted(t, bound)
    BY <1>1, <2>1 DEF ClaimRejected, Tidy
  <2>3. pc'[t] = "claiming" /\ claim'[t] = [vector |-> bound, col |-> 0]
    BY <1>0, <2>2 DEF ClaimAccepted, TypeOK
  <2>4. ip'[t] = 1
    BY <1>0, <2>1, <2>3
  <2>5. \A r \in Res : ~(r < 0)
    BY DEF Res
  <2> QED
    BY <2>3, <2>4, <2>5 DEF OnCourse
<1>2. CASE ClaimColumn(t)
  <2>1. pc[t] = "claiming" /\ k = 1
    BY <1>2 DEF ClaimColumn, OnCourse
  <2>2. /\ claim[t].vector = bound /\ claim[t].col \in Res /\ bound \in Vector
        /\ \A r \in Res : r < claim[t].col => maxDemand[t][r] = bound[r]
        /\ allocation[t] = Zero /\ maxDemand[t] \in Vector
    <3>1. claim[t] \in [vector : Vector, col : 0 .. M-1]
      BY <1>0 DEF TypeOK
    <3> QED
      BY <1>0, <2>1, <3>1 DEF OnCourse, Bookkeeping, TypeOK, Res
  <2>3. /\ maxDemand'[t] = [maxDemand[t] EXCEPT ![claim[t].col] = bound[claim[t].col]]
        /\ allocation' = allocation
        /\ \/ claim[t].col = M-1 /\ pc'[t] = "idle"
           \/ /\ claim[t].col # M-1 /\ pc'[t] = "claiming"
              /\ claim'[t] = [claim[t] EXCEPT !.col = claim[t].col + 1]
    BY <1>0, <1>2, <2>1, <2>2 DEF ClaimColumn, TypeOK
  <2>4. \A r \in Res : r <= claim[t].col => maxDemand'[t][r] = bound[r]
    <3>1. \A r \in Res : maxDemand'[t][r] =
             IF r = claim[t].col THEN bound[claim[t].col] ELSE maxDemand[t][r]
      BY <2>2, <2>3 DEF Vector
    <3>2. \A r \in Res : r <= claim[t].col => r = claim[t].col \/ r < claim[t].col
      BY <2>2 DEF Res
    <3> QED
      BY <2>2, <3>1, <3>2
  <2>5. CASE claim[t].col = M-1 /\ pc'[t] = "idle"
    <3>1. ip'[t] = 2
      BY <1>0, <2>1, <2>5
    <3>2. maxDemand'[t] = bound
      <4>1. \A r \in Res : maxDemand'[t][r] = bound[r]
        BY <2>4, <2>5 DEF Res
      <4>2. maxDemand'[t] \in Vector
        BY <2>2, <2>3 DEF Vector
      <4> QED
        BY <2>2, <4>1, <4>2 DEF Vector
    <3>3. 2 \in 2 .. Len(prog) /\ o[2] = Zero
      <4>1. Program[t] \in Seq([op : Op, arr : Vector])
        OBVIOUS
      <4>2. Len(prog) \in Nat
        BY <4>1, LenProperties
      <4> QED
        BY <4>2 DEF Tidy
    <3> QED
      BY <2>2, <2>3, <2>5, <3>1, <3>2, <3>3 DEF OnCourse
  <2>6. CASE /\ claim[t].col # M-1 /\ pc'[t] = "claiming"
             /\ claim'[t] = [claim[t] EXCEPT !.col = claim[t].col + 1]
    <3>1. ip'[t] = 1
      BY <1>0, <2>1, <2>6
    <3>2. claim'[t].vector = bound /\ claim'[t].col = claim[t].col + 1
      BY <1>0, <2>2, <2>6 DEF TypeOK
    <3>3. \A r \in Res : r < claim'[t].col => maxDemand'[t][r] = bound[r]
      BY <2>2, <2>4, <3>2 DEF Res
    <3> QED
      BY <2>6, <3>1, <3>2, <3>3 DEF OnCourse
  <2> QED
    BY <2>3, <2>5, <2>6
<1>3. CASE Current(t, "request") /\ Ask(t, Arr(t))
  <2>1. pc[t] = "idle" /\ prog[k].op = "request" /\ Arr(t) = a
    BY <1>3 DEF Current, Ask, RequestRefused, RequestGranted, RequestBlocked, Arr
  <2>2. /\ k+1 \in 2 .. Len(prog) /\ k+1 # 1
        /\ a \in Vector /\ allocation[t] = o[k] /\ maxDemand[t] = bound
        /\ o[k+1] = IF arrLessThan(Plus(o[k], a), bound) THEN Plus(o[k], a) ELSE o[k]
    BY <1>0, <2>1, CallAt
  <2>3. Admissible(t, a) <=> arrLessThan(Plus(o[k], a), bound)
    BY <2>2, FitsIff
  <2>4. CASE RequestRefused(t, a)
    <3>1. /\ pc'[t] = "idle" /\ allocation'[t] = allocation[t] /\ maxDemand'[t] = bound
          /\ ~Admissible(t, a)
      BY <2>1, <2>2, <2>4 DEF RequestRefused, vars
    <3>2. ip'[t] = k+1
      BY <1>0, <3>1
    <3>3. allocation'[t] = o[k+1]
      BY <2>2, <2>3, <3>1
    <3> QED
      BY <2>2, <3>1, <3>2, <3>3 DEF OnCourse
  <2>5. CASE RequestGranted(t, a)
    <3>1. /\ pc'[t] = "idle" /\ allocation'[t] = Plus(allocation[t], a) /\ maxDemand'[t] = bound
          /\ Admissible(t, a)
      BY <1>0, <2>1, <2>2, <2>5 DEF RequestGranted, Allocate, TypeOK
    <3>2. ip'[t] = k+1
      BY <1>0, <3>1
    <3>3. allocation'[t] = o[k+1]
      BY <2>2, <2>3, <3>1
    <3> QED
      BY <2>2, <3>1, <3>2, <3>3 DEF OnCourse
  <2>6. CASE RequestBlocked(t, a)
    <3>1. /\ pc'[t] = "waiting" /\ allocation' = allocation /\ maxDemand' = maxDemand
          /\ requests'[t] = a
      BY <1>0, <2>1, <2>6 DEF RequestBlocked, TypeOK
    <3>2. ip' = ip
      BY <1>0, <3>1
    <3> QED
      BY <2>1, <3>1, <3>2 DEF OnCourse
  <2> QED
    BY <1>3, <2>1, <2>4, <2>5, <2>6 DEF Ask
<1>4. CASE AskAgain(t)
  <2>1. pc[t] = "woken" /\ prog[k].op = "request" /\ requests[t] = a
    BY <1>4 DEF AskAgain, WokenGranted, WokenBlocked, OnCourse
  <2>2. /\ k+1 \in 2 .. Len(prog) /\ k+1 # 1
        /\ a \in Vector /\ allocation[t] = o[k] /\ maxDemand[t] = bound
        /\ o[k+1] = IF arrLessThan(Plus(o[k], a), bound) THEN Plus(o[k], a) ELSE o[k]
    BY <1>0, <2>1, CallAt
  <2>3. arrLessThan(Plus(o[k], a), bound)
    BY <1>0, <2>1, <2>2, FitsIff DEF Bookkeeping
  <2>4. CASE WokenGranted(t)
    <3>1. /\ pc'[t] = "idle" /\ allocation'[t] = Plus(allocation[t], a) /\ maxDemand'[t] = bound
      BY <1>0, <2>1, <2>2, <2>4 DEF WokenGranted, Allocate, TypeOK
    <3>2. ip'[t] = k+1
      BY <1>0, <3>1
    <3>3. allocation'[t] = o[k+1]
      BY <2>2, <2>3, <3>1
    <3> QED
      BY <2>2, <3>1, <3>2, <3>3 DEF OnCourse
  <2>5. CASE WokenBlocked(t)
    <3>1. pc'[t] = "waiting" /\ UNCHANGED <<allocation, maxDemand, requests>>
      BY <1>0, <2>5 DEF WokenBlocked, matrices, TypeOK
    <3>2. ip' = ip
      BY <1>0, <3>1
    <3> QED
      BY <2>1, <3>1, <3>2 DEF OnCourse
  <2> QED
    BY <1>4, <2>4, <2>5 DEF AskAgain
<1>5. CASE Current(t, "release") /\ GiveBack(t, Arr(t))
  <2>1. pc[t] = "idle" /\ prog[k].op = "release" /\ Arr(t) = a
    BY <1>5 DEF Current, GiveBack, Released, ReleaseRefused, Arr
  <2>2. /\ k+1 \in 2 .. Len(prog) /\ k+1 # 1
        /\ a \in Vector /\ allocation[t] = o[k] /\ maxDemand[t] = bound
        /\ o[k+1] = IF arrLessThan(a, o[k]) THEN Minus(o[k], a) ELSE o[k]
    BY <1>0, <2>1, CallAt
  <2>3. CASE Released(t, a)
    <3>1. /\ pc'[t] = "idle" /\ allocation'[t] = Minus(allocation[t], a) /\ maxDemand'[t] = bound
          /\ arrLessThan(a, allocation[t])
      BY <1>0, <2>1, <2>2, <2>3 DEF Released, Signalled, TypeOK
    <3>2. ip'[t] = k+1
      BY <1>0, <3>1
    <3>3. allocation'[t] = o[k+1]
      BY <2>2, <3>1
    <3> QED
      BY <2>2, <3>1, <3>2, <3>3 DEF OnCourse
  <2>4. CASE ReleaseRefused(t, a)
    <3>1. /\ pc'[t] = "idle" /\ allocation'[t] = allocation[t] /\ maxDemand'[t] = bound
          /\ ~arrLessThan(a, allocation[t])
      BY <2>1, <2>2, <2>4 DEF ReleaseRefused, vars
    <3>2. ip'[t] = k+1
      BY <1>0, <3>1
    <3>3. allocation'[t] = o[k+1]
      BY <2>2, <3>1
    <3> QED
      BY <2>2, <3>1, <3>2, <3>3 DEF OnCourse
  <2> QED
    BY <1>5, <2>1, <2>3, <2>4 DEF GiveBack
<1>6. CASE ThreadEnded(t)
  <2>1. pc'[t] = "ended"
    BY <1>0, <1>6 DEF ThreadEnded, TypeOK
  <2> QED
    BY <2>1 DEF OnCourse
<1> QED
  BY <1>1, <1>2, <1>3, <1>4, <1>5, <1>6 DEF Calls

\* Every thread is on course.
CourseInv == Inv2 /\ IpType /\ \A t \in Thread : OnCourse(t)

\* Every step keeps all threads on course.
LEMMA CourseStep ==
  ASSUME CourseInv, Balanced,
         \/ UNCHANGED <<vars, ip>>
         \/ Stores /\ UNCHANGED ip
         \/ \E t \in Thread : Calls(t)
         \/ \E t \in Thread : Spurious(t),
         Inv2', IpType'
  PROVE  CourseInv'
<1>1. \A t \in Thread : Tidy(Program[t], Owed(t))
  BY DEF Balanced, Owed
<1>2. TypeOK
  BY DEF CourseInv, Inv2, Inv1
<1>3. CASE UNCHANGED <<vars, ip>>
  BY <1>3 DEF CourseInv, OnCourse, vars
<1>4. ASSUME NEW u \in Thread, Calls(u) PROVE \A t \in Thread : OnCourse(t)'
  <2>1. ASSUME NEW t \in Thread, t # u PROVE OnCourse(t)'
    BY <1>2, <1>4, <2>1, CallsApart, OnCourseApart DEF CourseInv
  <2>2. OnCourse(u)'
    BY <1>1, <1>4, OnCourseOwn DEF CourseInv
  <2> QED
    BY <2>1, <2>2
<1>5. ASSUME NEW u \in Thread, Spurious(u) PROVE \A t \in Thread : OnCourse(t)'
  <2>1. /\ pc[u] = "waiting" /\ pc' = [pc EXCEPT ![u] = "woken"]
        /\ UNCHANGED <<allocation, maxDemand, requests, claim, ip>>
    BY <1>5 DEF Spurious, SpuriousWakeup, matrices
  <2> QED
    BY <1>2, <2>1, OnCourseApart DEF CourseInv, TypeOK
<1> QED
  BY <1>3, <1>4, <1>5 DEF CourseInv, Stores, Write, WriteAll

\* They all start on it.
LEMMA InitCourse == AInit => CourseInv
<1> SUFFICES ASSUME AInit PROVE CourseInv
  OBVIOUS
<1>1. Init /\ ip = [t \in Thread |-> 1]
  BY DEF AInit, DInit
<1>2. Inv2 /\ IpType
  BY <1>1, InitInv2 DEF IpType
<1> QED
  BY <1>1, <1>2 DEF CourseInv, OnCourse, Init

\* At the end of its course a thread holds nothing.
LEMMA CourseEnds ==
  ASSUME CourseInv, Balanced
  PROVE  NothingLeftBehind
<1> SUFFICES ASSUME NEW t \in Thread, ip[t] = Len(Program[t]), pc[t] = "idle"
             PROVE  allocation[t] = Zero
  BY DEF NothingLeftBehind
<1>1. Tidy(Program[t], Owed(t))
  BY DEF Balanced, Owed
<1> QED
  BY <1>1 DEF CourseInv, OnCourse, Tidy

\* No result of a library call is ever checked, and yet a thread whose program
\* would return everything if it ran alone has returned everything when it ends,
\* whatever the others do: they may delay a call but never change what it returns.
THEOREM NothingLeft ==
  ASSUME Balanced
  PROVE  /\ PollingSpec => []NothingLeftBehind
         /\ LSpec => []NothingLeftBehind
<1>1. AInit => CourseInv
  BY InitCourse
<1>2. CourseInv => NothingLeftBehind
  BY CourseEnds
<1>3. CourseInv /\ [PollingNext]_avars => CourseInv'
  <2> SUFFICES ASSUME CourseInv, [PollingNext]_avars PROVE CourseInv'
    OBVIOUS
  <2>1. Inv2' /\ IpType'
    BY AppStepIsStep, StepInv2 DEF CourseInv
  <2> QED
    BY <2>1, AppStep, CourseStep DEF avars
<1>4. CourseInv /\ [LNext]_allvars => CourseInv'
  <2> SUFFICES ASSUME CourseInv, [LNext]_allvars PROVE CourseInv'
    OBVIOUS
  <2>1. Inv2' /\ IpType'
    BY LStepIsStep, StepInv2 DEF CourseInv
  <2> QED
    BY <2>1, LibraryStep, CourseStep
<1>5. LInit => AInit
  BY DEF LInit
<1>6. PollingSpec => []NothingLeftBehind
  BY <1>1, <1>2, <1>3, PTL DEF PollingSpec
<1>7. LSpec => []NothingLeftBehind
  BY <1>1, <1>2, <1>4, <1>5, PTL DEF LSpec
<1> QED
  BY <1>6, <1>7

-------------------------------------------------------------------------------
(* The programs themselves *)

\* One call of a tidy program.
TidyCall(c, before, after, bound) ==
  \/ /\ c.op = "request"
     /\ after = IF arrLessThan(Plus(before, c.arr), bound) THEN Plus(before, c.arr) ELSE before
  \/ /\ c.op = "release"
     /\ after = IF arrLessThan(c.arr, before) THEN Minus(before, c.arr) ELSE before

\* A program is tidy if its calls are, one by one.
LEMMA TidyIf ==
  ASSUME NEW p, NEW o, NEW n \in Nat, n = Len(p), n >= 2,
         p[1].op = "claim", arrLessThan(p[1].arr, ExistingRes),
         \A k \in 1 .. n : o[k] \in Vector,
         o[2] = Zero, o[n] = Zero, p[n].op = "end",
         \A k \in 2 .. n-1 : TidyCall(p[k], o[k], o[k+1], p[1].arr)
  PROVE  Tidy(p, o)
<1>1. ASSUME NEW k \in 2 .. n-1
      PROVE  /\ p[k].op \in {"request", "release"}
             /\ p[k].op = "request" =>
                  o[k+1] = IF arrLessThan(Plus(o[k], p[k].arr), p[1].arr)
                             THEN Plus(o[k], p[k].arr) ELSE o[k]
             /\ p[k].op = "release" =>
                  o[k+1] = IF arrLessThan(p[k].arr, o[k])
                             THEN Minus(o[k], p[k].arr) ELSE o[k]
  <2>1. TidyCall(p[k], o[k], o[k+1], p[1].arr)
    OBVIOUS
  <2> QED
    BY <2>1 DEF TidyCall
<1> QED
  BY <1>1 DEF Tidy

\* The four outcomes of a call.
LEMMA Allowed ==
  ASSUME NEW v, NEW before, NEW after, NEW bound
  PROVE  /\ arrLessThan(Plus(before, v), bound) /\ after = Plus(before, v) =>
              TidyCall(request(v), before, after, bound)
         /\ ~arrLessThan(Plus(before, v), bound) /\ after = before =>
              TidyCall(request(v), before, after, bound)
         /\ arrLessThan(v, before) /\ after = Minus(before, v) =>
              TidyCall(release(v), before, after, bound)
         /\ ~arrLessThan(v, before) /\ after = before =>
              TidyCall(release(v), before, after, bound)
BY DEF TidyCall, request, release

\* app.c: within a claim of all 8 instances no request is refused.
LEMMA AppBalanced ==
  ASSUME M = 1, ExistingRes = V1(8), Program \in [Thread -> {threadfunc1, threadfunc2}]
  PROVE  Balanced
<1> SUFFICES ASSUME NEW t \in Thread PROVE \E o : Tidy(Program[t], o)
  BY DEF Balanced
<1>0. Res = {0}
  BY DEF Res
<1>1. \A x \in Nat : V1(x) \in Vector /\ V1(x)[0] = x
  BY <1>0 DEF V1, Vector
<1>2. Zero = V1(0)
  BY DEF V1, Zero
<1>3. ASSUME NEW x \in Nat, NEW y \in Nat, NEW z \in Nat
      PROVE  /\ x + y = z => Plus(V1(x), V1(y)) = V1(z)
             /\ x - y = z => Minus(V1(x), V1(y)) = V1(z)
  BY <1>0 DEF V1, Plus, Minus
<1>4. ASSUME NEW x \in Nat, NEW y \in Nat
      PROVE  arrLessThan(V1(x), V1(y)) <=> x <= y
  BY <1>0 DEF V1, arrLessThan
<1>5. ASSUME NEW p, NEW x \in Nat, NEW y \in Nat, NEW z \in Nat, x + y = z, z <= 8,
             p = <<claims(V1(8)), request(V1(x)), request(V1(y)),
                   release(V1(x)), release(V1(y)), threadEnded>>
      PROVE  \E o : Tidy(p, o)
  <2> DEFINE o == <<V1(0), V1(0), V1(x), V1(z), V1(y), V1(0)>>
  <2>0. /\ 0 + x = x /\ x + y = z /\ z - x = y /\ y - y = 0
        /\ x <= 8 /\ x <= z /\ y <= y /\ z <= 8
    BY <1>5
  <2>1. /\ Len(p) = 6
        /\ p[1] = claims(V1(8)) /\ p[2] = request(V1(x)) /\ p[3] = request(V1(y))
        /\ p[4] = release(V1(x)) /\ p[5] = release(V1(y)) /\ p[6] = threadEnded
    BY <1>5
  <2>2. /\ p[1].op = "claim" /\ p[1].arr = V1(8) /\ p[6].op = "end"
    BY <2>1 DEF claims, threadEnded
  <2>3. /\ o[1] = V1(0) /\ o[2] = V1(0) /\ o[3] = V1(x) /\ o[4] = V1(z)
        /\ o[5] = V1(y) /\ o[6] = V1(0)
    OBVIOUS
  <2> HIDE DEF o
  <2>4. TidyCall(p[2], o[2], o[3], V1(8))
    <3>1. Plus(V1(0), V1(x)) = V1(x)
      BY <1>3, <2>0
    <3>2. arrLessThan(V1(x), V1(8))
      BY <1>4, <2>0
    <3> QED
      BY <2>1, <2>3, <3>1, <3>2, Allowed
  <2>5. TidyCall(p[3], o[3], o[4], V1(8))
    <3>1. Plus(V1(x), V1(y)) = V1(z)
      BY <1>3, <2>0
    <3>2. arrLessThan(V1(z), V1(8))
      BY <1>4, <2>0
    <3> QED
      BY <2>1, <2>3, <3>1, <3>2, Allowed
  <2>6. TidyCall(p[4], o[4], o[5], V1(8))
    <3>1. Minus(V1(z), V1(x)) = V1(y)
      BY <1>3, <2>0
    <3>2. arrLessThan(V1(x), V1(z))
      BY <1>4, <2>0
    <3> QED
      BY <2>1, <2>3, <3>1, <3>2, Allowed
  <2>7. TidyCall(p[5], o[5], o[6], V1(8))
    <3>1. Minus(V1(y), V1(y)) = V1(0)
      BY <1>3, <2>0
    <3>2. arrLessThan(V1(y), V1(y))
      BY <1>4, <2>0
    <3> QED
      BY <2>1, <2>3, <3>1, <3>2, Allowed
  <2>8. \A k \in 2 .. 6-1 : TidyCall(p[k], o[k], o[k+1], p[1].arr)
    <3>1. \A k \in 2 .. 6-1 : k = 2 \/ k = 3 \/ k = 4 \/ k = 5
      OBVIOUS
    <3>2. 2+1 = 3 /\ 3+1 = 4 /\ 4+1 = 5 /\ 5+1 = 6
      OBVIOUS
    <3> QED
      BY <2>2, <2>4, <2>5, <2>6, <2>7, <3>1, <3>2
  <2>9. \A k \in 1 .. 6 : o[k] \in Vector
    <3>1. \A k \in 1 .. 6 : k = 1 \/ k = 2 \/ k = 3 \/ k = 4 \/ k = 5 \/ k = 6
      OBVIOUS
    <3>2. V1(0) \in Vector /\ V1(x) \in Vector /\ V1(y) \in Vector /\ V1(z) \in Vector
      BY <1>1, <2>0
    <3> QED
      BY <2>3, <3>1, <3>2
  <2>10. arrLessThan(p[1].arr, ExistingRes)
    BY <1>4, <2>2
  <2>11. o[2] = Zero /\ o[6] = Zero /\ 6 >= 2 /\ 6 \in Nat
    BY <1>2, <2>3
  <2>12. Tidy(p, o)
    BY <2>1, <2>2, <2>8, <2>9, <2>10, <2>11, TidyIf
  <2> QED
    BY <2>12
<1>6. 5 + 3 = 8 /\ 8 <= 8 /\ 2 + 4 = 6 /\ 6 <= 8
  OBVIOUS
<1>7. CASE Program[t] = threadfunc1
  BY <1>5, <1>6, <1>7 DEF threadfunc1
<1>8. CASE Program[t] = threadfunc2
  BY <1>5, <1>6, <1>8 DEF threadfunc2
<1> QED
  BY <1>7, <1>8

\* myapp.c: a worker claims, requests three times and releases as often.
LEMMA WorkerTidy ==
  ASSUME NEW c, NEW r1, NEW r2, NEW r3, c \in Vector, arrLessThan(c, ExistingRes),
         NEW o3, NEW o4, NEW o5, NEW o6, NEW o7,
         o3 \in Vector, o4 \in Vector, o5 \in Vector, o6 \in Vector, o7 \in Vector,
         TidyCall(request(r1), Zero, o3, c), TidyCall(request(r2), o3, o4, c),
         TidyCall(request(r3), o4, o5, c), TidyCall(release(r1), o5, o6, c),
         TidyCall(release(r2), o6, o7, c), TidyCall(release(r3), o7, Zero, c)
  PROVE  \E o : Tidy(<<claims(c), request(r1), request(r2), request(r3),
                       release(r1), release(r2), release(r3), threadEnded>>, o)
<1> DEFINE o == <<Zero, Zero, o3, o4, o5, o6, o7, Zero>>
           p == <<claims(c), request(r1), request(r2), request(r3),
                  release(r1), release(r2), release(r3), threadEnded>>
<1>1. /\ Len(p) = 8 /\ p[1] = claims(c)
      /\ p[2] = request(r1) /\ p[3] = request(r2) /\ p[4] = request(r3)
      /\ p[5] = release(r1) /\ p[6] = release(r2) /\ p[7] = release(r3)
      /\ p[8] = threadEnded
  OBVIOUS
<1>2. /\ o[1] = Zero /\ o[2] = Zero /\ o[3] = o3 /\ o[4] = o4
      /\ o[5] = o5 /\ o[6] = o6 /\ o[7] = o7 /\ o[8] = Zero
  OBVIOUS
<1> HIDE DEF o, p
<1>3. p[1].op = "claim" /\ p[1].arr = c /\ p[8].op = "end"
  BY <1>1 DEF claims, threadEnded
<1>4. \A k \in 2 .. 8-1 : TidyCall(p[k], o[k], o[k+1], p[1].arr)
  <2>1. \A k \in 2 .. 8-1 : k = 2 \/ k = 3 \/ k = 4 \/ k = 5 \/ k = 6 \/ k = 7
    OBVIOUS
  <2>2. 2+1 = 3 /\ 3+1 = 4 /\ 4+1 = 5 /\ 5+1 = 6 /\ 6+1 = 7 /\ 7+1 = 8
    OBVIOUS
  <2> QED
    BY <1>1, <1>2, <1>3, <2>1, <2>2
<1>5. Zero \in Vector
  BY DEF Zero, Vector
<1>6. \A k \in 1 .. 8 : o[k] \in Vector
  <2>1. \A k \in 1 .. 8 : k = 1 \/ k = 2 \/ k = 3 \/ k = 4 \/ k = 5 \/ k = 6 \/ k = 7 \/ k = 8
    OBVIOUS
  <2> QED
    BY <1>2, <1>5, <2>1
<1>7. arrLessThan(p[1].arr, ExistingRes) /\ o[2] = Zero /\ o[8] = Zero /\ 8 >= 2 /\ 8 \in Nat
  BY <1>2, <1>3
<1>8. Tidy(p, o)
  BY <1>1, <1>3, <1>4, <1>6, <1>7, TidyIf
<1> QED
  BY <1>8 DEF p

\* Arrays of five numbers, element by element.
LEMMA FiveArithmetic ==
  ASSUME M = 5, NEW u \in Vector, NEW v \in Vector, NEW w \in Vector
  PROVE  /\ /\ u[0] + v[0] = w[0] /\ u[1] + v[1] = w[1] /\ u[2] + v[2] = w[2]
            /\ u[3] + v[3] = w[3] /\ u[4] + v[4] = w[4]
            => w = Plus(u, v)
         /\ /\ u[0] - v[0] = w[0] /\ u[1] - v[1] = w[1] /\ u[2] - v[2] = w[2]
            /\ u[3] - v[3] = w[3] /\ u[4] - v[4] = w[4]
            => w = Minus(u, v)
         /\ /\ u[0] = w[0] /\ u[1] = w[1] /\ u[2] = w[2] /\ u[3] = w[3] /\ u[4] = w[4]
            => w = u
         /\ arrLessThan(u, v) <=>
              /\ u[0] <= v[0] /\ u[1] <= v[1] /\ u[2] <= v[2]
              /\ u[3] <= v[3] /\ u[4] <= v[4]
<1>0. /\ 0 \in Res /\ 1 \in Res /\ 2 \in Res /\ 3 \in Res /\ 4 \in Res
      /\ \A r \in Res : r = 0 \/ r = 1 \/ r = 2 \/ r = 3 \/ r = 4
  BY DEF Res
<1>1. w = [r \in Res |-> w[r]]
  BY DEF Vector
<1>2. arrLessThan(u, v) <=> /\ u[0] <= v[0] /\ u[1] <= v[1] /\ u[2] <= v[2]
                           /\ u[3] <= v[3] /\ u[4] <= v[4]
  BY <1>0 DEF arrLessThan
<1>3. ASSUME u[0] + v[0] = w[0], u[1] + v[1] = w[1], u[2] + v[2] = w[2],
             u[3] + v[3] = w[3], u[4] + v[4] = w[4]
      PROVE  w = Plus(u, v)
  <2>1. \A r \in Res : w[r] = u[r] + v[r]
    BY <1>0, <1>3
  <2> QED
    BY <1>1, <2>1 DEF Plus
<1>4. ASSUME u[0] - v[0] = w[0], u[1] - v[1] = w[1], u[2] - v[2] = w[2],
             u[3] - v[3] = w[3], u[4] - v[4] = w[4]
      PROVE  w = Minus(u, v)
  <2>1. \A r \in Res : w[r] = u[r] - v[r]
    BY <1>0, <1>4
  <2> QED
    BY <1>1, <2>1 DEF Minus
<1>5. ASSUME u[0] = w[0], u[1] = w[1], u[2] = w[2], u[3] = w[3], u[4] = w[4]
      PROVE  w = u
  <2>1. \A r \in Res : w[r] = u[r]
    BY <1>0, <1>5
  <2>2. u = [r \in Res |-> u[r]]
    BY DEF Vector
  <2> QED
    BY <1>1, <2>1, <2>2
<1> QED
  BY <1>2, <1>3, <1>4, <1>5

\* worker1: the third request is refused, and so is the third release.
LEMMA Worker1Tidy ==
  ASSUME M = 5, ExistingRes = V5(7, 2, 6, 1, 1)
  PROVE  \E o : Tidy(worker1, o)
<1> DEFINE c == V5(7, 2, 6, 1, 1)
           r1 == V5(2, 2, 3, 1, 1)
           r2 == V5(1, 0, 2, 0, 0)
           r3 == V5(0, 0, 1, 1, 1)
           o3 == V5(2, 2, 3, 1, 1)
           o4 == V5(3, 2, 5, 1, 1)
           o5 == V5(3, 2, 5, 1, 1)
           o6 == V5(1, 0, 2, 0, 0)
           o7 == V5(0, 0, 0, 0, 0)
<1>1. /\ c \in Vector /\ c[0] = 7 /\ c[1] = 2 /\ c[2] = 6 /\ c[3] = 1 /\ c[4] = 1
  BY DEF V5, Res, Vector
<1>2. /\ r1 \in Vector /\ r1[0] = 2 /\ r1[1] = 2 /\ r1[2] = 3 /\ r1[3] = 1 /\ r1[4] = 1
  BY DEF V5, Res, Vector
<1>3. /\ r2 \in Vector /\ r2[0] = 1 /\ r2[1] = 0 /\ r2[2] = 2 /\ r2[3] = 0 /\ r2[4] = 0
  BY DEF V5, Res, Vector
<1>4. /\ r3 \in Vector /\ r3[0] = 0 /\ r3[1] = 0 /\ r3[2] = 1 /\ r3[3] = 1 /\ r3[4] = 1
  BY DEF V5, Res, Vector
<1>5. /\ o3 \in Vector /\ o3[0] = 2 /\ o3[1] = 2 /\ o3[2] = 3 /\ o3[3] = 1 /\ o3[4] = 1
  BY DEF V5, Res, Vector
<1>6. /\ o4 \in Vector /\ o4[0] = 3 /\ o4[1] = 2 /\ o4[2] = 5 /\ o4[3] = 1 /\ o4[4] = 1
  BY DEF V5, Res, Vector
<1>7. /\ o5 \in Vector /\ o5[0] = 3 /\ o5[1] = 2 /\ o5[2] = 5 /\ o5[3] = 1 /\ o5[4] = 1
  BY DEF V5, Res, Vector
<1>8. /\ o6 \in Vector /\ o6[0] = 1 /\ o6[1] = 0 /\ o6[2] = 2 /\ o6[3] = 0 /\ o6[4] = 0
  BY DEF V5, Res, Vector
<1>9. /\ o7 \in Vector /\ o7[0] = 0 /\ o7[1] = 0 /\ o7[2] = 0 /\ o7[3] = 0 /\ o7[4] = 0
  BY DEF V5, Res, Vector
<1>10. /\ Zero \in Vector /\ Zero[0] = 0 /\ Zero[1] = 0 /\ Zero[2] = 0 /\ Zero[3] = 0 /\ Zero[4] = 0
  BY DEF Zero, Vector, Res
<1>11. ExistingRes = c
  OBVIOUS
<1> HIDE DEF c, r1, r2, r3, o3, o4, o5, o6, o7
<1>12. TidyCall(request(r1), Zero, o3, c)
  <2>1. o3 = Plus(Zero, r1) /\ arrLessThan(o3, c)
    BY <1>1, <1>2, <1>5, <1>10, FiveArithmetic
  <2> QED
    BY <2>1, Allowed
<1>13. TidyCall(request(r2), o3, o4, c)
  <2>1. o4 = Plus(o3, r2) /\ arrLessThan(o4, c)
    BY <1>1, <1>3, <1>5, <1>6, FiveArithmetic
  <2> QED
    BY <2>1, Allowed
<1>14. TidyCall(request(r3), o4, o5, c)
  <2>1. ~arrLessThan(Plus(o4, r3), c)
    BY <1>1, <1>4, <1>6, <1>7 DEF Plus, arrLessThan, Res
  <2>2. o5 = o4
    BY DEF o5, o4
  <2> QED
    BY <2>1, <2>2, Allowed
<1>15. TidyCall(release(r1), o5, o6, c)
  <2>1. o6 = Minus(o5, r1) /\ arrLessThan(r1, o5)
    BY <1>1, <1>2, <1>7, <1>8, FiveArithmetic
  <2> QED
    BY <2>1, Allowed
<1>16. TidyCall(release(r2), o6, o7, c)
  <2>1. o7 = Minus(o6, r2) /\ arrLessThan(r2, o6)
    BY <1>1, <1>3, <1>8, <1>9, FiveArithmetic
  <2> QED
    BY <2>1, Allowed
<1>17. TidyCall(release(r3), o7, Zero, c)
  <2>1. ~arrLessThan(r3, o7)
    BY <1>1, <1>4, <1>9, <1>10, FiveArithmetic
  <2>2. Zero = o7
    BY <1>9, <1>10, FiveArithmetic
  <2> QED
    BY <2>1, <2>2, Allowed
<1>18. arrLessThan(c, ExistingRes)
  BY <1>1, <1>11, FiveArithmetic
<1>19. worker1 = <<claims(c), request(r1), request(r2), request(r3),
                 release(r1), release(r2), release(r3), threadEnded>>
  BY DEF worker1, worker, c, r1, r2, r3
<1> QED
  BY <1>1, <1>5, <1>6, <1>7, <1>8, <1>9, <1>12, <1>13, <1>14, <1>15, <1>16, <1>17, <1>18, <1>19,
     WorkerTidy

\* worker2 and worker3: all calls are allowed.
LEMMA Worker2Tidy ==
  ASSUME M = 5, ExistingRes = V5(7, 2, 6, 1, 1)
  PROVE  \E o : Tidy(worker2, o)
<1> DEFINE c == V5(7, 2, 6, 1, 1)
           r1 == V5(2, 0, 0, 0, 0)
           r2 == V5(2, 0, 2, 0, 0)
           r3 == V5(0, 0, 0, 1, 1)
           o3 == V5(2, 0, 0, 0, 0)
           o4 == V5(4, 0, 2, 0, 0)
           o5 == V5(4, 0, 2, 1, 1)
           o6 == V5(2, 0, 2, 1, 1)
           o7 == V5(0, 0, 0, 1, 1)
<1>1. /\ c \in Vector /\ c[0] = 7 /\ c[1] = 2 /\ c[2] = 6 /\ c[3] = 1 /\ c[4] = 1
  BY DEF V5, Res, Vector
<1>2. /\ r1 \in Vector /\ r1[0] = 2 /\ r1[1] = 0 /\ r1[2] = 0 /\ r1[3] = 0 /\ r1[4] = 0
  BY DEF V5, Res, Vector
<1>3. /\ r2 \in Vector /\ r2[0] = 2 /\ r2[1] = 0 /\ r2[2] = 2 /\ r2[3] = 0 /\ r2[4] = 0
  BY DEF V5, Res, Vector
<1>4. /\ r3 \in Vector /\ r3[0] = 0 /\ r3[1] = 0 /\ r3[2] = 0 /\ r3[3] = 1 /\ r3[4] = 1
  BY DEF V5, Res, Vector
<1>5. /\ o3 \in Vector /\ o3[0] = 2 /\ o3[1] = 0 /\ o3[2] = 0 /\ o3[3] = 0 /\ o3[4] = 0
  BY DEF V5, Res, Vector
<1>6. /\ o4 \in Vector /\ o4[0] = 4 /\ o4[1] = 0 /\ o4[2] = 2 /\ o4[3] = 0 /\ o4[4] = 0
  BY DEF V5, Res, Vector
<1>7. /\ o5 \in Vector /\ o5[0] = 4 /\ o5[1] = 0 /\ o5[2] = 2 /\ o5[3] = 1 /\ o5[4] = 1
  BY DEF V5, Res, Vector
<1>8. /\ o6 \in Vector /\ o6[0] = 2 /\ o6[1] = 0 /\ o6[2] = 2 /\ o6[3] = 1 /\ o6[4] = 1
  BY DEF V5, Res, Vector
<1>9. /\ o7 \in Vector /\ o7[0] = 0 /\ o7[1] = 0 /\ o7[2] = 0 /\ o7[3] = 1 /\ o7[4] = 1
  BY DEF V5, Res, Vector
<1>10. /\ Zero \in Vector /\ Zero[0] = 0 /\ Zero[1] = 0 /\ Zero[2] = 0 /\ Zero[3] = 0 /\ Zero[4] = 0
  BY DEF Zero, Vector, Res
<1>11. ExistingRes = c
  OBVIOUS
<1> HIDE DEF c, r1, r2, r3, o3, o4, o5, o6, o7
<1>12. TidyCall(request(r1), Zero, o3, c)
  <2>1. o3 = Plus(Zero, r1) /\ arrLessThan(o3, c)
    BY <1>1, <1>2, <1>5, <1>10, FiveArithmetic
  <2> QED
    BY <2>1, Allowed
<1>13. TidyCall(request(r2), o3, o4, c)
  <2>1. o4 = Plus(o3, r2) /\ arrLessThan(o4, c)
    BY <1>1, <1>3, <1>5, <1>6, FiveArithmetic
  <2> QED
    BY <2>1, Allowed
<1>14. TidyCall(request(r3), o4, o5, c)
  <2>1. o5 = Plus(o4, r3) /\ arrLessThan(o5, c)
    BY <1>1, <1>4, <1>6, <1>7, FiveArithmetic
  <2> QED
    BY <2>1, Allowed
<1>15. TidyCall(release(r1), o5, o6, c)
  <2>1. o6 = Minus(o5, r1) /\ arrLessThan(r1, o5)
    BY <1>1, <1>2, <1>7, <1>8, FiveArithmetic
  <2> QED
    BY <2>1, Allowed
<1>16. TidyCall(release(r2), o6, o7, c)
  <2>1. o7 = Minus(o6, r2) /\ arrLessThan(r2, o6)
    BY <1>1, <1>3, <1>8, <1>9, FiveArithmetic
  <2> QED
    BY <2>1, Allowed
<1>17. TidyCall(release(r3), o7, Zero, c)
  <2>1. Zero = Minus(o7, r3) /\ arrLessThan(r3, o7)
    BY <1>1, <1>4, <1>9, <1>10, FiveArithmetic
  <2> QED
    BY <2>1, Allowed
<1>18. arrLessThan(c, ExistingRes)
  BY <1>1, <1>11, FiveArithmetic
<1>19. worker2 = <<claims(c), request(r1), request(r2), request(r3),
                 release(r1), release(r2), release(r3), threadEnded>>
  BY DEF worker2, worker, c, r1, r2, r3
<1> QED
  BY <1>1, <1>5, <1>6, <1>7, <1>8, <1>9, <1>12, <1>13, <1>14, <1>15, <1>16, <1>17, <1>18, <1>19,
     WorkerTidy

LEMMA Worker3Tidy ==
  ASSUME M = 5, ExistingRes = V5(7, 2, 6, 1, 1)
  PROVE  \E o : Tidy(worker3, o)
<1> DEFINE c == V5(7, 2, 6, 1, 1)
           r1 == V5(3, 0, 3, 0, 0)
           r2 == V5(0, 0, 1, 0, 0)
           r3 == V5(2, 0, 0, 1, 1)
           o3 == V5(3, 0, 3, 0, 0)
           o4 == V5(3, 0, 4, 0, 0)
           o5 == V5(5, 0, 4, 1, 1)
           o6 == V5(2, 0, 1, 1, 1)
           o7 == V5(2, 0, 0, 1, 1)
<1>1. /\ c \in Vector /\ c[0] = 7 /\ c[1] = 2 /\ c[2] = 6 /\ c[3] = 1 /\ c[4] = 1
  BY DEF V5, Res, Vector
<1>2. /\ r1 \in Vector /\ r1[0] = 3 /\ r1[1] = 0 /\ r1[2] = 3 /\ r1[3] = 0 /\ r1[4] = 0
  BY DEF V5, Res, Vector
<1>3. /\ r2 \in Vector /\ r2[0] = 0 /\ r2[1] = 0 /\ r2[2] = 1 /\ r2[3] = 0 /\ r2[4] = 0
  BY DEF V5, Res, Vector
<1>4. /\ r3 \in Vector /\ r3[0] = 2 /\ r3[1] = 0 /\ r3[2] = 0 /\ r3[3] = 1 /\ r3[4] = 1
  BY DEF V5, Res, Vector
<1>5. /\ o3 \in Vector /\ o3[0] = 3 /\ o3[1] = 0 /\ o3[2] = 3 /\ o3[3] = 0 /\ o3[4] = 0
  BY DEF V5, Res, Vector
<1>6. /\ o4 \in Vector /\ o4[0] = 3 /\ o4[1] = 0 /\ o4[2] = 4 /\ o4[3] = 0 /\ o4[4] = 0
  BY DEF V5, Res, Vector
<1>7. /\ o5 \in Vector /\ o5[0] = 5 /\ o5[1] = 0 /\ o5[2] = 4 /\ o5[3] = 1 /\ o5[4] = 1
  BY DEF V5, Res, Vector
<1>8. /\ o6 \in Vector /\ o6[0] = 2 /\ o6[1] = 0 /\ o6[2] = 1 /\ o6[3] = 1 /\ o6[4] = 1
  BY DEF V5, Res, Vector
<1>9. /\ o7 \in Vector /\ o7[0] = 2 /\ o7[1] = 0 /\ o7[2] = 0 /\ o7[3] = 1 /\ o7[4] = 1
  BY DEF V5, Res, Vector
<1>10. /\ Zero \in Vector /\ Zero[0] = 0 /\ Zero[1] = 0 /\ Zero[2] = 0 /\ Zero[3] = 0 /\ Zero[4] = 0
  BY DEF Zero, Vector, Res
<1>11. ExistingRes = c
  OBVIOUS
<1> HIDE DEF c, r1, r2, r3, o3, o4, o5, o6, o7
<1>12. TidyCall(request(r1), Zero, o3, c)
  <2>1. o3 = Plus(Zero, r1) /\ arrLessThan(o3, c)
    BY <1>1, <1>2, <1>5, <1>10, FiveArithmetic
  <2> QED
    BY <2>1, Allowed
<1>13. TidyCall(request(r2), o3, o4, c)
  <2>1. o4 = Plus(o3, r2) /\ arrLessThan(o4, c)
    BY <1>1, <1>3, <1>5, <1>6, FiveArithmetic
  <2> QED
    BY <2>1, Allowed
<1>14. TidyCall(request(r3), o4, o5, c)
  <2>1. o5 = Plus(o4, r3) /\ arrLessThan(o5, c)
    BY <1>1, <1>4, <1>6, <1>7, FiveArithmetic
  <2> QED
    BY <2>1, Allowed
<1>15. TidyCall(release(r1), o5, o6, c)
  <2>1. o6 = Minus(o5, r1) /\ arrLessThan(r1, o5)
    BY <1>1, <1>2, <1>7, <1>8, FiveArithmetic
  <2> QED
    BY <2>1, Allowed
<1>16. TidyCall(release(r2), o6, o7, c)
  <2>1. o7 = Minus(o6, r2) /\ arrLessThan(r2, o6)
    BY <1>1, <1>3, <1>8, <1>9, FiveArithmetic
  <2> QED
    BY <2>1, Allowed
<1>17. TidyCall(release(r3), o7, Zero, c)
  <2>1. Zero = Minus(o7, r3) /\ arrLessThan(r3, o7)
    BY <1>1, <1>4, <1>9, <1>10, FiveArithmetic
  <2> QED
    BY <2>1, Allowed
<1>18. arrLessThan(c, ExistingRes)
  BY <1>1, <1>11, FiveArithmetic
<1>19. worker3 = <<claims(c), request(r1), request(r2), request(r3),
                 release(r1), release(r2), release(r3), threadEnded>>
  BY DEF worker3, worker, c, r1, r2, r3
<1> QED
  BY <1>1, <1>5, <1>6, <1>7, <1>8, <1>9, <1>12, <1>13, <1>14, <1>15, <1>16, <1>17, <1>18, <1>19,
     WorkerTidy

\* app.c: both threads return what they were granted, whatever the interleaving.
THEOREM AppReturnsAll ==
  ASSUME M = 1, ExistingRes = V1(8), Program \in [Thread -> {threadfunc1, threadfunc2}]
  PROVE  /\ PollingSpec => []NothingLeftBehind
         /\ LSpec => []NothingLeftBehind
BY AppBalanced, NothingLeft

\* myapp.c: so do the three workers.  The third request of the first one asks for
\* more than its claim and is refused, and so is the release that would return it:
\* the two failed calls that nobody notices cancel out.
THEOREM MyAppReturnsAll ==
  ASSUME M = 5, ExistingRes = V5(7, 2, 6, 1, 1),
         Program \in [Thread -> {worker1, worker2, worker3}]
  PROVE  /\ PollingSpec => []NothingLeftBehind
         /\ LSpec => []NothingLeftBehind
<1>1. ASSUME NEW t \in Thread PROVE \E o : Tidy(Program[t], o)
  <2>1. Program[t] \in {worker1, worker2, worker3}
    OBVIOUS
  <2> QED
    BY <2>1, Worker1Tidy, Worker2Tidy, Worker3Tidy
<1>2. Balanced
  BY <1>1 DEF Balanced
<1> QED
  BY <1>2, NothingLeft
===============================================================================
