------------------------------- MODULE PvmProofs -------------------------------
(***************************************************************************)
(* What pvm does with what it reads, for every process, every kernel and   *)
(* every moment at which the process changes between two reads: the areas  *)
(* are walked in order and no page is counted or listed twice, and the     *)
(* tables are counted exactly.                                             *)
(***************************************************************************)
EXTENDS Pvm, FiniteSetTheorems, SequenceTheorems, TLAPS

-------------------------------------------------------------------------------
(* all_table_size()'s array indexes, for every page number and table size: they
   stay within the arrays, and two pages get the same index exactly if one table
   maps both.  Quotients and remainders by a divisor that is not a numeral are
   beyond the provers; DivUnique is what they need to know. *)

\* A product of naturals is a natural, and grows with its factors.
LEMMA Products ==
  ASSUME NEW a \in Nat, NEW b \in Nat
  PROVE  a * b \in Nat /\ (a > 0 => a * b >= b) /\ (b > 0 => a * b >= a)
OBVIOUS

LEMMA DivMod ==
  ASSUME NEW v \in Nat, NEW m \in Nat \ {0}
  PROVE  /\ v \div m \in Nat /\ v % m \in 0 .. m-1
         /\ v = m * (v \div m) + (v % m)
OBVIOUS

\* A number has one quotient and one remainder.
LEMMA DivUnique ==
  ASSUME NEW m \in Nat \ {0}, NEW a \in Nat, NEW b \in 0 .. m-1,
         NEW c \in Nat, NEW d \in 0 .. m-1, m * a + b = m * c + d
  PROVE  a = c /\ b = d
<1>1. ASSUME NEW x \in Nat, NEW y \in Nat, x < y
      PROVE  m * x + m <= m * y
  <2>1. PICK k \in Nat : y = x + 1 + k
    <3>1. y - x - 1 \in Nat /\ y = x + 1 + (y - x - 1)
      BY <1>1
    <3> QED
      BY <3>1
  <2>2. m * y = m * x + m + m * k
    BY <2>1
  <2>3. m * k \in Nat /\ m * x \in Nat
    BY Products
  <2> QED
    BY <2>2, <2>3
<1>2. ~(a < c)
  <2> SUFFICES ASSUME a < c PROVE FALSE
    OBVIOUS
  <2>1. m * a + m <= m * c /\ m * a \in Nat /\ m * c \in Nat
    BY <1>1, Products
  <2> QED
    BY <2>1
<1>3. ~(c < a)
  <2> SUFFICES ASSUME c < a PROVE FALSE
    OBVIOUS
  <2>1. m * c + m <= m * a /\ m * a \in Nat /\ m * c \in Nat
    BY <1>1, Products
  <2> QED
    BY <2>1
<1>4. a = c
  BY <1>2, <1>3
<1> QED
  BY <1>4, Products

\* What is known of a number's parts fixes its quotient and its remainder.
LEMMA Parts ==
  ASSUME NEW m \in Nat \ {0}, NEW a \in Nat, NEW b \in 0 .. m-1
  PROVE  (m * a + b) \div m = a /\ (m * a + b) % m = b
<1> DEFINE v == m * a + b
<1>1. v \in Nat
  BY Products
<1>2. /\ v \div m \in Nat /\ v % m \in 0 .. m-1
      /\ m * (v \div m) + (v % m) = m * a + b
  BY <1>1, DivMod
<1> HIDE DEF v
<1>3. v \div m = a /\ v % m = b
  BY <1>2, DivUnique
<1> QED
  BY <1>3 DEF v

\* Dividing by a product is dividing twice.
LEMMA DivProduct ==
  ASSUME NEW v \in Nat, NEW m \in Nat \ {0}, NEW n \in Nat \ {0}
  PROVE  /\ m * n \in Nat \ {0}
         /\ v \div (m * n) = (v \div m) \div n
         /\ v % (m * n) = m * ((v \div m) % n) + (v % m)
         /\ v % (m * n) \in Nat
<1> DEFINE q == v \div m
           r == v % m
           Q == q \div n
           R == q % n
<1>1. q \in Nat /\ r \in 0 .. m-1 /\ v = m * q + r
  BY DivMod
<1>2. Q \in Nat /\ R \in 0 .. n-1 /\ q = n * Q + R
  BY <1>1, DivMod
<1> HIDE DEF q, r, Q, R
<1>3. v = (m * n) * Q + (m * R + r)
  BY <1>1, <1>2
<1>4. m * n \in Nat \ {0}
  BY Products
<1>5. m * R + r \in 0 .. (m * n) - 1
  <2>1. m * R \in Nat
    BY <1>2, Products
  <2>2. PICK k \in Nat : n = R + 1 + k
    <3>1. n - R - 1 \in Nat /\ n = R + 1 + (n - R - 1)
      BY <1>2
    <3> QED
      BY <3>1
  <2>3. m * n = m * R + m + m * k
    BY <2>2, <1>2
  <2>4. m * k \in Nat
    BY Products
  <2> QED
    BY <2>1, <2>3, <2>4, <1>1
<1>6. v \div (m * n) = Q /\ v % (m * n) = m * R + r
  BY <1>2, <1>3, <1>4, <1>5, Parts
<1> QED
  BY <1>4, <1>5, <1>6 DEF q, r, Q, R

\* The digits of a page number, and the tables that map the page, by them.
LEMMA Digits ==
  ASSUME NEW v \in Nat
  PROVE  /\ pdptIndex(v) \in 0 .. Entries-1
         /\ pdIndex(v) \in 0 .. Entries-1
         /\ ptIndex(v) \in 0 .. Entries-1
         /\ TableOf(2, v) = ptIndex(v)
         /\ TableOf(3, v) = Entries * ptIndex(v) + pdIndex(v)
         /\ TableOf(4, v) = Entries * (Entries * ptIndex(v) + pdIndex(v)) + pdptIndex(v)
<1> DEFINE E  == Entries
           q1 == v \div E
           q2 == v \div (E * E)
           q3 == v \div (E * E * E)
           E3 == E * E * E
           w  == v % (E * E3)
<1>1. E \in Nat \ {0}
  BY EntriesAssumption
<1>2. E * E \in Nat \ {0} /\ E3 \in Nat \ {0}
  BY <1>1, Products
<1>3. q1 \in Nat /\ q2 \in Nat /\ q3 \in Nat
  BY <1>1, <1>2, DivMod
<1>4. /\ q2 = q1 \div E /\ q3 = q2 \div E
      /\ v % E3 = (E * E) * (q2 % E) + (v % (E * E))
  <2>1. /\ E * E \in Nat \ {0}
        /\ q2 = q1 \div E
        /\ v % (E * E) = E * (q1 % E) + (v % E)
        /\ v % (E * E) \in Nat
    BY <1>1, DivProduct, Zenon
  <2>2. PICK F \in Nat \ {0} : F = E * E
    BY <1>2
  <2> HIDE DEF E
  <2>e. PICK e \in Nat \ {0} : e = E
    BY <1>1
  <2>3. /\ F * e \in Nat \ {0}
        /\ v \div (F * e) = (v \div F) \div e
        /\ v % (F * e) = F * ((v \div F) % e) + (v % F)
        /\ v % (F * e) \in Nat
    BY DivProduct, Zenon
  <2> QED
    BY <2>1, <2>2, <2>3, <2>e
<1>5. /\ pdptIndex(v) = q1 % E /\ pdIndex(v) = q2 % E /\ ptIndex(v) = q3 % E
  BY DEF pdptIndex, pdIndex, ptIndex
<1>6. /\ q1 % E \in 0 .. E-1 /\ q2 % E \in 0 .. E-1 /\ q3 % E \in 0 .. E-1
  BY <1>1, <1>3, DivMod
<1> HIDE DEF E, E3
<1>7. /\ w \div E3 = q3 % E
      /\ w \div (E * E) = E * (q3 % E) + (q2 % E)
      /\ w \div E = E * (E * (q3 % E) + (q2 % E)) + (q1 % E)
  <2> DEFINE a == q3 % E
             b == q2 % E
             c == q1 % E
             r == v % E
  <2>1. a \in Nat /\ b \in 0 .. E-1 /\ c \in 0 .. E-1 /\ r \in 0 .. E-1
    BY <1>1, <1>6, DivMod
  <2>2. v % (E * E) = E * c + r
    <3>1. /\ E * E \in Nat \ {0}
          /\ v \div (E * E) = (v \div E) \div E
          /\ v % (E * E) = E * ((v \div E) % E) + (v % E)
          /\ v % (E * E) \in Nat
      BY <1>1, DivProduct, Zenon
    <3> QED
      BY <3>1
  <2>3. v % E3 = (E * E) * b + (E * c + r)
    BY <1>4, <2>2
  <2>4. E3 * E = E * E3
    BY <1>1, <1>2
  <2>5. w = E3 * a + ((E * E) * b + (E * c + r))
    <3>1. /\ E3 * E \in Nat \ {0}
          /\ v \div (E3 * E) = (v \div E3) \div E
          /\ v % (E3 * E) = E3 * ((v \div E3) % E) + (v % E3)
          /\ v % (E3 * E) \in Nat
      BY <1>1, <1>2, DivProduct, Zenon
    <3>2. v \div E3 = q3
      BY DEF E3
    <3> QED
      BY <2>3, <2>4, <3>1, <3>2
  <2>6. v % (E * E) \in 0 .. (E * E) - 1 /\ v % E3 \in 0 .. E3 - 1
    BY <1>2, DivMod
  <2>7. E3 * a + (v % E3) = w
    BY <2>3, <2>5
  <2> HIDE DEF a, b, c, r, w
  <2>8. w \div E3 = a
    BY <1>2, <2>1, <2>6, <2>7, Parts
  <2>9. w = (E * E) * (E * a + b) + (E * c + r)
    BY <1>1, <2>1, <2>5 DEF E3
  <2>10. E * a + b \in Nat /\ E * (E * a + b) + c \in Nat
    BY <1>1, <2>1, Products
  <2>11. w \div (E * E) = E * a + b
    BY <1>2, <2>2, <2>6, <2>9, <2>10, Parts
  <2>12. w = E * (E * (E * a + b) + c) + r
    BY <1>1, <2>1, <2>9
  <2>13. w \div E = E * (E * a + b) + c
    BY <1>1, <2>1, <2>10, <2>12, Parts
  <2> QED
    BY <2>8, <2>11, <2>13 DEF a, b, c
<1>8. TableOf(2, v) = w \div E3 /\ TableOf(3, v) = w \div (E * E) /\ TableOf(4, v) = w \div E
  BY DEF TableOf, Span, E, E3
<1> QED
  BY <1>5, <1>6, <1>7, <1>8 DEF E

\* Whatever the page number, the arrays are not left: all_table_size() writes
\* where it has allocated.
THEOREM IndexInArray ==
  ASSUME NEW v \in Nat, NEW l \in 2 .. 4
  PROVE  TableIndex(l, v) \in 0 .. Slots(l)-1
<1> DEFINE E == Entries
           a == ptIndex(v)
           b == pdIndex(v)
           c == pdptIndex(v)
<1>1. E \in Nat \ {0} /\ a \in 0 .. E-1 /\ b \in 0 .. E-1 /\ c \in 0 .. E-1
  BY Digits, EntriesAssumption
<1> HIDE DEF E, a, b, c
<1>2. ASSUME NEW n \in Nat \ {0}, NEW x \in 0 .. n-1, NEW y \in 0 .. E-1
      PROVE  E * x + y \in 0 .. (E * n) - 1
  <2>1. PICK k \in Nat : n = x + 1 + k
    <3>1. n - x - 1 \in Nat /\ n = x + 1 + (n - x - 1)
      OBVIOUS
    <3> QED
      BY <3>1
  <2>2. E * n = E * x + E + E * k
    BY <1>1, <2>1
  <2>3. E * k \in Nat /\ E * x \in Nat
    BY <1>1, Products
  <2> QED
    BY <1>1, <2>2, <2>3
<1>3. E * a + b \in 0 .. (E * E) - 1
  BY <1>1, <1>2
<1>4. E * E \in Nat \ {0}
  BY <1>1, Products
<1>5. E * a + E * E * b + c \in 0 .. (E * E * E) - 1
  <2>1. E * b + a \in 0 .. (E * E) - 1
    BY <1>1, <1>2
  <2>2. E * (E * b + a) + c \in 0 .. (E * (E * E)) - 1
    BY <1>1, <1>2, <1>4, <2>1
  <2>3. E * (E * b + a) + c = E * a + E * E * b + c /\ E * (E * E) = E * E * E
    BY <1>1
  <2> QED
    BY <2>2, <2>3
<1> QED
  BY <1>1, <1>3, <1>5 DEF TableIndex, Slots, E, a, b, c

\* Two pages mark the same entry exactly if one table maps both, although the
\* digits of level 4 are not laid out in the order of the page numbers.
THEOREM IndexIsTable ==
  ASSUME NEW v \in Nat, NEW w \in Nat, NEW l \in 2 .. 4
  PROVE  TableIndex(l, v) = TableIndex(l, w) <=> TableOf(l, v) = TableOf(l, w)
<1> DEFINE E == Entries
<1>1. E \in Nat \ {0}
  BY EntriesAssumption
<1>2. ASSUME NEW a \in Nat, NEW b \in 0 .. E-1, NEW x \in Nat, NEW y \in 0 .. E-1
      PROVE  E * a + b = E * x + y <=> a = x /\ b = y
  BY <1>1, DivUnique
<1>3. ASSUME NEW a \in 0 .. E-1, NEW b \in 0 .. E-1, NEW c \in 0 .. E-1,
             NEW x \in 0 .. E-1, NEW y \in 0 .. E-1, NEW z \in 0 .. E-1
      PROVE  /\ E * (E * a + b) + c = E * (E * x + y) + z <=> a = x /\ b = y /\ c = z
             /\ E * a + E * E * b + c = E * x + E * E * y + z <=> a = x /\ b = y /\ c = z
  <2>1. /\ E * a + b \in Nat /\ E * x + y \in Nat
        /\ E * b + a \in Nat /\ E * y + x \in Nat
    BY <1>1, Products
  <2>2. /\ E * a + E * E * b + c = E * (E * b + a) + c
        /\ E * x + E * E * y + z = E * (E * y + x) + z
    BY <1>1
  <2>3. E * (E * a + b) + c = E * (E * x + y) + z <=> E * a + b = E * x + y /\ c = z
    BY <1>2, <2>1
  <2>4. E * (E * b + a) + c = E * (E * y + x) + z <=> E * b + a = E * y + x /\ c = z
    BY <1>2, <2>1
  <2>5. /\ E * a + b = E * x + y <=> a = x /\ b = y
        /\ E * b + a = E * y + x <=> b = y /\ a = x
    BY <1>2
  <2> QED
    BY <2>2, <2>3, <2>4, <2>5
<1> HIDE DEF E
<1>4. ASSUME NEW u \in Nat
      PROVE  /\ ptIndex(u) \in 0 .. E-1 /\ pdIndex(u) \in 0 .. E-1 /\ pdptIndex(u) \in 0 .. E-1
             /\ TableOf(2, u) = ptIndex(u)
             /\ TableOf(3, u) = E * ptIndex(u) + pdIndex(u)
             /\ TableOf(4, u) = E * (E * ptIndex(u) + pdIndex(u)) + pdptIndex(u)
             /\ TableIndex(2, u) = ptIndex(u)
             /\ TableIndex(3, u) = E * ptIndex(u) + pdIndex(u)
             /\ TableIndex(4, u) = E * ptIndex(u) + E * E * pdIndex(u) + pdptIndex(u)
  BY Digits DEF E, TableIndex
<1>5. CASE l = 2
  BY <1>4, <1>5
<1>6. CASE l = 3
  BY <1>4, <1>6
<1>7. CASE l = 4
  <2> DEFINE a == ptIndex(v)
             b == pdIndex(v)
             c == pdptIndex(v)
             x == ptIndex(w)
             y == pdIndex(w)
             z == pdptIndex(w)
  <2>1. /\ a \in 0 .. E-1 /\ b \in 0 .. E-1 /\ c \in 0 .. E-1
        /\ x \in 0 .. E-1 /\ y \in 0 .. E-1 /\ z \in 0 .. E-1
    BY <1>4
  <2>2. /\ TableOf(4, v) = E * (E * a + b) + c /\ TableOf(4, w) = E * (E * x + y) + z
        /\ TableIndex(4, v) = E * a + E * E * b + c
        /\ TableIndex(4, w) = E * x + E * E * y + z
    BY <1>4
  <2> HIDE DEF a, b, c, x, y, z
  <2>3. /\ E * (E * a + b) + c = E * (E * x + y) + z <=> a = x /\ b = y /\ c = z
        /\ E * a + E * E * b + c = E * x + E * E * y + z <=> a = x /\ b = y /\ c = z
    BY <1>3, <2>1
  <2>4. TableOf(4, v) = TableOf(4, w) <=> a = x /\ b = y /\ c = z
    BY <2>2, <2>3, Zenon
  <2>5. TableIndex(4, v) = TableIndex(4, w) <=> a = x /\ b = y /\ c = z
    BY <2>2, <2>3, Zenon
  <2> QED
    BY <1>7, <2>4, <2>5
<1> QED
  BY <1>5, <1>6, <1>7

-------------------------------------------------------------------------------
(* The kernel *)

LEMMA PageFinite == IsFiniteSet(Page) /\ \A S \in SUBSET Page : IsFiniteSet(S)
<1>1. IsFiniteSet(0 .. Readable-1) /\ Page \in SUBSET (0 .. Readable-1)
  <2>1. 0 \in Int /\ Readable-1 \in Int
    BY PvmAssumption
  <2>2. Page \in SUBSET (0 .. Readable-1)
    BY DEF Page
  <2> QED
    BY <2>1, <2>2, FS_Interval
<1>2. IsFiniteSet(Page)
  BY <1>1, FS_Subset
<1> QED
  BY <1>2, FS_Subset

\* A kernel's maps and counts, and that a frame is mapped at least where the
\* process maps it.
KernelOK ==
  /\ areas \in Layouts \cup {<<>>}
  /\ pagemap \in [Page -> Frames \cup {None}]
  /\ kpagecount \in [Frames -> 0 .. MaxCount]
  /\ \A f \in Frames : Own(pagemap, f) <= kpagecount[f]

LEMMA OwnNat == ASSUME NEW map, NEW f PROVE Own(map, f) \in Nat
<1>1. {v \in Page : map[v] = f} \in SUBSET Page
  OBVIOUS
<1> QED
  BY <1>1, PageFinite, FS_CardinalityType DEF Own

LEMMA DropKeeps ==
  ASSUME KernelOK, NEW gone \in SUBSET Page, Drop(gone), areas' \in Layouts \cup {<<>>}
  PROVE  KernelOK'
<1>1. pagemap' \in [Page -> Frames \cup {None}]
  BY DEF Drop, KernelOK
<1>2. ASSUME NEW f \in Frames
      PROVE  Own(pagemap', f) <= kpagecount'[f] /\ kpagecount'[f] \in 0 .. MaxCount
  <2> DEFINE S == {v \in Page : pagemap[v] = f}
             T == {v \in gone : pagemap[v] = f}
             U == {v \in Page : pagemap'[v] = f}
  <2>1. f # None
    BY PvmAssumption DEF None
  <2>2. U = S \ T /\ S \cap T = T
    BY <2>1 DEF Drop, KernelOK
  <2>3. IsFiniteSet(S) /\ IsFiniteSet(T) /\ T \in SUBSET S
    <3>1. S \in SUBSET Page /\ T \in SUBSET Page /\ T \in SUBSET S
      OBVIOUS
    <3> QED
      BY <3>1, PageFinite
  <2> HIDE DEF S, T, U
  <2>4. Cardinality(U) = Cardinality(S) - Cardinality(T) /\ Cardinality(T) <= Cardinality(S)
    <3>1. Cardinality(S \ T) = Cardinality(S) - Cardinality(S \cap T)
      BY <2>3, FS_Difference
    <3>2. Cardinality(T) <= Cardinality(S)
      BY <2>3, FS_Subset
    <3> QED
      BY <2>2, <3>1, <3>2
  <2>5. Cardinality(S) \in Nat /\ Cardinality(T) \in Nat
    BY <2>3, FS_CardinalityType
  <2>6. Cardinality(S) <= kpagecount[f] /\ kpagecount[f] \in 0 .. MaxCount
    BY DEF KernelOK, Own, S
  <2>7. kpagecount'[f] = kpagecount[f] - Cardinality(T)
    BY DEF Drop, T
  <2>8. Own(pagemap', f) = Cardinality(U)
    BY DEF Own, U
  <2> QED
    BY <2>4, <2>5, <2>6, <2>7, <2>8, PvmAssumption
<1>3. kpagecount' \in [Frames -> 0 .. MaxCount]
  BY <1>2 DEF Drop
<1> QED
  BY <1>1, <1>2, <1>3 DEF KernelOK

LEMMA FaultKeeps ==
  ASSUME KernelOK, FaultIn
  PROVE  KernelOK'
<1>1. PICK v \in Page \cap Pages(areas), f \in Frames :
        /\ pagemap[v] = None /\ kpagecount[f] < MaxCount
        /\ pagemap' = [pagemap EXCEPT ![v] = f]
        /\ kpagecount' = [kpagecount EXCEPT ![f] = @ + 1]
        /\ UNCHANGED areas
  BY DEF FaultIn
<1>2. pagemap' \in [Page -> Frames \cup {None}] /\ kpagecount' \in [Frames -> 0 .. MaxCount]
  BY <1>1, PvmAssumption DEF KernelOK
<1>3. ASSUME NEW g \in Frames PROVE Own(pagemap', g) <= kpagecount'[g]
  <2> DEFINE S == {u \in Page : pagemap[u] = g}
             U == {u \in Page : pagemap'[u] = g}
  <2>1. g # None /\ f # None
    BY PvmAssumption DEF None
  <2>2. U = IF g = f THEN S \cup {v} ELSE S
    BY <1>1, <2>1 DEF KernelOK
  <2>3. IsFiniteSet(S) /\ Cardinality(S) \in Nat
    <3>1. S \in SUBSET Page
      OBVIOUS
    <3> QED
      BY <3>1, PageFinite, FS_CardinalityType
  <2>4. v \notin S
    BY <1>1, <2>1
  <2>5. Own(pagemap, g) = Cardinality(S) /\ Own(pagemap', g) = Cardinality(U)
    BY DEF Own
  <2> HIDE DEF S, U
  <2>6. Cardinality(S \cup {v}) = Cardinality(S) + 1
    BY <2>3, <2>4, FS_AddElement
  <2>7. Own(pagemap, g) <= kpagecount[g] /\ kpagecount[g] \in Int
    BY DEF KernelOK
  <2>8. kpagecount'[g] = IF g = f THEN kpagecount[g] + 1 ELSE kpagecount[g]
    BY <1>1 DEF KernelOK
  <2> QED
    BY <2>2, <2>3, <2>5, <2>6, <2>7, <2>8
<1> QED
  BY <1>1, <1>2, <1>3 DEF KernelOK

LEMMA KernelKeeps == KernelOK /\ Kernel => KernelOK'
<1> SUFFICES ASSUME KernelOK, Kernel PROVE KernelOK'
  OBVIOUS
<1>1. CASE FaultIn
  BY <1>1, FaultKeeps
<1>2. CASE SwapOut
  <2>1. PICK v \in Page : Drop({v}) /\ UNCHANGED areas
    BY <1>2 DEF SwapOut
  <2> QED
    BY <2>1, DropKeeps DEF KernelOK
<1>3. CASE NewLayout
  <2>1. Drop(Page \ Pages(areas')) /\ areas' \in Layouts \cup {<<>>}
    BY <1>3 DEF NewLayout
  <2> QED
    BY <2>1, DropKeeps
<1>4. CASE OthersShare
  <2>1. PICK f \in Frames, n \in {-1, 1} :
          /\ kpagecount[f] + n \in Own(pagemap, f) .. MaxCount
          /\ kpagecount' = [kpagecount EXCEPT ![f] = @ + n]
          /\ UNCHANGED <<areas, pagemap>>
    BY <1>4 DEF OthersShare
  <2>2. Own(pagemap, f) \in Nat
    BY OwnNat
  <2> HIDE DEF Own
  <2>3. kpagecount' \in [Frames -> 0 .. MaxCount]
    BY <2>1, <2>2, PvmAssumption DEF KernelOK
  <2>4. \A g \in Frames : Own(pagemap', g) <= kpagecount'[g]
    <3>1. ASSUME NEW g \in Frames PROVE Own(pagemap', g) <= kpagecount'[g]
      <4>1. Own(pagemap', g) = Own(pagemap, g)
        BY <2>1
      <4>2. CASE g = f
        BY <2>1, <2>2, <4>1, <4>2, PvmAssumption DEF KernelOK
      <4>3. CASE g # f
        BY <2>1, <4>1, <4>3 DEF KernelOK
      <4> QED
        BY <4>2, <4>3
    <3> QED
      BY <3>1
  <2> QED
    BY <2>1, <2>3, <2>4 DEF KernelOK
<1> QED
  BY <1>1, <1>2, <1>3, <1>4 DEF Kernel

-------------------------------------------------------------------------------
(* Where the program is *)

\* The command a place in the program belongs to.
Path ==
  /\ cmd \in Commands
  /\ pc \notin {"main", "exit"} => Valid(cmd)
  /\ pc = "count" => Option = "-freefc"
  /\ pc = "entry" => Option \in {"-mapva", "-pte"}
  /\ pc = "range" => Option = "-maprange"
  /\ pc = "flags" => Option = "-frameinfo"
  /\ pc \in {"first", "virtual", "walk"} => Option = "-memused"
  /\ pc = "list" => Listing
  /\ pc = "mark" => Option = "-alltablesize"
  /\ pc \in {"open", "read"} => Listing \/ Option \in {"-memused", "-alltablesize"}

Walking == pc \in {"walk", "list", "mark"}

\* The place in the areas: pages of an area, and for mem_used() the one behind it.
Place ==
  /\ maps \in Layouts \cup {<<>>}
  /\ area \in Nat /\ page \in Nat
  /\ Walking => area \in DOMAIN maps /\ maps[area].start <= page /\ page <= End
  /\ pc \in {"list", "mark"} => page < End
  /\ ~Walking /\ pc \notin {"exit", "failed"} => maps = <<>> /\ area = 1
  /\ pc = "exit" => area > Len(maps)

Lines == printed \in Seq(Nat \X (Frames \cup {None}))

TypeInv == PTypeOK /\ KernelOK /\ Path /\ Place /\ Lines

\* A list of areas and the places in it.
LEMMA AreaFacts ==
  ASSUME NEW list \in Layouts \cup {<<>>}
  PROVE  /\ Len(list) \in Nat /\ DOMAIN list = 1 .. Len(list)
         /\ \A k \in DOMAIN list :
              /\ list[k].start \in Nat /\ list[k].end \in Nat
              /\ list[k].start < list[k].end
              /\ \A j \in DOMAIN list : j < k => list[j].end <= list[k].start
         /\ list # <<>> => 1 \in DOMAIN list
<1> DEFINE Areas == [start : Nat, end : Nat]
<1>1. list \in Seq(Areas)
  <2>1. CASE list \in Layouts
    BY <2>1, PvmAssumption
  <2>2. CASE list = <<>>
    BY <2>2
  <2> QED
    BY <2>1, <2>2
<1>2. Len(list) \in Nat /\ DOMAIN list = 1 .. Len(list)
  BY <1>1
<1>3. \A k \in DOMAIN list : list[k].start \in Nat /\ list[k].end \in Nat
  <2> HIDE DEF Areas
  <2>1. \A k \in DOMAIN list : list[k] \in Areas
    BY <1>1
  <2> QED
    BY <2>1 DEF Areas
<1>4. list # <<>> => 1 \in DOMAIN list
  BY <1>1, <1>2
<1>5. \A k \in DOMAIN list :
        /\ list[k].start < list[k].end
        /\ \A j \in DOMAIN list : j < k => list[j].end <= list[k].start
  <2>1. CASE list = <<>>
    BY <2>1, <1>2
  <2>2. CASE list \in Layouts
    BY <2>2, PvmAssumption
  <2> QED
    BY <2>1, <2>2
<1> QED
  BY <1>2, <1>3, <1>4, <1>5

\* A page of an area is a natural number, and there are finitely many.
LEMMA PagesFinite ==
  ASSUME NEW list \in Layouts \cup {<<>>}
  PROVE  Pages(list) \in SUBSET Nat /\ IsFiniteSet(Pages(list))
<1> DEFINE K == DOMAIN list
           interval == [k \in K |-> list[k].start .. list[k].end - 1]
           all == {interval[k] : k \in K}
<1>1. IsFiniteSet(K)
  BY AreaFacts, FS_Interval
<1>2. interval \in Surjection(K, all)
  BY DEF Surjection
<1>3. IsFiniteSet(all)
  BY <1>1, <1>2, FS_Surjection
<1>4. ASSUME NEW S \in all PROVE IsFiniteSet(S) /\ S \in SUBSET Nat
  <2>1. PICK k \in K : S = list[k].start .. list[k].end - 1
    OBVIOUS
  <2>2. list[k].start \in Nat /\ list[k].end - 1 \in Int
    BY AreaFacts
  <2> QED
    BY <2>1, <2>2, FS_Interval
<1>5. Pages(list) = UNION all
  BY DEF Pages
<1> HIDE DEF all
<1> QED
  BY <1>3, <1>4, <1>5, FS_UNION

\* One step of a walk: the next page, the next area or the end.
LEMMA AdvanceKeeps ==
  ASSUME Place, Walking, NEW last \in {End-1, End}, page <= last, Advance(last),
         UNCHANGED maps, pc \in {"list", "mark"} => last = End - 1
  PROVE  /\ Place'
         /\ pc' \in {pc, "exit"}
         /\ \/ page < last /\ page' = page + 1 /\ area' = area /\ pc' = pc
            \/ /\ page = last /\ area < Len(maps) /\ area' = area + 1 /\ pc' = pc
               /\ page' = maps[area+1].start /\ area + 1 \in DOMAIN maps
            \/ page = last /\ area = Len(maps) /\ pc' = "exit" /\ page' = page
<1>1. /\ Len(maps) \in Nat /\ DOMAIN maps = 1 .. Len(maps) /\ area \in DOMAIN maps
      /\ \A k \in DOMAIN maps : /\ maps[k].start \in Nat /\ maps[k].end \in Nat
                                /\ maps[k].start < maps[k].end
  BY AreaFacts DEF Place
<1>2. page \in Nat /\ last \in Int /\ End \in Nat
  BY <1>1 DEF Place, End
<1>3. CASE page < last
  <2>1. page' = page + 1 /\ area' = area /\ pc' = pc /\ End' = End
    BY <1>3 DEF Advance, End
  <2>2. page + 1 <= End /\ (pc \in {"list", "mark"} => page + 1 < End)
    BY <1>2, <1>3
  <2>3. Place'
    BY <1>1, <1>2, <2>1, <2>2 DEF Place, Walking
  <2> QED
    BY <1>3, <2>1, <2>3
<1>4. CASE page = last /\ area < Len(maps)
  <2>1. area' = area + 1 /\ pc' = pc /\ page' = maps[area+1].start
    BY <1>1, <1>2, <1>4 DEF Advance, NextArea
  <2>2. area + 1 \in DOMAIN maps /\ End' = maps[area+1].end
    BY <1>1, <1>4, <2>1 DEF End
  <2>3. Place'
    BY <1>1, <2>1, <2>2 DEF Place, Walking
  <2> QED
    BY <1>4, <2>1, <2>2, <2>3
<1>5. CASE page = last /\ area = Len(maps)
  <2>1. pc' = "exit" /\ page' = page /\ area' = area + 1
    BY <1>2, <1>5 DEF Advance, NextArea
  <2>2. area' > Len(maps')
    BY <1>1, <1>5, <2>1
  <2>3. Place'
    BY <1>1, <1>2, <2>1, <2>2 DEF Place, Walking
  <2> QED
    BY <1>5, <2>1, <2>3
<1>6. page < last \/ (page = last /\ area < Len(maps)) \/ (page = last /\ area = Len(maps))
  BY <1>1, <1>2
<1> QED
  BY <1>3, <1>4, <1>5, <1>6

LEMMA NextAreaKeeps ==
  ASSUME Place, Walking, NextArea, UNCHANGED maps
  PROVE  /\ Place'
         /\ pc' \in {pc, "exit"}
         /\ \/ /\ area < Len(maps) /\ area' = area + 1 /\ pc' = pc
               /\ page' = maps[area+1].start /\ area + 1 \in DOMAIN maps
            \/ area = Len(maps) /\ pc' = "exit"
<1>1. /\ Len(maps) \in Nat /\ DOMAIN maps = 1 .. Len(maps) /\ area \in DOMAIN maps
      /\ \A k \in DOMAIN maps : /\ maps[k].start \in Nat /\ maps[k].end \in Nat
                                /\ maps[k].start < maps[k].end
  BY AreaFacts DEF Place
<1>2. CASE area < Len(maps)
  <2>1. area' = area + 1 /\ pc' = pc /\ page' = maps[area+1].start
    BY <1>1, <1>2 DEF NextArea
  <2>2. area + 1 \in DOMAIN maps /\ End' = maps[area+1].end
    BY <1>1, <1>2, <2>1 DEF End
  <2>3. Place'
    BY <1>1, <2>1, <2>2 DEF Place, Walking
  <2> QED
    BY <1>2, <2>1, <2>2, <2>3
<1>3. CASE area = Len(maps)
  <2>1. pc' = "exit" /\ page' = page /\ area' = area + 1
    BY <1>3 DEF NextArea
  <2>2. area' > Len(maps')
    BY <1>1, <1>3, <2>1
  <2>3. Place'
    BY <1>1, <2>1, <2>2 DEF Place, Walking
  <2> QED
    BY <1>3, <2>1, <2>3
<1>4. area < Len(maps) \/ area = Len(maps)
  BY <1>1
<1> QED
  BY <1>2, <1>3, <1>4

-------------------------------------------------------------------------------
(* Types *)

LEMMA InitType == PInit => TypeInv
<1> SUFFICES ASSUME PInit PROVE TypeInv
  OBVIOUS
<1>1. KernelOK
  BY DEF PInit, KernelOK
<1>2. \A l \in 2 .. 4 : tables[l] = {}
  BY DEF PInit
<1>3. PTypeOK
  BY <1>1, <1>2 DEF PInit, PTypeOK, KernelOK, None
<1>4. Path /\ Place /\ Lines
  BY DEF PInit, Path, Place, Walking, Lines
<1> QED
  BY <1>1, <1>3, <1>4 DEF TypeInv

LEMMA TypeKernel == TypeInv /\ Kernel => TypeInv'
<1> SUFFICES ASSUME TypeInv, Kernel PROVE TypeInv'
  OBVIOUS
<1>1. KernelOK'
  BY KernelKeeps DEF TypeInv
<1>2. UNCHANGED <<cmd, pc, maps, area, page, frame, tally, tables, printed>>
  BY DEF Kernel, Changes, locals
<1>3. PTypeOK'
  BY <1>1, <1>2 DEF KernelOK, TypeInv, PTypeOK
<1>4. Path' /\ Place' /\ Lines'
  BY <1>2 DEF TypeInv, Path, Valid, Option, Listing, Place, Walking, End, Lines
<1> QED
  BY <1>1, <1>3, <1>4 DEF TypeInv

\* A command that is run has its arguments, which are numbers.
LEMMA Arguments ==
  ASSUME cmd \in Commands, Valid(cmd)
  PROVE  /\ Option \in {"-freefc", "-mapva", "-pte"} => Arg(2) \in Nat
         /\ Option \in {"-freefc", "-mapva", "-pte", "-frameinfo", "-maprange"} => Arg(1) \in Nat
         /\ Option = "-maprange" => Arg(2) \in Nat /\ Arg(3) \in Nat
<1>1. cmd.args \in Seq(Nat)
  BY PvmAssumption
<1>2. Option \in DOMAIN Arity /\ Len(cmd.args) = Arity[Option]
  BY DEF Valid, Option
<1>3. /\ Option \in {"-freefc", "-mapva", "-pte"} => Len(cmd.args) = 2
      /\ Option = "-maprange" => Len(cmd.args) = 3
      /\ Option = "-frameinfo" => Len(cmd.args) = 1
  BY <1>2 DEF Arity
<1> QED
  BY <1>1, <1>3 DEF Arg

\* What every step of the program leaves alone, and what follows from it.
LEMMA TypeProgram ==
  ASSUME TypeInv, Program
  PROVE  KernelOK' /\ Path' /\ Place' /\ pc' \in
           {"count", "flags", "entry", "range", "first", "virtual", "open", "read",
            "walk", "list", "mark", "exit", "failed", "crashed"}
<1> USE DEF TypeInv
<1>1. UNCHANGED <<areas, pagemap, kpagecount, cmd>>
  BY DEF Program, Main, free_fc, frame_info, Open, SumAreas, ReadMaps, WalkPage, CountPage,
         ListPage, MarkPage, MapVa, map_range, kernel
<1>2. KernelOK'
  BY <1>1 DEF KernelOK
<1>3. cmd' = cmd /\ Valid(cmd') = Valid(cmd) /\ Option' = Option /\ Listing' = Listing
  BY <1>1 DEF Option, Listing
<1> HIDE DEF TypeInv
<1>4. CASE Main
  <2>1. pc = "main" /\ maps = <<>> /\ area = 1 /\ UNCHANGED <<maps, area>>
    BY <1>4 DEF Main, TypeInv, Place, Walking
  <2>2. /\ pc' \in {"exit", "count", "first", "flags", "entry", "range", "open"}
        /\ pc' # "exit" => Valid(cmd)
        /\ pc' = "count" => Option = "-freefc"
        /\ pc' = "first" => Option = "-memused"
        /\ pc' = "entry" => Option \in {"-mapva", "-pte"}
        /\ pc' = "flags" => Option = "-frameinfo"
        /\ pc' = "range" => Option = "-maprange"
        /\ pc' = "open" => Option \notin {"-freefc", "-memused", "-frameinfo", "-mapva",
                                          "-pte", "-maprange"}
    BY <1>4 DEF Main
  <2>3. pc' = "open" => Listing \/ Option = "-alltablesize"
    BY <2>2 DEF Valid, Arity, Listing, Option
  <2>4. Path'
    BY <1>1, <1>3, <2>2, <2>3 DEF TypeInv, Path
  <2>5. page' \in Nat
    <3>1. pc' \in {"count", "range"} => Arg(1) \in Nat /\ (pc' = "range" => Arg(2) \in Nat)
      BY <2>2, Arguments DEF TypeInv, Path
    <3>2. page' = CASE pc' = "count" -> Arg(1) [] pc' = "range" -> Arg(2) [] OTHER -> 0
      BY <1>4 DEF Main
    <3> QED
      BY <3>1, <3>2
  <2>6. Place'
    BY <2>1, <2>2, <2>5 DEF TypeInv, Place, Walking
  <2> QED
    BY <1>2, <2>2, <2>4, <2>6
<1>5. CASE free_fc \/ frame_info \/ Open \/ SumAreas \/ MapVa \/ map_range
  <2>1. /\ UNCHANGED <<maps, area>> /\ ~Walking /\ ~Walking' /\ pc # "exit" /\ pc # "failed"
        /\ pc' \in {"count", "range", "virtual", "open", "read", "exit", "failed", "crashed"}
        /\ page' \in {page, page + 1, page + 16}
    BY <1>5 DEF free_fc, frame_info, Open, SumAreas, MapVa, map_range, locals, Walking
  <2>2. Path'
    <3>1. /\ pc \notin {"main", "exit"}
          /\ pc' = "count" => pc = "count"
          /\ pc' = "range" => pc = "range"
          /\ pc' = "virtual" => pc = "first"
          /\ pc' = "open" => pc = "virtual"
          /\ pc' = "read" => pc = "open"
      BY <1>5 DEF free_fc, frame_info, Open, SumAreas, MapVa, map_range
    <3> QED
      BY <1>1, <1>3, <2>1, <3>1 DEF TypeInv, Path
  <2>3. Place'
    BY <2>1 DEF TypeInv, Place
  <2> QED
    BY <1>2, <2>1, <2>2, <2>3
<1>6. CASE ReadMaps
  <2>1. maps' = areas /\ area' = area /\ area = 1 /\ pc = "read"
    BY <1>6 DEF ReadMaps, TypeInv, Place, Walking
  <2>2. areas \in Layouts \cup {<<>>}
    BY DEF TypeInv, KernelOK
  <2>3. CASE areas = <<>>
    <3>1. pc' \in {"exit", "failed"} /\ page' = page
      BY <1>6, <2>3 DEF ReadMaps
    <3>2. area' > Len(maps')
      BY <2>1, <2>3
    <3>3. Place'
      BY <2>1, <2>2, <3>1, <3>2 DEF TypeInv, Place, Walking
    <3> QED
      BY <1>1, <1>2, <1>3, <2>1, <3>1, <3>3 DEF TypeInv, Path
  <2>4. CASE areas # <<>>
    <3>1. /\ pc' \in {"walk", "list", "mark"} /\ page' = areas[1].start
          /\ pc' = "walk" => Option = "-memused"
          /\ pc' = "list" => Listing
          /\ pc' = "mark" => Option # "-memused" /\ ~Listing
      BY <1>6, <2>4 DEF ReadMaps
    <3>2. /\ 1 \in DOMAIN areas /\ areas[1].start \in Nat /\ areas[1].end \in Nat
          /\ areas[1].start < areas[1].end
      BY <2>2, <2>4, AreaFacts
    <3>3. End' = areas[1].end
      BY <2>1 DEF End
    <3>4. Place'
      BY <2>1, <2>2, <3>1, <3>2, <3>3 DEF Place, Walking
    <3>5. Path'
      BY <1>1, <1>3, <2>1, <3>1 DEF TypeInv, Path
    <3> QED
      BY <1>2, <3>1, <3>4, <3>5
  <2> QED
    BY <2>3, <2>4
<1>7. CASE WalkPage \/ CountPage \/ ListPage \/ MarkPage
  <2>1. Walking /\ UNCHANGED maps
    BY <1>7 DEF WalkPage, CountPage, ListPage, MarkPage, Walking
  <2>2. \/ \E last \in {End-1, End} :
             /\ page <= last /\ Advance(last)
             /\ pc \in {"list", "mark"} => last = End - 1
        \/ NextArea
        \/ UNCHANGED <<pc, area, page>>
        \/ pc' = "failed" /\ pc = "walk" /\ UNCHANGED <<area, page>>
    <3>1. page <= End /\ (pc \in {"list", "mark"} => page <= End - 1)
      <4>1. page \in Nat /\ End \in Nat
        BY <2>1, AreaFacts DEF TypeInv, Place, End
      <4> QED
        BY <2>1, <4>1 DEF TypeInv, Place
    <3> QED
      BY <1>7, <3>1 DEF WalkPage, CountPage, ListPage, MarkPage
  <2>3. Place' /\ pc' \in {pc, "exit", "failed"}
    BY <2>1, <2>2, AdvanceKeeps, NextAreaKeeps DEF TypeInv, Place, Walking, End
  <2>4. Path'
    BY <1>1, <1>3, <2>1, <2>3 DEF TypeInv, Path, Walking
  <2> QED
    BY <1>2, <2>1, <2>3, <2>4 DEF Walking
<1> QED
  BY <1>4, <1>5, <1>6, <1>7 DEF Program
LEMMA FrameStep ==
  ASSUME TypeInv, Program
  PROVE  frame' \in Frames \cup {None}
<1>1. PageFrame \in Frames \cup {None}
  BY DEF TypeInv, KernelOK, PageFrame
<1> QED
  BY <1>1 DEF TypeInv, PTypeOK, Program, Main, free_fc, frame_info, Open, SumAreas, ReadMaps,
              WalkPage, CountPage, ListPage, MarkPage, MapVa, map_range, locals

LEMMA TallyStep ==
  ASSUME TypeInv, Program
  PROVE  tally' \in [virtual : Nat, all : Nat, alone : Nat, free : Nat]
<1> DEFINE Tally == [virtual : Nat, all : Nat, alone : Nat, free : Nat]
<1>1. tally \in Tally
  BY DEF TypeInv, PTypeOK
<1>2. CASE free_fc
  <2>1. \/ \E n \in {0, 1} : tally' = [tally EXCEPT !.free = @ + n]
        \/ UNCHANGED tally
    BY <1>2 DEF free_fc
  <2> QED
    BY <1>1, <2>1
<1>3. CASE SumAreas
  <2>1. tally' = [tally EXCEPT !.virtual = Cardinality(Pages(areas))]
    BY <1>3 DEF SumAreas
  <2>2. Cardinality(Pages(areas)) \in Nat
    BY PagesFinite, FS_CardinalityType DEF TypeInv, KernelOK
  <2> QED
    BY <1>1, <2>1, <2>2
<1>4. CASE CountPage
  <2>1. \/ \E m \in {0, 1}, n \in {0, 1} :
             tally' = [tally EXCEPT !.alone = @ + m, !.all = @ + n]
        \/ UNCHANGED tally
    BY <1>4 DEF CountPage
  <2>2. ASSUME NEW m \in {0, 1}, NEW n \in {0, 1},
               tally' = [tally EXCEPT !.alone = @ + m, !.all = @ + n]
        PROVE  tally' \in Tally
    <3>1. [tally EXCEPT !.alone = @ + m] \in Tally
      BY <1>1
    <3>2. tally' = [[tally EXCEPT !.alone = @ + m] EXCEPT !.all = tally.all + n]
      BY <1>1, <2>2
    <3>3. tally.all + n \in Nat
      BY <1>1
    <3> QED
      BY <3>1, <3>2, <3>3
  <2> QED
    BY <1>1, <2>1, <2>2
<1>5. CASE ~(free_fc \/ SumAreas \/ CountPage)
  <2>1. UNCHANGED tally
    BY <1>5 DEF Program, Main, frame_info, Open, ReadMaps, WalkPage, ListPage, MarkPage,
                MapVa, map_range, locals
  <2> QED
    BY <1>1, <2>1
<1> QED
  BY <1>2, <1>3, <1>4, <1>5

LEMMA TablesStep ==
  ASSUME TypeInv, Program
  PROVE  \A l \in 2 .. 4 : tables'[l] \subseteq 0 .. Slots(l)-1
<1>1. \A l \in 2 .. 4 : tables[l] \subseteq 0 .. Slots(l)-1
  BY DEF TypeInv, PTypeOK
<1>2. CASE MarkPage
  <2> SUFFICES ASSUME NEW l \in 2 .. 4 PROVE tables'[l] \subseteq 0 .. Slots(l)-1
    OBVIOUS
  <2>1. tables'[l] = tables[l] \cup {TableIndex(l, page)}
    BY <1>2 DEF MarkPage
  <2>2. TableIndex(l, page) \in 0 .. Slots(l)-1
    BY IndexInArray DEF TypeInv, Place
  <2> QED
    BY <1>1, <2>1, <2>2
<1>3. CASE ~MarkPage
  <2>1. UNCHANGED tables
    BY <1>3 DEF Program, Main, free_fc, frame_info, Open, SumAreas, ReadMaps, WalkPage,
                CountPage, ListPage, MapVa, map_range, locals
  <2> QED
    BY <1>1, <2>1
<1> QED
  BY <1>2, <1>3

\* A step prints nothing, or one line of a page and a frame.
LEMMA LinesStep ==
  ASSUME TypeInv, Program
  PROVE  Lines'
<1> DEFINE Line == Nat \X (Frames \cup {None})
<1>1. printed \in Seq(Line) /\ page \in Nat
  BY DEF TypeInv, Lines, Place
<1>2. ASSUME NEW v \in Nat, NEW f \in Frames \cup {None}, PrintLine(<<v, f>>)
      PROVE  Lines'
  <2>1. <<v, f>> \in Line
    OBVIOUS
  <2> HIDE DEF Line
  <2>2. Append(printed, <<v, f>>) \in Seq(Line)
    BY <1>1, <2>1
  <2> QED
    BY <1>2, <2>2 DEF PrintLine, Lines, Line
<1>3. ASSUME NEW offset \in Nat, NEW before \in SUBSET (Frames \cup {None})
      PROVE  AtByte(offset, before) \subseteq Frames \cup {None}
  BY DEF AtByte, TypeInv, KernelOK
<1>4. CASE ListPage
  <2>1. PageFrame \in Frames \cup {None}
    BY DEF TypeInv, KernelOK, PageFrame
  <2>2. PrintLine(<<page, PageFrame>>) \/ UNCHANGED printed
    BY <1>4 DEF ListPage
  <2> QED
    BY <1>1, <1>2, <2>1, <2>2 DEF Lines
<1>5. CASE MapVa
  <2>1. Arg(2) \in Nat
    BY <1>5, Arguments DEF MapVa, TypeInv, Path
  <2>2. PICK f \in AtByte(Arg(2), Frames \cup {None}) : PrintLine(<<Arg(2), f>>)
    BY <1>5 DEF MapVa
  <2>3. f \in Frames \cup {None}
    BY <1>3, <2>1, <2>2
  <2> QED
    BY <1>2, <2>1, <2>2, <2>3
<1>6. CASE map_range /\ page <= Arg(3)
  <2> DEFINE n      == Len(printed)
             before == IF printed = <<>> THEN Frames \cup {None} ELSE {printed[n][2]}
             offset == Arg(2) + 8 * n
  <2>1. n \in Nat /\ offset \in Nat
    BY <1>1, <1>6, Arguments DEF map_range, TypeInv, Path
  <2>2. before \in SUBSET (Frames \cup {None})
    <3>1. CASE printed # <<>>
      <4>1. printed[n] \in Line
        BY <1>1, <3>1
      <4>2. printed[n][2] \in Frames \cup {None}
        BY <4>1
      <4> QED
        BY <4>2
    <3> QED
      BY <3>1
  <2>3. PICK f \in AtByte(offset, before) : PrintLine(<<page, f>>)
    BY <1>6 DEF map_range
  <2> HIDE DEF offset, before
  <2>4. f \in Frames \cup {None}
    BY <1>3, <2>1, <2>2, <2>3
  <2> QED
    BY <1>1, <1>2, <2>3, <2>4
<1>7. CASE ~ListPage /\ ~MapVa /\ ~(map_range /\ page <= Arg(3))
  <2>1. UNCHANGED printed
    BY <1>7 DEF Program, Main, free_fc, frame_info, Open, SumAreas, ReadMaps, WalkPage,
                CountPage, MarkPage, map_range, locals
  <2> QED
    BY <1>1, <2>1 DEF Lines
<1> QED
  BY <1>4, <1>5, <1>6, <1>7

LEMMA StepType == TypeInv /\ [PNext]_pvars => TypeInv'
<1> SUFFICES ASSUME TypeInv, [PNext]_pvars PROVE TypeInv'
  OBVIOUS
<1>1. CASE UNCHANGED pvars
  BY <1>1 DEF pvars, kernel, locals, TypeInv, PTypeOK, KernelOK, Path, Valid, Option, Listing,
              Place, Walking, End, Lines
<1>2. CASE Kernel
  BY <1>2, TypeKernel
<1>3. CASE Program
  <2>1. KernelOK' /\ Path' /\ Place' /\ Lines'
    BY <1>3, TypeProgram, LinesStep
  <2>2. \A k \in DOMAIN printed' : printed'[k][2] \in Frames \cup {None}
    <3> DEFINE Line == Nat \X (Frames \cup {None})
    <3>1. printed' \in Seq(Line)
      BY <2>1 DEF Lines
    <3> SUFFICES ASSUME NEW k \in DOMAIN printed' PROVE printed'[k][2] \in Frames \cup {None}
      OBVIOUS
    <3> HIDE DEF Line
    <3>2. printed'[k] \in Line
      BY <3>1
    <3> QED
      BY <3>2 DEF Line
  <2>3. PTypeOK'
    BY <1>3, <2>1, <2>2, TypeProgram, FrameStep, TallyStep, TablesStep DEF PTypeOK, KernelOK
  <2> QED
    BY <2>1, <2>3 DEF TypeInv
<1> QED
  BY <1>1, <1>2, <1>3 DEF PNext

\* Types, among them that no entry is marked outside the arrays and that no count of
\* the kernel's falls below 0.
THEOREM PvmTypes == PSpec => []PTypeOK
<1>1. TypeInv => PTypeOK
  BY DEF TypeInv
<1> QED
  BY <1>1, InitType, StepType, PTL DEF PSpec
-------------------------------------------------------------------------------
(* The walks *)

\* The pages of the areas read that the walk has passed.
Passed == {v \in Pages(maps) : v < page \/ area > Len(maps)}

\* The areas come in order, so the walk passes a page when it leaves it, and no
\* other.
LEMMA PassedStep ==
  ASSUME Place, Walking, NEW last \in {End-1, End}, page <= last, Advance(last),
         UNCHANGED maps, pc \in {"list", "mark"} => last = End - 1
  PROVE  /\ page = End => Passed' = Passed
         /\ page < End => /\ Passed' = Passed \cup {page}
                          /\ page \notin Passed /\ page \in Pages(maps)
<1>1. /\ Len(maps) \in Nat /\ DOMAIN maps = 1 .. Len(maps) /\ area \in DOMAIN maps
      /\ \A k \in DOMAIN maps :
           /\ maps[k].start \in Nat /\ maps[k].end \in Nat
           /\ maps[k].start < maps[k].end
           /\ \A j \in DOMAIN maps : j < k => maps[j].end <= maps[k].start
      /\ page \in Nat /\ maps[area].start <= page /\ End = maps[area].end
  BY AreaFacts DEF Place, End
<1>2. Pages(maps') = Pages(maps) /\ Len(maps') = Len(maps)
  OBVIOUS
<1>3. Passed = {v \in Pages(maps) : v < page} /\ area <= Len(maps)
  BY <1>1 DEF Passed
<1>4. \/ page < last /\ page' = page + 1 /\ area' = area
      \/ /\ page = last /\ area < Len(maps) /\ area' = area + 1
         /\ page' = maps[area+1].start /\ area + 1 \in DOMAIN maps
      \/ page = last /\ area = Len(maps) /\ area' = area + 1
  <2>1. page = last /\ area = Len(maps) => area' = area + 1
    BY <1>1 DEF Advance, NextArea
  <2> QED
    BY <2>1, AdvanceKeeps
<1>5. ASSUME NEW v \in Pages(maps), page \in {End-1, End}
      PROVE  /\ area < Len(maps) => (v < maps[area+1].start <=> v < End)
             /\ area = Len(maps) => v < End
  <2>1. PICK k \in DOMAIN maps : v \in maps[k].start .. maps[k].end - 1
    BY DEF Pages
  <2>2. v \in Nat /\ maps[k].start <= v /\ v < maps[k].end
    BY <1>1, <2>1
  <2>3. CASE k < area
    <3>1. maps[k].end <= maps[area].start
      BY <1>1, <2>3
    <3>2. v < End
      BY <1>1, <2>2, <3>1
    <3>3. area < Len(maps) => area + 1 \in DOMAIN maps /\ End <= maps[area+1].start
      BY <1>1
    <3> QED
      BY <1>1, <2>2, <3>2, <3>3
  <2>4. CASE k = area
    <3>1. area < Len(maps) => area + 1 \in DOMAIN maps /\ End <= maps[area+1].start
      BY <1>1
    <3> QED
      BY <1>1, <2>2, <2>4, <3>1
  <2>5. CASE k > area
    <3>1. area + 1 \in DOMAIN maps /\ End <= maps[k].start /\ area < Len(maps)
      BY <1>1, <2>5
    <3>2. maps[area+1].start <= maps[k].start
      <4>1. CASE k = area + 1
        BY <4>1, <1>1
      <4>2. CASE area + 1 < k
        BY <4>2, <1>1, <3>1
      <4> QED
        BY <4>1, <4>2, <1>1, <2>5
    <3> QED
      BY <1>1, <2>2, <3>1, <3>2
  <2> QED
    BY <1>1, <2>3, <2>4, <2>5
<1>6. CASE page < End
  <2>1. page \in Pages(maps) /\ page \notin Passed
    <3>1. page \in maps[area].start .. maps[area].end - 1
      BY <1>1, <1>6
    <3> QED
      BY <1>1, <1>3, <3>1 DEF Pages
  <2>2. Pages(maps) \subseteq Nat
    BY PagesFinite DEF Place
  <2>3. Passed' = {v \in Pages(maps) : v <= page}
    <3>1. CASE page < last
      <4>1. Passed' = {v \in Pages(maps) : v < page + 1}
        BY <1>1, <1>2, <1>3, <1>4, <3>1 DEF Passed
      <4> QED
        BY <1>1, <2>2, <4>1
    <3>2. CASE page = last
      <4>1. page = End - 1
        BY <1>1, <1>6, <3>2
      <4>2. CASE area < Len(maps)
        <5>1. Passed' = {v \in Pages(maps) : v < maps[area+1].start}
          <6>1. page' = maps[area+1].start /\ area' = area + 1
            BY <1>1, <1>4, <3>2, <4>2
          <6>2. ~(area' > Len(maps'))
            BY <1>1, <1>2, <4>2, <6>1
          <6> QED
            BY <1>2, <6>1, <6>2 DEF Passed
        <5>2. ASSUME NEW v \in Pages(maps)
              PROVE  v < maps[area+1].start <=> v <= page
          <6>1. v < maps[area+1].start <=> v < End
            BY <1>5, <4>1, <4>2
          <6> QED
            BY <1>1, <2>2, <4>1, <6>1
        <5> QED
          BY <5>1, <5>2
      <4>3. CASE area = Len(maps)
        <5>1. Passed' = Pages(maps)
          BY <1>1, <1>2, <1>4, <3>2, <4>3 DEF Passed
        <5>2. ASSUME NEW v \in Pages(maps) PROVE v <= page
          <6>1. v < End
            BY <1>5, <4>1, <4>3
          <6> QED
            BY <1>1, <2>2, <4>1, <6>1
        <5> QED
          BY <5>1, <5>2
      <4> QED
        BY <1>3, <4>2, <4>3, <1>1
    <3> QED
      BY <1>1, <3>1, <3>2
  <2>4. ASSUME NEW v \in Pages(maps) PROVE v <= page <=> v < page \/ v = page
    BY <1>1, <2>2
  <2>5. Passed' = Passed \cup {page}
    BY <1>3, <2>1, <2>3, <2>4
  <2> QED
    BY <1>1, <1>6, <2>1, <2>5
<1>7. CASE page = End
  <2>1. page = last /\ page \in {End-1, End}
    BY <1>1, <1>7
  <2>2. Passed \subseteq Pages(maps)
    BY DEF Passed
  <2>3. CASE area < Len(maps)
    <3>1. page' = maps[area+1].start /\ ~(area' > Len(maps'))
      BY <1>1, <1>2, <1>4, <2>1, <2>3
    <3>2. Passed' = {v \in Pages(maps) : v < maps[area+1].start}
      BY <1>2, <3>1 DEF Passed
    <3>3. \A v \in Pages(maps) : v < maps[area+1].start <=> v < page
      BY <1>5, <1>7, <2>1, <2>3
    <3>4. Passed' = Passed
      BY <1>3, <3>2, <3>3
    <3> QED
      BY <1>1, <1>7, <3>4
  <2>4. CASE area = Len(maps)
    <3>1. area' > Len(maps')
      BY <1>1, <1>2, <1>4, <2>1, <2>4
    <3>2. Passed' = Pages(maps)
      BY <1>2, <3>1 DEF Passed
    <3>3. \A v \in Pages(maps) : v < page
      BY <1>5, <1>7, <2>1, <2>4
    <3>4. Passed' = Passed
      BY <1>3, <3>2, <3>3
    <3> QED
      BY <1>1, <1>7, <3>4
  <2> QED
    BY <1>1, <1>3, <2>3, <2>4
<1>8. page < End \/ page = End
  BY <1>1
<1> QED
  BY <1>6, <1>7, <1>8
-------------------------------------------------------------------------------
(* mem_used(): no page is counted twice *)

CountInv == Option = "-memused" => tally.all <= Cardinality(Passed)

LEMMA PassedFinite ==
  ASSUME Place
  PROVE  IsFiniteSet(Passed) /\ Cardinality(Passed) \in Nat
<1>1. Passed \in SUBSET Pages(maps) /\ IsFiniteSet(Pages(maps))
  BY PagesFinite DEF Place, Passed
<1> QED
  BY <1>1, FS_Subset, FS_CardinalityType

\* Nothing is passed before areas are read.
LEMMA NothingPassed ==
  ASSUME Place, ~Walking, pc \notin {"exit", "failed"}
  PROVE  Passed = {} /\ Cardinality(Passed) = 0
<1>1. Pages(maps) = {}
  BY DEF Place, Pages
<1> QED
  BY <1>1, FS_EmptySet DEF Passed

LEMMA InitCount == PInit => CountInv
<1> SUFFICES ASSUME PInit PROVE tally.all <= Cardinality(Passed)
  BY DEF CountInv
<1>1. TypeInv
  BY InitType
<1>2. Cardinality(Passed) = 0
  BY <1>1, NothingPassed DEF PInit, TypeInv, Walking
<1> QED
  BY <1>2 DEF PInit

LEMMA StepCount == TypeInv /\ TypeInv' /\ CountInv /\ [PNext]_pvars => CountInv'
<1> SUFFICES ASSUME TypeInv, TypeInv', CountInv, [PNext]_pvars, Option' = "-memused"
             PROVE  tally'.all <= Cardinality(Passed')
  BY DEF CountInv
<1>1. Option' = Option
  BY DEF PNext, Kernel, Changes, Program, Main, free_fc, frame_info, Open, SumAreas, ReadMaps,
         WalkPage, CountPage, ListPage, MarkPage, MapVa, map_range, pvars, Option
<1>2. /\ tally.all \in Nat /\ tally'.all \in Nat /\ tally.all <= Cardinality(Passed)
      /\ IsFiniteSet(Passed) /\ IsFiniteSet(Passed')
      /\ Cardinality(Passed) \in Nat /\ Cardinality(Passed') \in Nat
  <2>1. Place /\ Place' /\ tally.all \in Nat /\ tally'.all \in Nat
    BY DEF TypeInv, PTypeOK
  <2>2. (IsFiniteSet(Passed) /\ Cardinality(Passed) \in Nat)'
    BY <2>1, PassedFinite, PTL
  <2> QED
    BY <1>1, <2>1, <2>2, PassedFinite DEF CountInv
<1>3. SUFFICES Cardinality(Passed) + (tally'.all - tally.all) <= Cardinality(Passed')
  BY <1>2
<1>4. ASSUME Passed \subseteq Passed', tally'.all = tally.all
      PROVE  Cardinality(Passed) + (tally'.all - tally.all) <= Cardinality(Passed')
  <2>1. Cardinality(Passed) <= Cardinality(Passed')
    BY <1>2, <1>4, FS_Subset
  <2> QED
    BY <1>2, <1>4, <2>1
<1>5. CASE UNCHANGED <<maps, page, area, tally>>
  <2>1. Passed' = Passed
    BY <1>5 DEF Passed
  <2> QED
    BY <1>4, <1>5, <2>1
<1>6. CASE ~Walking /\ pc \notin {"exit", "failed"} /\ tally'.all = tally.all
  BY <1>4, <1>6, NothingPassed DEF TypeInv
<1>7. CASE WalkPage \/ CountPage
  <2>1. pc = "walk" /\ UNCHANGED maps /\ Walking /\ Place /\ page <= End /\ page \in Nat /\ End \in Nat
    <3>1. pc = "walk" /\ UNCHANGED maps
      BY <1>7 DEF WalkPage, CountPage
    <3> QED
      BY <3>1, AreaFacts DEF TypeInv, Place, Walking, End
  <2>2. CASE UNCHANGED <<area, page, tally>>
    BY <1>5, <2>1, <2>2
  <2>3. ASSUME Advance(End)
        PROVE  /\ Passed \subseteq Passed'
               /\ page < End => Passed' = Passed \cup {page} /\ page \notin Passed
    BY <2>1, <2>3, PassedStep
  <2>4. CASE Advance(End) /\ tally'.all = tally.all
    BY <1>4, <2>3, <2>4
  <2>5. CASE Advance(End) /\ page < End /\ tally'.all = tally.all + 1
    <3>1. Cardinality(Passed') = Cardinality(Passed) + 1
      BY <1>2, <2>3, <2>5, FS_AddElement
    <3> QED
      BY <1>2, <2>5, <3>1
  <2>6. CASE CountPage /\ ~UNCHANGED <<area, page, tally>>
    <3> DEFINE size == IF page = End THEN 0 ELSE 1
               n    == kpagecount[frame]
    <3>1. /\ Advance(End)
          /\ tally' = [tally EXCEPT !.alone = @ + IF n = 1 THEN size ELSE 0,
                                    !.all = @ + IF n >= 1 THEN size ELSE 0]
      BY <2>6 DEF CountPage
    <3>2. tally'.all = tally.all + IF n >= 1 THEN size ELSE 0
      <4>1. tally \in [virtual : Nat, all : Nat, alone : Nat, free : Nat]
        BY DEF TypeInv, PTypeOK
      <4> HIDE DEF n, size
      <4> QED
        BY <3>1, <4>1
    <3>3. tally'.all = tally.all \/ (page < End /\ tally'.all = tally.all + 1)
      BY <1>2, <2>1, <3>2
    <3> QED
      BY <2>4, <2>5, <3>1, <3>3
  <2>7. CASE WalkPage /\ ~UNCHANGED <<area, page, tally>>
    BY <2>4, <2>7 DEF WalkPage
  <2> QED
    BY <1>7, <2>2, <2>6, <2>7
<1>8. CASE UNCHANGED pvars \/ Kernel
  BY <1>5, <1>8 DEF pvars, locals, Kernel, Changes
<1>9. CASE Program
  <2>1. CASE Main \/ free_fc \/ frame_info \/ Open \/ SumAreas \/ ReadMaps \/ MapVa \/ map_range
    <3>1. ~Walking /\ pc \notin {"exit", "failed"}
      BY <2>1 DEF Main, free_fc, frame_info, Open, SumAreas, ReadMaps, MapVa, map_range, Walking
    <3>2. tally'.all = tally.all
      <4>1. tally \in [virtual : Nat, all : Nat, alone : Nat, free : Nat]
        BY DEF TypeInv, PTypeOK
      <4>2. CASE free_fc
        <5>1. UNCHANGED tally \/ \E k \in {0, 1} : tally' = [tally EXCEPT !.free = @ + k]
          BY <4>2 DEF free_fc
        <5> QED
          BY <4>1, <5>1
      <4>3. CASE SumAreas
        BY <4>1, <4>3 DEF SumAreas
      <4> QED
        BY <2>1, <4>2, <4>3 DEF Main, frame_info, Open, ReadMaps, MapVa, map_range, locals
    <3> QED
      BY <1>6, <3>1, <3>2
  <2>2. ~ListPage /\ ~MarkPage
    BY <1>1 DEF ListPage, MarkPage, TypeInv, Path, Listing
  <2> QED
    BY <1>7, <1>9, <2>1, <2>2 DEF Program
<1> QED
  BY <1>8, <1>9 DEF PNext

\* Whatever the process does between two reads of pagemap and kpagecount, mem_used()
\* counts no page of the areas twice, nor one it has not reached.
THEOREM NoPageTwice == PSpec => []WithinAreas
<1>1. TypeInv /\ CountInv => WithinAreas
  <2> SUFFICES ASSUME TypeInv, CountInv, Option = "-memused"
               PROVE  tally.all <= Cardinality({v \in Pages(maps) : v <= page \/ area > Len(maps)})
    BY DEF WithinAreas
  <2> DEFINE Reached == {v \in Pages(maps) : v <= page \/ area > Len(maps)}
  <2>1. Passed \in SUBSET Reached /\ IsFiniteSet(Reached)
    <3>1. Pages(maps) \in SUBSET Nat /\ IsFiniteSet(Pages(maps)) /\ page \in Nat
      BY PagesFinite DEF TypeInv, Place
    <3>2. Reached \in SUBSET Pages(maps)
      OBVIOUS
    <3> QED
      BY <3>1, <3>2, FS_Subset DEF Passed
  <2> HIDE DEF Reached
  <2>2. Cardinality(Passed) <= Cardinality(Reached)
    BY <2>1, FS_Subset
  <2>3. Cardinality(Passed) \in Nat /\ Cardinality(Reached) \in Nat /\ tally.all \in Nat
    BY <2>1, PassedFinite, FS_CardinalityType DEF TypeInv, PTypeOK
  <2>4. tally.all <= Cardinality(Reached)
    BY <2>2, <2>3 DEF CountInv
  <2> QED
    BY <2>4 DEF Reached
<1> QED
  BY <1>1, InitType, StepType, InitCount, StepCount, PTL DEF PSpec
-------------------------------------------------------------------------------
(* map(): the pages are listed in order *)

OrderInv ==
  Listing =>
    /\ \A k \in DOMAIN printed :
         /\ printed[k][1] \in Pages(maps)
         /\ pc = "list" => printed[k][1] < page
         /\ k > 1 => printed[k-1][1] < printed[k][1]
    /\ pc \notin {"list", "exit", "failed"} => printed = <<>>

LEMMA InitOrder == PInit => OrderInv
BY DEF PInit, OrderInv

LEMMA StepOrder == TypeInv /\ TypeInv' /\ OrderInv /\ [PNext]_pvars => OrderInv'
<1> SUFFICES ASSUME TypeInv, TypeInv', OrderInv, [PNext]_pvars, Listing'
             PROVE  OrderInv'
  BY DEF OrderInv
<1>1. Listing
  BY DEF PNext, Kernel, Changes, Program, Main, free_fc, frame_info, Open, SumAreas, ReadMaps,
         WalkPage, CountPage, ListPage, MarkPage, MapVa, map_range, pvars, Option, Listing
<1>2. CASE UNCHANGED <<maps, page, printed, pc>>
  BY <1>1, <1>2 DEF OrderInv
<1>3. CASE printed = <<>> /\ printed' = <<>>
  BY <1>1, <1>3 DEF OrderInv
<1>4. CASE ListPage
  <2>1. /\ pc = "list" /\ UNCHANGED maps /\ Walking /\ Place /\ area \in DOMAIN maps
        /\ maps[area].start <= page /\ page < End /\ page \in Nat
        /\ Len(maps) \in Nat /\ DOMAIN maps = 1 .. Len(maps)
        /\ End \in Nat /\ maps[area].start \in Nat
        /\ area + 1 \in DOMAIN maps => /\ End <= maps[area+1].start
                                       /\ maps[area+1].start \in Nat
    <3>1. pc = "list" /\ UNCHANGED maps
      BY <1>4 DEF ListPage
    <3>2. /\ area \in DOMAIN maps /\ maps[area].start <= page /\ page < End
          /\ maps \in Layouts \cup {<<>>} /\ page \in Nat
      BY <3>1 DEF TypeInv, Place, Walking
    <3> QED
      BY <3>1, <3>2, AreaFacts DEF TypeInv, Walking, End
  <2>2. pc' = "list" => page' > page
    <3>1. CASE NextArea
      <4>1. \/ page' = maps[area+1].start /\ area + 1 \in DOMAIN maps
            \/ pc' = "exit"
        BY <2>1, <3>1, NextAreaKeeps
      <4> QED
        BY <2>1, <4>1
    <3>2. CASE Advance(End - 1)
      <4>1. \/ page' = page + 1
            \/ page' = maps[area+1].start /\ area + 1 \in DOMAIN maps
            \/ pc' = "exit"
        BY <2>1, <3>2, AdvanceKeeps
      <4> QED
        BY <2>1, <4>1
    <3> QED
      BY <1>4, <3>1, <3>2 DEF ListPage
  <2>3. page \in Pages(maps)
    <3>1. page \in maps[area].start .. maps[area].end - 1
      BY <2>1 DEF End
    <3> QED
      BY <2>1, <3>1 DEF Pages
  <2>4. pc' \in {"list", "exit"} /\ page' \in Nat
    <3>1. page' \in Nat
      BY DEF TypeInv, Place
    <3>2. CASE NextArea
      BY <2>1, <3>1, <3>2, NextAreaKeeps
    <3>3. CASE Advance(End - 1)
      <4>1. page <= End - 1
        BY <2>1
      <4>2. pc' \in {pc, "exit"}
        BY <2>1, <3>3, <4>1, AdvanceKeeps
      <4> QED
        BY <2>1, <3>1, <4>2
    <3> QED
      BY <1>4, <3>2, <3>3 DEF ListPage
  <2> DEFINE Line == Nat \X (Frames \cup {None})
             n    == Len(printed)
  <2>5. printed \in Seq(Line) /\ n \in Nat /\ DOMAIN printed = 1 .. n
    BY DEF TypeInv, Lines
  <2>6. \A k \in DOMAIN printed : printed[k][1] \in Nat
    <3> SUFFICES ASSUME NEW k \in DOMAIN printed PROVE printed[k][1] \in Nat
      OBVIOUS
    <3> HIDE DEF Line
    <3>1. printed[k] \in Line
      BY <2>5
    <3> QED
      BY <3>1 DEF Line
  <2>7. \A k \in DOMAIN printed :
          /\ printed[k][1] \in Pages(maps) /\ printed[k][1] < page
          /\ k > 1 => printed[k-1][1] < printed[k][1]
    BY <1>1, <2>1 DEF OrderInv
  <2>8. CASE UNCHANGED printed
    <3>1. \A k \in DOMAIN printed : pc' = "list" => printed[k][1] < page'
      BY <2>1, <2>2, <2>4, <2>6, <2>7
    <3> QED
      BY <2>1, <2>4, <2>7, <2>8, <3>1 DEF OrderInv
  <2>9. CASE PrintLine(<<page, PageFrame>>)
    <3>1. /\ DOMAIN printed' = 1 .. n+1
          /\ \A k \in 1 .. n : printed'[k] = printed[k]
          /\ printed'[n+1] = <<page, PageFrame>>
      <4>1. <<page, PageFrame>> \in Line
        BY <2>1 DEF TypeInv, KernelOK, PageFrame
      <4>2. printed' = Append(printed, <<page, PageFrame>>)
        BY <2>9 DEF PrintLine
      <4> HIDE DEF Line
      <4> QED
        BY <2>5, <4>1, <4>2
    <3>2. ASSUME NEW k \in DOMAIN printed'
          PROVE  /\ printed'[k][1] \in Pages(maps)
                 /\ pc' = "list" => printed'[k][1] < page'
                 /\ k > 1 => printed'[k-1][1] < printed'[k][1]
      <4>1. CASE k = n+1
        <5>1. printed'[k][1] = page
          BY <3>1, <4>1
        <5>2. k > 1 => k-1 \in 1 .. n /\ printed'[k-1][1] < page
          BY <2>5, <2>7, <3>1, <4>1
        <5> QED
          BY <2>1, <2>2, <2>3, <2>4, <5>1, <5>2
      <4>2. CASE k \in 1 .. n
        <5>1. printed'[k] = printed[k] /\ k \in DOMAIN printed
          BY <2>5, <3>1, <4>2
        <5>2. k > 1 => printed'[k-1] = printed[k-1]
          BY <2>5, <3>1, <4>2
        <5>3. pc' = "list" => printed[k][1] < page'
          BY <2>1, <2>2, <2>4, <2>6, <2>7, <5>1
        <5> QED
          BY <2>7, <5>1, <5>2, <5>3
      <4> QED
        BY <2>5, <3>1, <4>1, <4>2
    <3> QED
      BY <2>1, <2>4, <3>2 DEF OrderInv
  <2> QED
    BY <1>4, <2>8, <2>9 DEF ListPage
<1>5. CASE UNCHANGED pvars \/ Kernel
  BY <1>2, <1>5 DEF pvars, locals, Kernel, Changes
<1>6. CASE Main \/ Open \/ ReadMaps
  BY <1>1, <1>3, <1>6 DEF Main, Open, ReadMaps, OrderInv, locals
<1>7. ~free_fc /\ ~frame_info /\ ~SumAreas /\ ~WalkPage /\ ~CountPage /\ ~MarkPage
        /\ ~MapVa /\ ~map_range
  BY <1>1 DEF free_fc, frame_info, SumAreas, WalkPage, CountPage, MarkPage, MapVa, map_range,
              TypeInv, Path, Listing
<1> QED
  BY <1>4, <1>5, <1>6, <1>7 DEF PNext, Program
\* Whatever the process does between two reads of pagemap, no page is listed twice,
\* out of order or from outside the areas that were read.
THEOREM EachPageOnce == PSpec => []ListedInOrder
<1>1. OrderInv => ListedInOrder
  BY DEF OrderInv, ListedInOrder
<1> QED
  BY <1>1, InitType, StepType, InitOrder, StepOrder, PTL DEF PSpec

-------------------------------------------------------------------------------
(* all_table_size(): the marks are the tables of the pages passed *)

TablesInv ==
  Option = "-alltablesize" =>
    \A l \in 2 .. 4 : tables[l] = {TableIndex(l, v) : v \in Passed}

\* A walk starts before the first page.
LEMMA NothingYet ==
  ASSUME TypeInv, Main \/ Open \/ SumAreas \/ ReadMaps
  PROVE  Passed = {} /\ Passed' = {}
<1>1. ~Walking /\ pc \notin {"exit", "failed"}
  BY DEF Main, Open, SumAreas, ReadMaps, Walking
<1>2. Passed = {}
  BY <1>1, NothingPassed DEF TypeInv
<1>3. CASE Main \/ Open \/ SumAreas
  <2>1. UNCHANGED <<maps, area>> /\ maps = <<>>
    BY <1>1, <1>3 DEF Main, Open, SumAreas, locals, TypeInv, Place
  <2>2. Passed' = {}
    BY <2>1 DEF Passed, Pages
  <2> QED
    BY <1>2, <2>2
<1>4. CASE ReadMaps
  <2>1. maps' = areas /\ area' = 1 /\ areas \in Layouts \cup {<<>>}
    BY <1>1, <1>4 DEF ReadMaps, TypeInv, Place, KernelOK
  <2>2. CASE areas = <<>>
    <3>1. Passed' = {}
      BY <2>1, <2>2 DEF Passed, Pages
    <3> QED
      BY <1>2, <3>1
  <2>3. CASE areas # <<>>
    <3>1. page' = areas[1].start
      BY <1>4, <2>3 DEF ReadMaps
    <3>2. /\ 1 \in DOMAIN areas /\ Len(areas) \in Nat /\ DOMAIN areas = 1 .. Len(areas)
          /\ \A k \in DOMAIN areas :
               /\ areas[k].start \in Nat /\ areas[k].end \in Nat
               /\ areas[k].start < areas[k].end
               /\ \A j \in DOMAIN areas : j < k => areas[j].end <= areas[k].start
      BY <2>1, <2>3, AreaFacts
    <3>3. ASSUME NEW v \in Pages(areas) PROVE ~(v < areas[1].start)
      <4>1. PICK k \in DOMAIN areas : v \in areas[k].start .. areas[k].end - 1
        BY DEF Pages
      <4>2. areas[1].start <= areas[k].start
        BY <3>2
      <4> QED
        BY <3>2, <4>1, <4>2
    <3>4. Passed' = {}
      BY <2>1, <3>1, <3>2, <3>3 DEF Passed
    <3> QED
      BY <1>2, <3>4
  <2> QED
    BY <2>2, <2>3
<1> QED
  BY <1>3, <1>4

LEMMA InitTables == PInit => TablesInv
<1> SUFFICES ASSUME PInit, NEW l \in 2 .. 4 PROVE tables[l] = {TableIndex(l, v) : v \in Passed}
  BY DEF TablesInv
<1>1. TypeInv
  BY InitType
<1>2. Passed = {}
  BY <1>1, NothingPassed DEF PInit, TypeInv, Walking
<1>3. tables[l] = {}
  BY DEF PInit
<1> QED
  BY <1>2, <1>3

LEMMA StepTables == TypeInv /\ TypeInv' /\ TablesInv /\ [PNext]_pvars => TablesInv'
<1> SUFFICES ASSUME TypeInv, TypeInv', TablesInv, [PNext]_pvars, Option' = "-alltablesize",
                    NEW l \in 2 .. 4
             PROVE  tables'[l] = {TableIndex(l, v) : v \in Passed'}
  BY DEF TablesInv
<1>1. Option = "-alltablesize"
  BY DEF PNext, Kernel, Changes, Program, Main, free_fc, frame_info, Open, SumAreas, ReadMaps,
         WalkPage, CountPage, ListPage, MarkPage, MapVa, map_range, pvars, Option
<1>2. tables[l] = {TableIndex(l, v) : v \in Passed}
  BY <1>1 DEF TablesInv
<1>3. CASE UNCHANGED <<maps, page, area, tables>>
  <2>1. Passed' = Passed
    BY <1>3 DEF Passed
  <2> QED
    BY <1>2, <1>3, <2>1
<1>4. CASE MarkPage
  <2>1. pc = "mark" /\ UNCHANGED maps /\ Advance(End - 1) /\ Walking /\ Place /\ page < End
    BY <1>4 DEF MarkPage, TypeInv, Place, Walking
  <2>2. page <= End - 1
    BY <2>1, AreaFacts DEF Place, End
  <2>3. Passed' = Passed \cup {page}
    BY <2>1, <2>2, PassedStep
  <2>4. tables'[l] = tables[l] \cup {TableIndex(l, page)}
    BY <1>4 DEF MarkPage
  <2> HIDE DEF TableIndex
  <2> QED
    BY <1>2, <2>3, <2>4
<1>5. CASE UNCHANGED pvars \/ Kernel
  BY <1>3, <1>5 DEF pvars, locals, Kernel, Changes
<1>6. CASE Main \/ Open \/ ReadMaps
  <2>1. Passed = {} /\ Passed' = {}
    BY <1>6, NothingYet
  <2>2. UNCHANGED tables
    BY <1>6 DEF Main, Open, ReadMaps, locals
  <2> QED
    BY <1>2, <2>1, <2>2
<1>7. ~free_fc /\ ~frame_info /\ ~SumAreas /\ ~WalkPage /\ ~CountPage /\ ~ListPage
        /\ ~MapVa /\ ~map_range
  BY <1>1 DEF free_fc, frame_info, SumAreas, WalkPage, CountPage, ListPage, MapVa, map_range,
              TypeInv, Path, Listing
<1> QED
  BY <1>4, <1>5, <1>6, <1>7 DEF PNext, Program

\* Whatever the address space, all_table_size() counts at each level exactly the
\* tables that map a page of it.
THEOREM TablesCounted == PSpec => []TablesExact
<1>1. TypeInv /\ TablesInv => TablesExact
  <2> SUFFICES ASSUME TypeInv, TablesInv, Option = "-alltablesize", pc = "exit", NEW l \in 2 .. 4
               PROVE  Cardinality(tables[l])
                        = Cardinality({TableOf(l, v) : v \in Pages(maps)})
    BY DEF TablesExact
  <2> DEFINE P == Pages(maps)
             T == {TableOf(l, v) : v \in P}
             J == {TableIndex(l, v) : v \in P}
             f == [j \in J |-> TableOf(l, CHOOSE v \in P : TableIndex(l, v) = j)]
  <2>1. Passed = P
    BY DEF Passed, TypeInv, Place
  <2>2. tables[l] = J
    BY <2>1 DEF TablesInv
  <2>3. P \in SUBSET Nat
    BY PagesFinite DEF TypeInv, Place
  <2>4. ASSUME NEW v \in P PROVE f[TableIndex(l, v)] = TableOf(l, v)
    <3> DEFINE w == CHOOSE u \in P : TableIndex(l, u) = TableIndex(l, v)
    <3>1. w \in P /\ TableIndex(l, w) = TableIndex(l, v)
      OBVIOUS
    <3>2. f[TableIndex(l, v)] = TableOf(l, w)
      OBVIOUS
    <3> HIDE DEF w
    <3> QED
      BY <2>3, <3>1, <3>2, IndexIsTable
  <2> HIDE DEF f
  <2>5. f \in [J -> T]
    <3>1. f = [j \in J |-> f[j]]
      BY DEF f
    <3>2. ASSUME NEW j \in J PROVE f[j] \in T
      BY <2>4
    <3> QED
      BY <3>1, <3>2
  <2>6. \A j, k \in J : f[j] = f[k] => j = k
    <3> SUFFICES ASSUME NEW v \in P, NEW w \in P, f[TableIndex(l, v)] = f[TableIndex(l, w)]
                 PROVE  TableIndex(l, v) = TableIndex(l, w)
      OBVIOUS
    <3> QED
      BY <2>3, <2>4, IndexIsTable
  <2>7. \A t \in T : \E j \in J : f[j] = t
    BY <2>4
  <2> HIDE DEF P, T, J
  <2>8. f \in Bijection(J, T)
    <3>1. f \in Injection(J, T)
      BY <2>5, <2>6 DEF Injection, IsInjective
    <3>2. f \in Surjection(J, T)
      BY <2>5, <2>7 DEF Surjection
    <3> QED
      BY <3>1, <3>2 DEF Bijection
  <2>9. IsFiniteSet(J)
    <3>1. J \in SUBSET (0 .. Slots(l)-1) /\ Slots(l) \in Int
      <4>1. tables[l] \subseteq 0 .. Slots(l)-1
        BY DEF TypeInv, PTypeOK
      <4>2. Slots(l) \in Int
        BY EntriesAssumption, Products DEF Slots
      <4> QED
        BY <2>2, <4>1, <4>2
    <3>2. 0 \in Int /\ Slots(l)-1 \in Int
      BY <3>1
    <3> QED
      BY <3>1, <3>2, FS_Interval, FS_Subset
  <2>10. Cardinality(T) = Cardinality(J)
    <3>1. ExistsBijection(J, T)
      BY <2>8 DEF ExistsBijection
    <3> QED
      BY <2>9, <3>1, FS_Bijection
  <2> QED
    BY <2>2, <2>10 DEF T, P
<1> QED
  BY <1>1, InitType, StepType, InitTables, StepTables, PTL DEF PSpec

-------------------------------------------------------------------------------
(* What is reported while nothing changes *)

\* Pages outside the areas are not in memory.
Settled == \A v \in Page : v \notin Pages(areas) => pagemap[v] = None

\* free_fc() has looked at the frames before page.
FreeBefore(p) == {f \in Frames : f \in Arg(1) .. p-1 /\ f < FrameLimit /\ kpagecount[f] = 0}

FreeRight ==
  /\ pc = "main" => tally.free = 0
  /\ pc = "count" => /\ page = Arg(1) \/ (Arg(1) <= page /\ page <= Arg(2) /\ page <= FrameLimit)
                     /\ tally.free = Cardinality(FreeBefore(page))
  /\ pc = "exit" => tally.free = Cardinality(FreeBefore(Arg(2)))

\* mem_used() has counted the pages passed, and the frame it holds is that of its page.
CountedPages == Resident \cap Passed
AlonePages   == {v \in Resident \cap Passed : kpagecount[pagemap[v]] = 1}

UsedRight ==
  /\ pc \notin {"failed", "crashed"} =>
       tally.all = Cardinality(CountedPages) /\ tally.alone = Cardinality(AlonePages)
  /\ pc \in {"open", "read", "walk", "exit"} => tally.virtual = Cardinality(Pages(areas))
  /\ frame # None => pc = "walk" /\ PageFrame = frame

\* map() has listed the pages passed.
ToList == Passed \cap IF Option = "-mapall" THEN Page ELSE Resident

ListRight ==
  pc \notin {"failed", "crashed"} =>
    {printed[k] : k \in DOMAIN printed} = {<<v, pagemap[v]>> : v \in ToList}

StillInv ==
  still /\ Valid(cmd) =>
    /\ Settled
    /\ Option \in {"-memused", "-mapall", "-mapallin"} /\ (Walking \/ pc = "exit") => maps = areas
    /\ Option = "-freefc" => FreeRight
    /\ Option = "-memused" => UsedRight
    /\ Listing => ListRight

\* A page's frame is looked up in pagemap if there is an entry.
LEMMA Entry ==
  ASSUME TypeInv, areas # <<>>
  PROVE  PageFrame = IF page \in Page THEN pagemap[page] ELSE None
<1>1. Page \subseteq 0 .. Readable-1 /\ Readable \in Nat
  BY PvmAssumption DEF Page
<1>2. page \in Page => page < Readable
  BY <1>1
<1> QED
  BY <1>2 DEF PageFrame, InPagemap

\* A walk steps from page to page, and passes no page of memory without looking at it.
LEMMA ResidentStep ==
  ASSUME TypeInv, Walking, areas # <<>>, NEW last \in {End-1, End}, page <= last, Advance(last),
         UNCHANGED <<maps, areas, pagemap, kpagecount>>, pc \in {"list", "mark"} => last = End - 1
  PROVE  /\ PageFrame = None \/ page = End => Resident' \cap Passed' = Resident \cap Passed
         /\ PageFrame # None /\ page < End =>
              /\ page \in Resident /\ pagemap[page] = PageFrame /\ page \notin Resident \cap Passed
              /\ Resident' \cap Passed' = (Resident \cap Passed) \cup {page}
<1>1. Resident' = Resident
  BY DEF Resident
<1>2. /\ page = End => Passed' = Passed
      /\ page < End => Passed' = Passed \cup {page} /\ page \notin Passed
  BY PassedStep DEF TypeInv
<1>3. PageFrame = None <=> page \notin Resident
  BY Entry DEF Resident
<1>4. page < End \/ page = End
  BY AreaFacts DEF TypeInv, Place, End
<1>5. PageFrame # None => page \in Resident /\ pagemap[page] = PageFrame
  BY Entry DEF Resident
<1>6. CASE page = End
  <2>1. ~(page < End)
    BY <1>6, AreaFacts DEF TypeInv, Place, End
  <2> QED
    BY <1>1, <1>2, <1>6, <2>1
<1>7. CASE page < End
  <2>1. page # End
    BY <1>7, AreaFacts DEF TypeInv, Place, End
  <2> QED
    BY <1>1, <1>2, <1>3, <1>5, <1>7, <2>1
<1> QED
  BY <1>4, <1>6, <1>7

LEMMA InitStill == PInit => StillInv
<1> SUFFICES ASSUME PInit, Valid(cmd) PROVE StillInv
  BY DEF StillInv
<1>1. Settled
  BY DEF PInit, Settled
<1>2. Passed = {}
  <2>1. Place /\ ~Walking /\ pc \notin {"exit", "failed"}
    BY InitType DEF PInit, TypeInv, Walking
  <2> QED
    BY <2>1, NothingPassed
<1>3. FreeRight
  BY DEF PInit, FreeRight
<1>4. UsedRight
  <2>1. CountedPages = {} /\ AlonePages = {}
    BY <1>2 DEF CountedPages, AlonePages
  <2> QED
    BY <2>1, FS_EmptySet DEF PInit, UsedRight
<1>5. ListRight
  BY <1>2 DEF PInit, ListRight, ToList
<1> QED
  BY <1>1, <1>3, <1>4, <1>5 DEF StillInv, PInit, Walking

\* free_fc() counts frame after frame, as long as there are counts to read.
LEMMA FreeStep ==
  ASSUME TypeInv, Valid(cmd), Option = "-freefc", FreeRight, Program
  PROVE  FreeRight'
<1>1. Arg(1) \in Nat /\ Arg(2) \in Nat /\ page \in Nat /\ FrameLimit \in Nat
  BY Arguments, PvmAssumption DEF TypeInv, Path, Place
<1>2. UNCHANGED <<kpagecount, cmd>> /\ Arg(1)' = Arg(1) /\ Arg(2)' = Arg(2)
  BY DEF Program, Main, free_fc, frame_info, Open, SumAreas, ReadMaps, WalkPage, CountPage,
         ListPage, MarkPage, MapVa, map_range, kernel, Arg
<1>3. \A p : FreeBefore(p)' = FreeBefore(p)
  BY <1>2 DEF FreeBefore
<1>f. ASSUME NEW p \in Nat, NEW f
      PROVE  f \in FreeBefore(p) <=> f \in Frames /\ Arg(1) <= f /\ f < p /\ f < FrameLimit
                                       /\ kpagecount[f] = 0
  <2>1. f \in Frames => f \in Nat
    BY PvmAssumption
  <2>2. f \in Nat => (f \in Arg(1) .. p-1 <=> Arg(1) <= f /\ f < p)
    BY <1>1
  <2> QED
    BY <2>1, <2>2 DEF FreeBefore
<1>4. CASE Main
  <2>1. pc = "main" /\ pc' = "count" /\ page' = Arg(1) /\ tally' = tally
    BY <1>4 DEF Main, Valid, Option
  <2>2. FreeBefore(Arg(1)) = {}
    BY <1>1 DEF FreeBefore
  <2> QED
    BY <1>2, <1>3, <2>1, <2>2, FS_EmptySet DEF FreeRight
<1>5. CASE free_fc
  <2>1. pc = "count" /\ tally.free = Cardinality(FreeBefore(page))
        /\ (page = Arg(1) \/ (Arg(1) <= page /\ page <= Arg(2) /\ page <= FrameLimit))
    BY <1>5 DEF free_fc, FreeRight
  <2>2. CASE page < Arg(2) /\ page < FrameLimit
    <3>1. /\ tally' = [tally EXCEPT !.free = @ + IF kpagecount[page] = 0 THEN 1 ELSE 0]
          /\ page' = page + 1 /\ pc' = pc
      BY <1>5, <2>2 DEF free_fc
    <3>2. tally'.free = tally.free + IF kpagecount[page] = 0 THEN 1 ELSE 0
      BY <3>1 DEF TypeInv, PTypeOK
    <3>3. page \in Frames
      BY <1>1, <2>2, PvmAssumption
    <3>4. FreeBefore(page + 1) = FreeBefore(page) \cup IF kpagecount[page] = 0 THEN {page} ELSE {}
      <4>1. page + 1 \in Nat
        BY <1>1
      <4>2. ASSUME NEW f PROVE f \in FreeBefore(page + 1)
                                 <=> f \in FreeBefore(page) \/ (f = page /\ kpagecount[page] = 0)
        <5>1. f \in Frames => f \in Nat
          BY PvmAssumption
        <5>2. f \in Nat => (f < page + 1 <=> f < page \/ f = page)
          BY <1>1
        <5>3. Arg(1) <= page
          BY <1>1, <2>1
        <5> QED
          BY <1>1, <1>f, <2>2, <3>3, <4>1, <5>1, <5>2, <5>3
      <4> QED
        BY <4>2
    <3>5. page \notin FreeBefore(page) /\ IsFiniteSet(FreeBefore(page))
      <4>1. FreeBefore(page) \in SUBSET (Arg(1) .. page-1) /\ page-1 \in Int
        BY <1>1 DEF FreeBefore
      <4>2. IsFiniteSet(Arg(1) .. page-1)
        BY <1>1, <4>1, FS_Interval
      <4> QED
        BY <1>1, <4>1, <4>2, FS_Subset
    <3>6. Cardinality(FreeBefore(page + 1))
            = Cardinality(FreeBefore(page)) + IF kpagecount[page] = 0 THEN 1 ELSE 0
      <4>1. Cardinality(FreeBefore(page)) \in Nat
        BY <3>5, FS_CardinalityType
      <4>2. Cardinality(FreeBefore(page) \cup {page}) = Cardinality(FreeBefore(page)) + 1
        BY <3>5, FS_AddElement
      <4>3. kpagecount[page] # 0 => FreeBefore(page + 1) = FreeBefore(page)
        BY <3>4
      <4>4. kpagecount[page] = 0 => FreeBefore(page + 1) = FreeBefore(page) \cup {page}
        BY <3>4
      <4> QED
        BY <4>1, <4>2, <4>3, <4>4
    <3>7. page' = page + 1 /\ Arg(1) <= page' /\ page' <= Arg(2) /\ page' <= FrameLimit
      BY <1>1, <2>1, <2>2, <3>1
    <3> QED
      BY <1>2, <1>3, <2>1, <3>1, <3>2, <3>6, <3>7 DEF FreeRight
  <2>3. CASE ~(page < Arg(2) /\ page < FrameLimit)
    <3>1. pc' = "exit" /\ UNCHANGED <<tally, page>>
      BY <1>5, <2>3 DEF free_fc
    <3>2. FreeBefore(page) = FreeBefore(Arg(2))
      <4>1. ASSUME NEW f \in Frames, Arg(1) <= f, f < FrameLimit PROVE f < page <=> f < Arg(2)
        <5>1. f \in Nat
          BY PvmAssumption
        <5> QED
          BY <1>1, <2>1, <2>3, <4>1, <5>1
      <4>2. ASSUME NEW f PROVE f \in FreeBefore(page) <=> f \in FreeBefore(Arg(2))
        BY <1>1, <1>f, <4>1
      <4> QED
        BY <4>2
    <3> QED
      BY <1>2, <1>3, <2>1, <3>1, <3>2 DEF FreeRight
  <2> QED
    BY <2>2, <2>3
<1>6. ~Open /\ ~SumAreas /\ ~ReadMaps /\ ~WalkPage /\ ~CountPage /\ ~ListPage /\ ~MarkPage
        /\ ~MapVa /\ ~map_range /\ ~frame_info
  BY DEF Open, SumAreas, ReadMaps, WalkPage, CountPage, ListPage, MarkPage, MapVa, map_range,
         frame_info, TypeInv, Path, Listing
<1> QED
  BY <1>4, <1>5, <1>6 DEF Program

\* A frame that a page has is counted at least for that page.
LEMMA MappedIsCounted ==
  ASSUME KernelOK, NEW v \in Page, pagemap[v] # None
  PROVE  pagemap[v] \in Frames /\ kpagecount[pagemap[v]] \in Nat /\ kpagecount[pagemap[v]] >= 1
<1> DEFINE f == pagemap[v]
           S == {w \in Page : pagemap[w] = f}
<1>1. f \in Frames /\ kpagecount[f] \in Nat
  BY DEF KernelOK
<1>2. S \in SUBSET Page /\ v \in S
  OBVIOUS
<1> HIDE DEF S
<1>3. IsFiniteSet(S) /\ S # {}
  BY <1>2, PageFinite
<1>4. Cardinality(S) \in Nat /\ Cardinality(S) # 0
  BY <1>3, FS_CardinalityType, FS_EmptySet
<1>5. Cardinality(S) <= kpagecount[f]
  BY <1>1 DEF KernelOK, Own, S
<1> QED
  BY <1>1, <1>4, <1>5

\* The program leaves the kernel's part, and what is said of it, alone.
LEMMA ProgramOnly ==
  ASSUME Program
  PROVE  /\ UNCHANGED <<areas, pagemap, kpagecount, still, cmd>>
         /\ Resident' = Resident /\ Option' = Option /\ Settled' = Settled
         /\ Valid(cmd)' = Valid(cmd) /\ Listing' = Listing
<1>1. UNCHANGED <<areas, pagemap, kpagecount, still, cmd>>
  BY DEF Program, Main, free_fc, frame_info, Open, SumAreas, ReadMaps, WalkPage, CountPage,
         ListPage, MarkPage, MapVa, map_range, kernel
<1> QED
  BY <1>1 DEF Resident, Option, Settled, Valid, Listing, Pages

LEMMA PassedPagesFinite ==
  ASSUME Place
  PROVE  IsFiniteSet(CountedPages) /\ IsFiniteSet(AlonePages)
<1>1. CountedPages \in SUBSET Passed /\ AlonePages \in SUBSET Passed /\ IsFiniteSet(Passed)
  BY PassedFinite DEF CountedPages, AlonePages
<1> QED
  BY <1>1, FS_Subset

\* mem_used() adds a page of memory when it passes it, and no other.
LEMMA UsedStep ==
  ASSUME TypeInv, Valid(cmd), Option = "-memused", Walking => maps = areas, UsedRight, Program
  PROVE  UsedRight'
<1>1. /\ UNCHANGED <<areas, pagemap, kpagecount>> /\ Resident' = Resident
      /\ Pages(areas)' = Pages(areas)
  BY ProgramOnly DEF Pages
<1>2. tally \in [virtual : Nat, all : Nat, alone : Nat, free : Nat] /\ Place
  BY DEF TypeInv, PTypeOK
<1>3. ASSUME Passed' = Passed
      PROVE  CountedPages' = CountedPages /\ AlonePages' = AlonePages
  BY <1>1, <1>3 DEF CountedPages, AlonePages
<1>4. CASE Main \/ Open \/ ReadMaps
  <2>1. Passed' = Passed
    BY <1>4, NothingYet
  <2>2. UNCHANGED tally /\ pc \notin {"failed", "crashed"}
    BY <1>4 DEF Main, Open, ReadMaps, locals
  <2>3. pc' \in {"open", "read", "walk", "exit"} => pc \in {"open", "read", "walk", "exit"}
    BY <1>4 DEF Main, Open, ReadMaps, Valid, Option
  <2>4. frame' = frame /\ frame = None
    BY <1>4 DEF Main, Open, ReadMaps, locals, UsedRight
  <2> QED
    BY <1>1, <1>3, <2>1, <2>2, <2>3, <2>4 DEF UsedRight
<1>5. CASE SumAreas
  <2>1. Passed' = Passed
    BY <1>5, NothingYet
  <2>2. pc = "virtual" /\ pc' = "open" /\ frame' = frame /\ frame = None
    BY <1>5 DEF SumAreas, UsedRight
  <2>3. tally' = [tally EXCEPT !.virtual = Cardinality(Pages(areas))]
    BY <1>5 DEF SumAreas
  <2>4. /\ tally'.virtual = Cardinality(Pages(areas))
        /\ tally'.all = tally.all /\ tally'.alone = tally.alone
    BY <1>2, <2>3
  <2> QED
    BY <1>1, <1>3, <2>1, <2>2, <2>4 DEF UsedRight
<1>6. ASSUME WalkPage \/ CountPage
      PROVE  /\ Walking /\ areas # <<>> /\ page <= End /\ End \in {End-1, End}
             /\ page \in Nat /\ End \in Nat
             /\ UNCHANGED maps /\ pc = "walk" /\ pc \notin {"list", "mark"}
  <2>1. pc = "walk" /\ UNCHANGED maps /\ Walking
    BY <1>6 DEF WalkPage, CountPage, Walking
  <2>2. area \in DOMAIN maps /\ page <= End /\ page \in Nat /\ maps = areas
    BY <1>2, <2>1 DEF Place
  <2>3. End \in Nat
    BY <1>2, <2>2, AreaFacts DEF Place, End
  <2> QED
    BY <2>1, <2>2, <2>3
<1>7. CASE WalkPage /\ PageFrame # None
  <2>1. /\ frame' = PageFrame /\ UNCHANGED <<pc, area, page, maps, tally>> /\ pc = "walk"
    BY <1>7 DEF WalkPage
  <2>2. Passed' = Passed /\ PageFrame' = PageFrame
    BY <1>1, <2>1 DEF Passed, PageFrame, InPagemap
  <2> QED
    BY <1>1, <1>3, <2>1, <2>2 DEF UsedRight
<1>8. CASE WalkPage /\ PageFrame = None
  <2>1. Advance(End) /\ frame' = None /\ UNCHANGED tally
    BY <1>8 DEF WalkPage
  <2>2. Resident' \cap Passed' = Resident \cap Passed
    BY <1>1, <1>6, <1>8, <2>1, ResidentStep
  <2>3. CountedPages' = CountedPages /\ AlonePages' = AlonePages
    BY <1>1, <2>2 DEF CountedPages, AlonePages
  <2> QED
    BY <1>1, <1>6, <1>8, <2>1, <2>3 DEF UsedRight
<1>9. CASE CountPage /\ frame >= FrameLimit
  <2>1. pc' = "failed" /\ frame' = None
    BY <1>9 DEF CountPage
  <2> QED
    BY <2>1 DEF UsedRight
<1>10. CASE CountPage /\ ~(frame >= FrameLimit)
  <2> DEFINE size == IF page = End THEN 0 ELSE 1
             n    == kpagecount[frame]
  <2>1. /\ frame # None /\ PageFrame = frame /\ frame' = None /\ Advance(End)
        /\ tally.all = Cardinality(CountedPages) /\ tally.alone = Cardinality(AlonePages)
        /\ tally.virtual = Cardinality(Pages(areas))
    BY <1>6, <1>10 DEF CountPage, UsedRight
  <2>2. tally' = [tally EXCEPT !.alone = @ + IF n = 1 THEN size ELSE 0,
                               !.all = @ + IF n >= 1 THEN size ELSE 0]
    BY <1>10 DEF CountPage
  <2>3. /\ tally'.alone = tally.alone + IF n = 1 THEN size ELSE 0
        /\ tally'.all = tally.all + IF n >= 1 THEN size ELSE 0
        /\ tally'.virtual = tally.virtual
    <3> HIDE DEF n, size
    <3> QED
      BY <1>2, <2>2
  <2>4. CASE page = End
    <3>1. Resident' \cap Passed' = Resident \cap Passed
      BY <1>1, <1>6, <1>10, <2>1, <2>4, ResidentStep
    <3>2. CountedPages' = CountedPages /\ AlonePages' = AlonePages
      BY <1>1, <3>1 DEF CountedPages, AlonePages
    <3>3. tally'.alone = tally.alone /\ tally'.all = tally.all
      BY <1>2, <2>3, <2>4
    <3> QED
      BY <1>1, <2>1, <2>3, <3>2, <3>3 DEF UsedRight
  <2>5. CASE page < End
    <3>1. /\ page \in Resident /\ pagemap[page] = frame /\ page \notin CountedPages
          /\ CountedPages' = CountedPages \cup {page}
      BY <1>1, <1>6, <1>10, <2>1, <2>5, ResidentStep DEF CountedPages
    <3>2. n \in Nat /\ n >= 1
      BY <3>1, MappedIsCounted DEF Resident, TypeInv
    <3>3. page \notin AlonePages
      BY <3>1 DEF CountedPages, AlonePages
    <3>4. AlonePages' = AlonePages \cup IF n = 1 THEN {page} ELSE {}
      BY <1>1, <3>1 DEF CountedPages, AlonePages
    <3>5. IsFiniteSet(CountedPages) /\ IsFiniteSet(AlonePages)
      BY <1>2, PassedPagesFinite
    <3>6. page # End
      BY <1>6, <1>10, <2>5
    <3> HIDE DEF n
    <3>7. tally'.all = tally.all + 1 /\ tally'.alone = tally.alone + IF n = 1 THEN 1 ELSE 0
      BY <1>2, <2>3, <3>2, <3>6
    <3>8. Cardinality(CountedPages') = Cardinality(CountedPages) + 1
      BY <3>1, <3>5, FS_AddElement
    <3>9. Cardinality(AlonePages') = Cardinality(AlonePages) + IF n = 1 THEN 1 ELSE 0
      <4>1. Cardinality(AlonePages) \in Nat
        BY <3>5, FS_CardinalityType
      <4>2. Cardinality(AlonePages \cup {page}) = Cardinality(AlonePages) + 1
        BY <3>3, <3>5, FS_AddElement
      <4>3. CASE n = 1
        BY <3>4, <4>2, <4>3
      <4>4. CASE n # 1
        BY <3>4, <4>1, <4>4
      <4> QED
        BY <4>3, <4>4
    <3> QED
      BY <1>1, <2>1, <2>3, <3>7, <3>8, <3>9 DEF UsedRight
  <2> QED
    BY <1>6, <1>10, <2>4, <2>5
<1>11. ~free_fc /\ ~frame_info /\ ~ListPage /\ ~MarkPage /\ ~MapVa /\ ~map_range
  BY DEF free_fc, frame_info, ListPage, MarkPage, MapVa, map_range, TypeInv, Path, Listing
<1> QED
  BY <1>4, <1>5, <1>7, <1>8, <1>9, <1>10, <1>11 DEF Program

\* The lines printed, as a set.
LEMMA LinesAre ==
  ASSUME Lines, NEW v \in Nat, NEW f \in Frames \cup {None}, PrintLine(<<v, f>>)
  PROVE  {printed'[k] : k \in DOMAIN printed'} = {printed[k] : k \in DOMAIN printed} \cup {<<v, f>>}
<1> DEFINE Line == Nat \X (Frames \cup {None})
           n    == Len(printed)
<1>1. printed \in Seq(Line) /\ n \in Nat /\ DOMAIN printed = 1 .. n
  BY DEF Lines
<1>2. <<v, f>> \in Line
  OBVIOUS
<1> DEFINE line == <<v, f>>
<1> HIDE DEF Line
<1>3. /\ DOMAIN printed' = 1 .. n+1
      /\ \A k \in 1 .. n : printed'[k] = printed[k]
      /\ printed'[n+1] = line
  <2>1. printed' = Append(printed, line) /\ line \in Line
    BY <1>2 DEF PrintLine
  <2> HIDE DEF line
  <2> QED
    BY <1>1, <2>1
<1> HIDE DEF line, n
<1>4. 1 .. n+1 = (1 .. n) \cup {n+1}
  BY <1>1
<1>5. ASSUME NEW x
      PROVE  x \in {printed'[k] : k \in DOMAIN printed'}
               <=> x \in {printed[k] : k \in DOMAIN printed} \cup {line}
  BY <1>1, <1>3, <1>4
<1>6. {printed'[k] : k \in DOMAIN printed'} = {printed[k] : k \in DOMAIN printed} \cup {line}
  BY <1>5
<1> QED
  BY <1>6 DEF line

\* Where pagemap ends early, the pages left out have no entry.
LEMMA SkipStep ==
  ASSUME Place, Walking, NextArea, UNCHANGED maps, page >= Readable
  PROVE  Passed' \cap Page = Passed \cap Page
<1>1. /\ Len(maps) \in Nat /\ DOMAIN maps = 1 .. Len(maps) /\ area \in DOMAIN maps
      /\ \A k \in DOMAIN maps :
           /\ maps[k].start \in Nat /\ maps[k].end \in Nat
           /\ maps[k].start < maps[k].end
           /\ \A j \in DOMAIN maps : j < k => maps[j].end <= maps[k].start
      /\ page \in Nat /\ page <= maps[area].end
  BY AreaFacts DEF Place, End
<1>2. Page \subseteq 0 .. Readable-1 /\ Readable \in Nat
  BY PvmAssumption DEF Page
<1>3. ASSUME NEW v \in Page PROVE v \in Nat /\ v < page
  BY <1>1, <1>2
<1>4. ASSUME NEW v \in Page, v \in Pages(maps) PROVE v \in Passed
  BY <1>3, <1>4 DEF Passed
<1>5. ASSUME NEW v \in Page, v \in Pages(maps) PROVE v \in Passed'
  <2>1. CASE area < Len(maps)
    <3>1. page' = maps[area+1].start /\ area + 1 \in DOMAIN maps
      BY <1>1, <2>1 DEF NextArea
    <3>2. maps[area].end <= maps[area+1].start
      BY <1>1, <3>1
    <3>3. v < page'
      BY <1>1, <1>3, <3>1, <3>2
    <3> QED
      BY <1>5, <3>3 DEF Passed, Pages
  <2>2. CASE area = Len(maps)
    <3>1. area' > Len(maps')
      BY <1>1, <2>2 DEF NextArea
    <3> QED
      BY <1>5, <3>1 DEF Passed, Pages
  <2> QED
    BY <1>1, <2>1, <2>2
<1>6. Passed \subseteq Pages(maps) /\ Passed' \subseteq Pages(maps)
  BY DEF Passed, Pages
<1> QED
  BY <1>4, <1>5, <1>6

\* map() lists a page when it passes it, and passes no page of memory otherwise.
LEMMA ListStep ==
  ASSUME TypeInv, Valid(cmd), Listing, Walking => maps = areas, ListRight, Program
  PROVE  ListRight'
<1> DEFINE Pairs(S) == {<<v, pagemap[v]>> : v \in S}
           Set      == {printed[k] : k \in DOMAIN printed}
           Wanted   == IF Option = "-mapall" THEN Page ELSE Resident
<1>1. UNCHANGED <<areas, pagemap, kpagecount>> /\ Resident' = Resident /\ Option' = Option
  BY ProgramOnly
<1>2. ToList = Passed \cap Wanted /\ ToList' = Passed' \cap Wanted /\ Wanted \subseteq Page
  BY <1>1 DEF ToList, Resident
<1>3. pc \notin {"failed", "crashed"} => Set = Pairs(ToList)
  BY DEF ListRight
<1>4. ASSUME pc' \notin {"failed", "crashed"} => Set' = Pairs(ToList')
      PROVE  ListRight'
  BY <1>1, <1>4 DEF ListRight
<1>5. ASSUME UNCHANGED printed, ToList' = ToList, pc \notin {"failed", "crashed"}
      PROVE  ListRight'
  BY <1>3, <1>4, <1>5
<1>6. CASE Main \/ Open \/ ReadMaps
  <2>1. Passed' = Passed
    BY <1>6, NothingYet
  <2>2. UNCHANGED printed /\ pc \notin {"failed", "crashed"}
    BY <1>6 DEF Main, Open, ReadMaps, locals
  <2> QED
    BY <1>2, <1>5, <2>1, <2>2
<1>7. CASE ListPage
  <2>1. /\ pc = "list" /\ UNCHANGED maps /\ Walking /\ Place /\ maps = areas /\ areas # <<>>
        /\ page \in Nat /\ End \in Nat /\ page < End
    <3>1. pc = "list" /\ UNCHANGED maps /\ Walking /\ Place
      BY <1>7 DEF ListPage, TypeInv, Walking
    <3>2. area \in DOMAIN maps /\ page < End /\ maps = areas
      BY <3>1 DEF Place
    <3> QED
      BY <3>1, <3>2, AreaFacts DEF Place, End
  <2>2. CASE ~InPagemap
    <3>1. NextArea /\ UNCHANGED printed
      BY <1>7, <2>2 DEF ListPage
    <3>2. page >= Readable
      BY <2>1, <2>2, PvmAssumption DEF InPagemap
    <3>3. ToList' = ToList
      BY <1>2, <2>1, <3>1, <3>2, SkipStep
    <3> QED
      BY <1>5, <2>1, <3>1, <3>3
  <2>3. CASE InPagemap
    <3>1. Advance(End - 1) /\ page <= End - 1
      BY <1>7, <2>1, <2>3 DEF ListPage
    <3>2. Passed' = Passed \cup {page} /\ page \notin Passed /\ page \in Pages(maps)
      BY <2>1, <3>1, PassedStep
    <3>3. page \in Page
      <4>1. areas \in Layouts
        BY <2>1 DEF TypeInv, KernelOK
      <4>2. page \in 0 .. Readable-1
        BY <2>1, <2>3, PvmAssumption DEF InPagemap
      <4> QED
        BY <2>1, <3>2, <4>1, <4>2 DEF Page
    <3>4. PageFrame = pagemap[page] /\ PageFrame \in Frames \cup {None}
      BY <2>1, <3>3, Entry DEF TypeInv, KernelOK
    <3>5. page \in Wanted <=> PageFrame # None \/ Option = "-mapall"
      BY <3>3, <3>4 DEF Resident
    <3>6. CASE page \in Wanted
      <4>1. PrintLine(<<page, PageFrame>>)
        BY <1>7, <2>3, <3>5, <3>6 DEF ListPage
      <4>2. Set' = Set \cup {<<page, PageFrame>>}
        BY <2>1, <3>4, <4>1, LinesAre DEF TypeInv
      <4>3. ToList' = ToList \cup {page}
        BY <1>2, <3>2, <3>6
      <4>4. Pairs(ToList') = Pairs(ToList) \cup {<<page, pagemap[page]>>}
        BY <4>3
      <4> QED
        BY <1>3, <1>4, <2>1, <3>4, <4>2, <4>4
    <3>7. CASE page \notin Wanted
      <4>1. UNCHANGED printed
        BY <1>7, <2>3, <3>5, <3>7 DEF ListPage
      <4>2. ToList' = ToList
        BY <1>2, <3>2, <3>7
      <4> QED
        BY <1>5, <2>1, <4>1, <4>2
    <3> QED
      BY <3>6, <3>7
  <2> QED
    BY <2>2, <2>3
<1>8. ~free_fc /\ ~frame_info /\ ~SumAreas /\ ~WalkPage /\ ~CountPage /\ ~MarkPage
        /\ ~MapVa /\ ~map_range
  BY DEF free_fc, frame_info, SumAreas, WalkPage, CountPage, MarkPage, MapVa, map_range,
         TypeInv, Path, Listing
<1> QED
  BY <1>6, <1>7, <1>8 DEF Program

\* While nothing changes the walks go over the areas the process has.
LEMMA MapsStep ==
  ASSUME TypeInv, Valid(cmd), Option \in {"-memused", "-mapall", "-mapallin"},
         Walking \/ pc = "exit" => maps = areas, Program, Walking' \/ pc' = "exit"
  PROVE  maps' = areas'
<1>1. UNCHANGED areas
  BY ProgramOnly
<1>2. CASE Main \/ Open \/ SumAreas
  <2>1. pc' \notin {"walk", "list", "mark", "exit"}
    BY <1>2 DEF Main, Open, SumAreas
  <2> QED
    BY <2>1 DEF Walking
<1>3. CASE ReadMaps
  BY <1>1, <1>3 DEF ReadMaps
<1>4. CASE WalkPage \/ CountPage \/ ListPage \/ MarkPage
  BY <1>1, <1>4 DEF WalkPage, CountPage, ListPage, MarkPage, Walking
<1>5. ~free_fc /\ ~frame_info /\ ~MapVa /\ ~map_range
  BY DEF free_fc, frame_info, MapVa, map_range, TypeInv, Path
<1> QED
  BY <1>2, <1>3, <1>4, <1>5 DEF Program

LEMMA StepStill == TypeInv /\ StillInv /\ [PNext]_pvars => StillInv'
<1> SUFFICES ASSUME TypeInv, StillInv, [PNext]_pvars, still', Valid(cmd)'
             PROVE  StillInv'
  BY DEF StillInv
<1>1. CASE UNCHANGED pvars
  <2>1. UNCHANGED <<areas, pagemap, kpagecount, still, cmd, pc, maps, area, page, frame, tally,
                    printed>>
    BY <1>1 DEF pvars, kernel, locals
  <2>2. /\ Passed' = Passed /\ Resident' = Resident /\ Option' = Option /\ Listing' = Listing
        /\ Settled' = Settled /\ Walking' = Walking /\ Valid(cmd)' = Valid(cmd)
        /\ FreeRight' = FreeRight /\ PageFrame' = PageFrame
        /\ Pages(areas)' = Pages(areas)
    BY <2>1 DEF Passed, Resident, Option, Listing, Settled, Walking, Valid, FreeRight, FreeBefore,
                Arg, PageFrame, InPagemap, Pages
  <2>3. UsedRight' = UsedRight /\ ListRight' = ListRight
    BY <2>1, <2>2 DEF UsedRight, ListRight, CountedPages, AlonePages, ToList
  <2> QED
    BY <2>1, <2>2, <2>3 DEF StillInv
<1>2. CASE Kernel
  BY <1>2 DEF Kernel, Changes
<1>3. CASE Program
  <2>1. /\ still /\ Valid(cmd) /\ Option' = Option /\ Listing' = Listing /\ Settled' = Settled
    BY <1>3, ProgramOnly
  <2>2. /\ Settled
        /\ Option \in {"-memused", "-mapall", "-mapallin"} /\ (Walking \/ pc = "exit")
             => maps = areas
        /\ Option = "-freefc" => FreeRight
        /\ Option = "-memused" => UsedRight
        /\ Listing => ListRight
    BY <2>1 DEF StillInv
  <2>3. Option = "-freefc" => FreeRight'
    BY <1>3, <2>1, <2>2, FreeStep
  <2>4. Option = "-memused" => UsedRight'
    BY <1>3, <2>1, <2>2, UsedStep
  <2>5. Listing => ListRight'
    <3>1. Listing => Option \in {"-memused", "-mapall", "-mapallin"}
      BY DEF Listing
    <3> QED
      BY <1>3, <2>1, <2>2, <3>1, ListStep
  <2>6. Option \in {"-memused", "-mapall", "-mapallin"} /\ (Walking' \/ pc' = "exit")
          => maps' = areas'
    BY <1>3, <2>1, <2>2, MapsStep
  <2> QED
    BY <2>1, <2>2, <2>3, <2>4, <2>5, <2>6 DEF StillInv
<1> QED
  BY <1>1, <1>2, <1>3 DEF PNext

\* As long as the process, the frames and the other processes stay as they are, four
\* commands report what the kernel has: free_fc() the frames with a count of 0,
\* mem_used() three sizes, and map(), called in two ways, its lists.
THEOREM ExactIfStill == PSpec => []ExactWhenStill
<1>1. TypeInv /\ StillInv => ExactWhenStill
  <2> SUFFICES ASSUME TypeInv, StillInv, still, pc = "exit", Valid(cmd),
                      Option \in {"-freefc", "-memused", "-mapall", "-mapallin"}
               PROVE  ExactWhenStill
    BY DEF ExactWhenStill
  <2>1. Option = "-freefc" =>
          tally.free = Cardinality({f \in Frames : /\ f \in Arg(1) .. Arg(2)-1
                                                   /\ f < FrameLimit /\ kpagecount[f] = 0})
    BY DEF StillInv, FreeRight, FreeBefore
  <2>2. Resident \subseteq Page \cap Pages(areas)
    BY DEF StillInv, Settled, Resident
  <2>3. ASSUME Option \in {"-memused", "-mapall", "-mapallin"}
        PROVE  Passed = Pages(areas)
    BY <2>3 DEF StillInv, TypeInv, Place, Passed
  <2>4. ASSUME Option = "-memused"
        PROVE  /\ tally.virtual = Cardinality(Pages(areas))
               /\ tally.all = Cardinality(Resident)
               /\ tally.alone = Cardinality({v \in Resident : kpagecount[pagemap[v]] = 1})
    <3>1. /\ tally.virtual = Cardinality(Pages(areas))
          /\ tally.all = Cardinality(CountedPages) /\ tally.alone = Cardinality(AlonePages)
      BY <2>4 DEF StillInv, UsedRight
    <3>2. Resident \cap Passed = Resident
      BY <2>2, <2>3, <2>4
    <3> QED
      BY <3>1, <3>2 DEF CountedPages, AlonePages
  <2>5. ASSUME Option = "-mapall"
        PROVE  {printed[k] : k \in DOMAIN printed} = {<<v, pagemap[v]>> : v \in Page \cap Pages(areas)}
    <3>1. ToList = Page \cap Pages(areas)
      BY <2>3, <2>5 DEF ToList
    <3> QED
      BY <2>5, <3>1 DEF StillInv, ListRight, Listing
  <2>6. ASSUME Option = "-mapallin"
        PROVE  {printed[k] : k \in DOMAIN printed} = {<<v, pagemap[v]>> : v \in Resident}
    <3>1. ToList = Resident
      BY <2>2, <2>3, <2>6 DEF ToList
    <3> QED
      BY <2>6, <3>1 DEF StillInv, ListRight, Listing
  <2> QED
    BY <2>1, <2>4, <2>5, <2>6 DEF ExactWhenStill
<1> QED
  BY <1>1, InitType, StepType, InitStill, StepStill, PTL DEF PSpec
===============================================================================
