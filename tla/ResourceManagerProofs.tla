------------------------- MODULE ResourceManagerProofs -------------------------
(***************************************************************************)
(* What the reduction loop of Banker computes, the safety properties of    *)
(* ResourceManager, and that it implements ResourceAllocator, for every    *)
(* number of threads and resource types, every ExistingRes, every claim    *)
(* and request and either avoid flag.                                      *)
(*                                                                         *)
(* The provers have no induction rule of their own; CountUp derives one    *)
(* over an interval from the least-number principle, with the property as  *)
(* a set.                                                                  *)
(***************************************************************************)
EXTENDS ResourceManager, FiniteSetTheorems, WellFoundedInduction, TLAPS

\* Every non-empty set of naturals has a least element.
LEMMA LeastNat ==
  ASSUME NEW S \in SUBSET Nat, S # {}
  PROVE  \E m \in S : \A k \in S : m <= k
<1>1. PICK m \in S : \A k \in S : ~ (<<k, m>> \in OpToRel(<, Nat))
  BY NatLessThanWellFounded, WFMin
<1>2. \A k \in S : <<k, m>> \in OpToRel(<, Nat) <=> k < m
  BY DEF OpToRel
<1>3. \A k \in S : m \in Nat /\ k \in Nat /\ ~(k < m)
  BY <1>1, <1>2
<1>4. \A k \in S : m <= k
  BY <1>3
<1> QED
  BY <1>4

\* Induction on 0 .. n for membership in a set.
LEMMA CountUp ==
  ASSUME NEW n \in Nat, NEW S, 0 \in S,
         \A k \in 0 .. n : k < n /\ k \in S => k+1 \in S
  PROVE  \A k \in 0 .. n : k \in S
<1> DEFINE Out == {k \in 0 .. n : k \notin S}
<1>1. SUFFICES ASSUME Out # {} PROVE FALSE
  OBVIOUS
<1>2. Out \in SUBSET Nat
  OBVIOUS
<1>3. PICK m \in Out : \A k \in Out : m <= k
  BY <1>1, <1>2, LeastNat
<1>4. m \in 1 .. n /\ m-1 \in 0 .. n
  BY <1>3
<1>5. m-1 \in S
  BY <1>3, <1>4
<1> QED
  BY <1>3, <1>4, <1>5

-------------------------------------------------------------------------------
(* Sums *)

\* s lists the running totals of v.
Totals(s, v) ==
  /\ s \in [0 .. N -> Int]
  /\ s[0] = 0
  /\ \A n \in Thread : s[n+1] = s[n] + v[n]

\* The recursive definition of Total has a solution: its running totals.
LEMMA TotalDefined ==
  ASSUME NEW v \in [Thread -> Int]
  PROVE  \E s : Totals(s, v) /\ Total(v) = s[N]
<1> USE SizeAssumption
<1> DEFINE Upto(m, s) ==
             /\ s \in [0 .. m -> Int]
             /\ s = [n \in 0 .. m |-> IF n = 0 THEN 0 ELSE s[n-1] + v[n-1]]
           Ok == {m \in 0 .. N : \E s : Upto(m, s)}
<1>1. 0 \in Ok
  <2>1. Upto(0, [n \in 0 .. 0 |-> 0])
    OBVIOUS
  <2> HIDE DEF Upto
  <2> QED
    BY <2>1
<1>2. ASSUME NEW m \in 0 .. N, m < N, m \in Ok
      PROVE  m+1 \in Ok
  <2>1. PICK s : Upto(m, s)
    BY <1>2
  <2> DEFINE t == [n \in 0 .. m+1 |-> IF n = m+1 THEN s[m] + v[m] ELSE s[n]]
  <2>2. s[m] + v[m] \in Int
    BY <2>1, <1>2 DEF Thread
  <2>3. t \in [0 .. m+1 -> Int]
    BY <2>1, <2>2
  <2>4. \A n \in 0 .. m+1 : t[n] = IF n = 0 THEN 0 ELSE t[n-1] + v[n-1]
    <3> SUFFICES ASSUME NEW n \in 0 .. m+1
                 PROVE  t[n] = IF n = 0 THEN 0 ELSE t[n-1] + v[n-1]
      OBVIOUS
    <3>1. CASE n = m+1
      BY <3>1
    <3>2. CASE n # m+1
      <4>1. n \in 0 .. m
        BY <3>2
      <4>2. s[n] = IF n = 0 THEN 0 ELSE s[n-1] + v[n-1]
        BY <2>1, <4>1
      <4> QED
        BY <3>2, <4>1, <4>2
    <3> QED
      BY <3>1, <3>2
  <2>5. Upto(m+1, t)
    BY <2>3, <2>4
  <2> HIDE DEF Upto, t
  <2>6. m+1 \in 0 .. N
    BY <1>2
  <2> QED
    BY <2>5, <2>6
<1>3. N \in Ok
  <2> HIDE DEF Ok
  <2> QED
    BY <1>1, <1>2, CountUp
<1> DEFINE Sum(s) == s = [n \in 0 .. N |-> IF n = 0 THEN 0 ELSE s[n-1] + v[n-1]]
           total == CHOOSE s : Sum(s)
<1>4. PICK w : Upto(N, w)
  BY <1>3
<1>5. Sum(total)
  BY <1>4
<1>6. Total(v) = total[N]
  BY DEF Total
<1>7. total \in [0 .. N -> Int] /\ total[0] = 0 /\ \A n \in Thread : total[n+1] = total[n] + v[n]
  <2> HIDE DEF total
  <2>1. \A n \in 0 .. N : total[n] = IF n = 0 THEN 0 ELSE total[n-1] + v[n-1]
    BY <1>5
  <2>2. total[0] = 0
    BY <2>1
  <2>3. \A n \in Thread : total[n+1] = total[n] + v[n]
    BY <2>1 DEF Thread
  <2> DEFINE Int0 == {n \in 0 .. N : total[n] \in Int}
  <2>4. 0 \in Int0
    BY <2>2
  <2>5. \A n \in 0 .. N : n < N /\ n \in Int0 => n+1 \in Int0
    BY <2>3 DEF Thread
  <2>6. \A n \in 0 .. N : n \in Int0
    BY <2>4, <2>5, CountUp
  <2> QED
    BY <1>5, <2>2, <2>3, <2>6
<1> QED
  BY <1>6, <1>7 DEF Totals

LEMMA TotalType ==
  ASSUME NEW v \in [Thread -> Int]
  PROVE  Total(v) \in Int
<1>1. PICK s : Totals(s, v) /\ Total(v) = s[N]
  BY TotalDefined
<1> QED
  BY <1>1, SizeAssumption DEF Totals

\* Sums add up pointwise.
LEMMA TotalPlus ==
  ASSUME NEW u \in [Thread -> Int], NEW v \in [Thread -> Int],
         NEW w \in [Thread -> Int], \A i \in Thread : w[i] = u[i] + v[i]
  PROVE  Total(w) = Total(u) + Total(v)
<1> USE SizeAssumption DEF Thread
<1>1. PICK a : Totals(a, u) /\ Total(u) = a[N]
  BY TotalDefined
<1>2. PICK b : Totals(b, v) /\ Total(v) = b[N]
  BY TotalDefined
<1>3. PICK c : Totals(c, w) /\ Total(w) = c[N]
  BY TotalDefined
<1> DEFINE Ok == {n \in 0 .. N : c[n] = a[n] + b[n]}
<1>4. 0 \in Ok
  BY <1>1, <1>2, <1>3 DEF Totals
<1>5. ASSUME NEW n \in 0 .. N, n < N, n \in Ok
      PROVE  n+1 \in Ok
  <2>1. n \in Thread /\ n+1 \in 0 .. N
    BY <1>5
  <2>2. a[n+1] = a[n] + u[n] /\ b[n+1] = b[n] + v[n] /\ c[n+1] = c[n] + w[n]
    BY <1>1, <1>2, <1>3, <2>1 DEF Totals
  <2>3. /\ a[n] \in Int /\ b[n] \in Int /\ c[n] = a[n] + b[n]
        /\ u[n] \in Int /\ v[n] \in Int /\ w[n] = u[n] + v[n]
    BY <1>1, <1>2, <1>5, <2>1 DEF Totals
  <2> QED
    BY <2>1, <2>2, <2>3, SMTT(40)
<1>6. N \in Ok
  <2>1. \A n \in 0 .. N : n < N /\ n \in Ok => n+1 \in Ok
    BY <1>5
  <2> HIDE DEF Ok
  <2>2. \A n \in 0 .. N : n \in Ok
    BY <1>4, <2>1, CountUp
  <2> QED
    BY <2>2
<1> QED
  BY <1>1, <1>2, <1>3, <1>6

\* A sum of naturals is a natural.
LEMMA TotalNat ==
  ASSUME NEW v \in [Thread -> Nat]
  PROVE  Total(v) \in Nat
<1> USE SizeAssumption DEF Thread
<1>1. v \in [Thread -> Int]
  OBVIOUS
<1>2. PICK s : Totals(s, v) /\ Total(v) = s[N]
  BY <1>1, TotalDefined
<1> DEFINE Ok == {n \in 0 .. N : s[n] \in Nat}
<1>3. 0 \in Ok
  BY <1>2 DEF Totals
<1>4. ASSUME NEW n \in 0 .. N, n < N, n \in Ok
      PROVE  n+1 \in Ok
  BY <1>2, <1>4 DEF Totals
<1>5. N \in Ok
  <2>1. \A n \in 0 .. N : n < N /\ n \in Ok => n+1 \in Ok
    BY <1>4
  <2> HIDE DEF Ok
  <2>2. \A n \in 0 .. N : n \in Ok
    BY <1>3, <2>1, CountUp
  <2> QED
    BY <2>2
<1> QED
  BY <1>2, <1>5

\* A function that is zero everywhere but at t sums to its value at t.
LEMMA TotalSingle ==
  ASSUME NEW t \in Thread, NEW d \in Int, NEW v \in [Thread -> Int],
         \A i \in Thread : v[i] = IF i = t THEN d ELSE 0
  PROVE  Total(v) = d
<1> USE SizeAssumption DEF Thread
<1>1. PICK s : Totals(s, v) /\ Total(v) = s[N]
  BY TotalDefined
<1> DEFINE Ok == {n \in 0 .. N : s[n] = IF n > t THEN d ELSE 0}
<1>2. 0 \in Ok
  BY <1>1 DEF Totals
<1>3. ASSUME NEW n \in 0 .. N, n < N, n \in Ok
      PROVE  n+1 \in Ok
  <2>1. n \in Thread /\ n+1 \in 0 .. N /\ s[n+1] = s[n] + v[n]
    BY <1>1, <1>3 DEF Totals
  <2> QED
    BY <1>3, <2>1
<1>4. N \in Ok
  <2>1. \A n \in 0 .. N : n < N /\ n \in Ok => n+1 \in Ok
    BY <1>3
  <2> HIDE DEF Ok
  <2>2. \A n \in 0 .. N : n \in Ok
    BY <1>2, <2>1, CountUp
  <2> QED
    BY <2>2
<1> QED
  BY <1>1, <1>4

-------------------------------------------------------------------------------
(* What a set of threads holds *)

Matrix == [Thread -> Vector]

Share(alloc, D, r) == [i \in Thread |-> IF i \in D THEN alloc[i][r] ELSE 0]

LEMMA ShareType ==
  ASSUME NEW alloc \in Matrix, NEW D, NEW r \in Res
  PROVE  /\ Share(alloc, D, r) \in [Thread -> Nat]
         /\ Share(alloc, D, r) \in [Thread -> Int]
         /\ Held(alloc, D, r) = Total(Share(alloc, D, r))
BY DEF Share, Held, Matrix, Vector

LEMMA HeldType ==
  ASSUME NEW alloc \in Matrix, NEW D, NEW r \in Res
  PROVE  Held(alloc, D, r) \in Nat
BY ShareType, TotalNat

\* Two disjoint sets hold together what they hold apart.
LEMMA HeldUnion ==
  ASSUME NEW alloc \in Matrix, NEW D, NEW E, NEW r \in Res, D \cap E = {}
  PROVE  Held(alloc, D \cup E, r) = Held(alloc, D, r) + Held(alloc, E, r)
<1>1. \A i \in Thread :
        Share(alloc, D \cup E, r)[i] = Share(alloc, D, r)[i] + Share(alloc, E, r)[i]
  BY DEF Share, Matrix, Vector
<1>2. /\ Share(alloc, D, r) \in [Thread -> Int]
      /\ Share(alloc, E, r) \in [Thread -> Int]
      /\ Share(alloc, D \cup E, r) \in [Thread -> Int]
  BY ShareType
<1>3. Total(Share(alloc, D \cup E, r)) =
        Total(Share(alloc, D, r)) + Total(Share(alloc, E, r))
  BY <1>1, <1>2, TotalPlus
<1> QED
  BY <1>3, ShareType

LEMMA HeldSingle ==
  ASSUME NEW alloc \in Matrix, NEW t \in Thread, NEW r \in Res
  PROVE  Held(alloc, {t}, r) = alloc[t][r]
<1>1. \A i \in Thread :
        Share(alloc, {t}, r)[i] = IF i = t THEN alloc[t][r] ELSE 0
  BY DEF Share
<1>2. alloc[t][r] \in Int
  BY DEF Matrix, Vector
<1>3. Share(alloc, {t}, r) \in [Thread -> Int]
  BY ShareType
<1>4. Total(Share(alloc, {t}, r)) = alloc[t][r]
  BY <1>1, <1>2, <1>3, TotalSingle
<1> QED
  BY <1>4, ShareType

LEMMA HeldMono ==
  ASSUME NEW alloc \in Matrix, NEW D, NEW E, NEW r \in Res, D \subseteq E
  PROVE  Held(alloc, D, r) <= Held(alloc, E, r)
<1>1. E = D \cup (E \ D) /\ D \cap (E \ D) = {}
  OBVIOUS
<1>2. Held(alloc, E, r) = Held(alloc, D, r) + Held(alloc, E \ D, r)
  BY <1>1, HeldUnion
<1> QED
  BY <1>2, HeldType

LEMMA HeldEmpty ==
  ASSUME NEW alloc \in Matrix, NEW r \in Res
  PROVE  Held(alloc, {}, r) = 0
<1>1. Held(alloc, {} \cup {}, r) = Held(alloc, {}, r) + Held(alloc, {}, r)
  BY HeldUnion
<1>2. {} \cup {} = {}
  OBVIOUS
<1> QED
  BY <1>1, <1>2, HeldType

\* Changing one row changes what a set holds by the change of that row, if the
\* thread is in the set.
LEMMA HeldChange ==
  ASSUME NEW alloc \in Matrix, NEW t \in Thread, NEW row \in Vector,
         NEW new, new = [alloc EXCEPT ![t] = row], NEW D, NEW r \in Res
  PROVE  /\ new \in Matrix
         /\ t \in D => Held(new, D, r) = Held(alloc, D, r) + row[r] - alloc[t][r]
         /\ t \notin D => Held(new, D, r) = Held(alloc, D, r)
<1> DEFINE d  == IF t \in D THEN row[r] - alloc[t][r] ELSE 0
           dv == [i \in Thread |-> IF i = t THEN d ELSE 0]
<1>1. new \in Matrix
  BY DEF Matrix
<1>2. row[r] \in Int /\ alloc[t][r] \in Int
  BY DEF Matrix, Vector
<1>3. d \in Int /\ dv \in [Thread -> Int]
  BY <1>2
<1>4. Total(dv) = d
  <2> HIDE DEF d
  <2> QED
    BY <1>3, TotalSingle
<1>5. \A i \in Thread : Share(new, D, r)[i] = Share(alloc, D, r)[i] + dv[i]
  BY DEF Share, Matrix, Vector
<1>6. Total(Share(new, D, r)) = Total(Share(alloc, D, r)) + Total(dv)
  <2> HIDE DEF dv
  <2> QED
    BY <1>1, <1>3, <1>5, ShareType, TotalPlus
<1>7. Held(new, D, r) = Held(alloc, D, r) + d
  BY <1>1, <1>4, <1>6, ShareType
<1> QED
  BY <1>1, <1>2, <1>7, HeldType

-------------------------------------------------------------------------------
(* The reduction loop *)

LEMMA RoundPicks ==
  ASSUME NEW s \in State, NEW alloc \in Matrix, NEW demand
  PROVE  /\ Round(s, alloc, demand) \in State
         /\ Fitting(s, demand) = {} => Round(s, alloc, demand) = s
         /\ Fitting(s, demand) # {} =>
              \E x \in Fitting(s, demand) :
                Round(s, alloc, demand) =
                  [work |-> Plus(s.work, alloc[x]), finish |-> s.finish \cup {x}]
<1> DEFINE x == FirstOf(Fitting(s, demand))
<1>1. CASE Fitting(s, demand) = {}
  BY <1>1 DEF Round
<1>2. CASE Fitting(s, demand) # {}
  <2>1. Fitting(s, demand) \in SUBSET Nat /\ Fitting(s, demand) \subseteq Thread
    BY SizeAssumption DEF Fitting, Thread
  <2>2. \E m \in Fitting(s, demand) : \A k \in Fitting(s, demand) : m <= k
    BY <1>2, <2>1, LeastNat
  <2>3. x \in Fitting(s, demand)
    BY <2>2 DEF FirstOf
  <2>4. Round(s, alloc, demand) =
          [work |-> Plus(s.work, alloc[x]), finish |-> s.finish \cup {x}]
    BY <1>2 DEF Round
  <2> HIDE DEF x
  <2>5. Plus(s.work, alloc[x]) \in [Res -> Int]
    BY <2>1, <2>3 DEF Plus, Vector, State, Matrix
  <2>6. s.finish \cup {x} \in SUBSET Thread
    BY <2>1, <2>3 DEF State
  <2>7. [work |-> Plus(s.work, alloc[x]), finish |-> s.finish \cup {x}] \in State
    BY <2>5, <2>6 DEF State
  <2> QED
    BY <1>2, <2>3, <2>4, <2>7
<1> QED
  BY <1>1, <1>2

\* run lists the states of the loop.
Runs(run, work, alloc, demand) ==
  /\ run \in [0 .. N -> State]
  /\ run[0] = [work |-> work, finish |-> {}]
  /\ \A k \in 0 .. N-1 : run[k+1] = Round(run[k], alloc, demand)

\* The recursive definition of Rounds has a solution.
LEMMA RoundsDefined ==
  ASSUME NEW work \in Vector, NEW alloc \in Matrix, NEW demand
  PROVE  Runs(Rounds(work, alloc, demand), work, alloc, demand)
<1> USE SizeAssumption
<1> DEFINE start == [work |-> work, finish |-> {}]
           body == [s \in State |-> Round(s, alloc, demand)]
           next(s) == body[s]
           Upto(m, s) ==
             /\ s \in [0 .. m -> State]
             /\ s = [k \in 0 .. m |-> IF k = 0 THEN start ELSE next(s[k-1])]
           Ok == {m \in 0 .. N : \E s : Upto(m, s)}
<1>0. start \in State
  BY DEF State, Vector
<1>a. \A s \in State : next(s) \in State /\ next(s) = Round(s, alloc, demand)
  BY RoundPicks
<1> HIDE DEF start, next
<1>1. 0 \in Ok
  <2>1. Upto(0, [k \in 0 .. 0 |-> start])
    BY <1>0
  <2> HIDE DEF Upto
  <2> QED
    BY <2>1
<1>2. ASSUME NEW m \in 0 .. N, m < N, m \in Ok
      PROVE  m+1 \in Ok
  <2>1. PICK s : Upto(m, s)
    BY <1>2
  <2> DEFINE t == [k \in 0 .. m+1 |-> IF k = m+1 THEN next(s[m]) ELSE s[k]]
  <2>2. next(s[m]) \in State
    BY <2>1, <1>2, <1>a
  <2>3. t \in [0 .. m+1 -> State]
    BY <2>1, <2>2
  <2>4. \A k \in 0 .. m+1 : t[k] = IF k = 0 THEN start ELSE next(t[k-1])
    <3> SUFFICES ASSUME NEW k \in 0 .. m+1
                 PROVE  t[k] = IF k = 0 THEN start ELSE next(t[k-1])
      OBVIOUS
    <3>1. CASE k = m+1
      <4>1. k # 0 /\ k-1 = m /\ t[k] = next(s[m]) /\ t[m] = s[m]
        BY <3>1
      <4> QED
        BY <4>1
    <3>2. CASE k # m+1
      <4>1. k \in 0 .. m /\ t[k] = s[k]
        BY <3>2
      <4>2. k # 0 => t[k-1] = s[k-1]
        BY <4>1
      <4>3. s[k] = IF k = 0 THEN start ELSE next(s[k-1])
        BY <2>1, <4>1
      <4> QED
        BY <4>1, <4>2, <4>3
    <3> QED
      BY <3>1, <3>2
  <2>5. Upto(m+1, t)
    BY <2>3, <2>4
  <2> HIDE DEF Upto, t
  <2>6. m+1 \in 0 .. N
    BY <1>2
  <2> QED
    BY <2>5, <2>6
<1>3. N \in Ok
  <2>1. \A m \in 0 .. N : m < N /\ m \in Ok => m+1 \in Ok
    BY <1>2
  <2> HIDE DEF Ok
  <2>2. \A m \in 0 .. N : m \in Ok
    BY <1>1, <2>1, CountUp
  <2> QED
    BY <2>2
<1> DEFINE Run(s) == s = [k \in 0 .. N |-> IF k = 0 THEN start ELSE next(s[k-1])]
           run == CHOOSE s : Run(s)
<1>4. PICK w : Upto(N, w)
  BY <1>3
<1>5. Run(run)
  BY <1>4
<1>6. Rounds(work, alloc, demand) = run
  BY DEF Rounds, start, next
<1>7. run \in [0 .. N -> State] /\ run[0] = start /\ \A k \in 0 .. N-1 : run[k+1] = next(run[k])
  <2> HIDE DEF run
  <2>1. \A k \in 0 .. N : run[k] = IF k = 0 THEN start ELSE next(run[k-1])
    BY <1>5
  <2>2. run[0] = start
    BY <2>1
  <2>3. \A k \in 0 .. N-1 : run[k+1] = next(run[k])
    <3> TAKE k \in 0 .. N-1
    <3>1. k+1 \in 0 .. N /\ k+1 # 0 /\ (k+1)-1 = k
      OBVIOUS
    <3> QED
      BY <2>1, <3>1
  <2> DEFINE Typed == {k \in 0 .. N : run[k] \in State}
  <2>4. 0 \in Typed
    BY <2>2, <1>0
  <2>5. \A k \in 0 .. N : k < N /\ k \in Typed => k+1 \in Typed
    BY <2>3, <1>a
  <2>6. \A k \in 0 .. N : k \in Typed
    BY <2>4, <2>5, CountUp
  <2>7. run = [k \in 0 .. N |-> run[k]]
    BY <1>5
  <2> QED
    BY <2>7, <2>2, <2>3, <2>6
<1> QED
  BY <1>6, <1>7, <1>a, SMTT(40) DEF Runs, start

\* What holds of the state s after k rounds.
Reduced(s, k, work, alloc, demand) ==
  /\ \A r \in Res : s.work[r] = work[r] + Held(alloc, s.finish, r)
  /\ \A D \in SUBSET Thread : Hopeless(work, alloc, demand, D) => D \cap s.finish = {}
  /\ Fitting(s, demand) = {} \/ Cardinality(s.finish) = k

\* A round adds the holdings of a thread that is in no hopeless set.
LEMMA RoundReduces ==
  ASSUME NEW work \in Vector, NEW alloc \in Matrix, NEW demand \in Matrix,
         NEW s \in State, NEW k \in Nat,
         Reduced(s, k, work, alloc, demand)
  PROVE  Reduced(Round(s, alloc, demand), k+1, work, alloc, demand)
<1>1. CASE Fitting(s, demand) = {}
  BY <1>1, RoundPicks DEF Reduced
<1>2. CASE Fitting(s, demand) # {}
  <2>1. PICK x \in Fitting(s, demand) :
          Round(s, alloc, demand) =
            [work |-> Plus(s.work, alloc[x]), finish |-> s.finish \cup {x}]
    BY <1>2, RoundPicks
  <2> DEFINE t == [work |-> Plus(s.work, alloc[x]), finish |-> s.finish \cup {x}]
  <2>2. x \in Thread /\ x \notin s.finish /\ arrLessThan(demand[x], s.work)
    BY DEF Fitting
  <2>3. ASSUME NEW r \in Res
        PROVE  t.work[r] = work[r] + Held(alloc, t.finish, r)
    <3>1. Held(alloc, s.finish \cup {x}, r) = Held(alloc, s.finish, r) + alloc[x][r]
      <4>1. s.finish \cap {x} = {}
        BY <2>2
      <4>2. Held(alloc, s.finish \cup {x}, r)
              = Held(alloc, s.finish, r) + Held(alloc, {x}, r)
        BY <4>1, HeldUnion
      <4> QED
        BY <4>2, <2>2, HeldSingle
    <3>2. t.work[r] = s.work[r] + alloc[x][r]
      BY DEF Plus
    <3>3. s.work[r] = work[r] + Held(alloc, s.finish, r)
      BY DEF Reduced
    <3>4. work[r] \in Int /\ alloc[x][r] \in Int /\ Held(alloc, s.finish, r) \in Int
      BY <2>2, HeldType DEF Vector, Matrix
    <3> QED
      BY <3>1, <3>2, <3>3, <3>4
  <2>4. ASSUME NEW D \in SUBSET Thread, Hopeless(work, alloc, demand, D)
        PROVE  D \cap t.finish = {}
    <3>1. D \cap s.finish = {}
      BY <2>4 DEF Reduced
    <3>2. SUFFICES ASSUME x \in D PROVE FALSE
      BY <3>1
    <3>3. PICK r \in Res : demand[x][r] > work[r] + Held(alloc, Thread \ D, r)
      BY <2>4, <3>2 DEF Hopeless
    <3>4. s.finish \subseteq Thread \ D
      BY <3>1 DEF State
    <3>5. Held(alloc, s.finish, r) <= Held(alloc, Thread \ D, r)
      BY <3>4, HeldMono
    <3>6. demand[x][r] <= work[r] + Held(alloc, s.finish, r)
      BY <2>2 DEF arrLessThan, Reduced
    <3>7. /\ demand[x][r] \in Int /\ work[r] \in Int
          /\ Held(alloc, s.finish, r) \in Int /\ Held(alloc, Thread \ D, r) \in Int
      BY <2>2, HeldType DEF Vector, Matrix
    <3> QED
      BY <3>3, <3>5, <3>6, <3>7
  <2>5. Cardinality(t.finish) = k+1
    <3>1. IsFiniteSet(s.finish)
      <4>1. IsFiniteSet(Thread)
        BY FS_Interval, SizeAssumption DEF Thread
      <4>2. s.finish \in SUBSET Thread
        BY DEF State
      <4> QED
        BY <4>1, <4>2, FS_Subset
    <3>2. Cardinality(s.finish) = k
      BY <1>2 DEF Reduced
    <3> QED
      BY <2>2, <3>1, <3>2, FS_AddElement
  <2> HIDE DEF t
  <2> QED
    BY <2>1, <2>3, <2>4, <2>5 DEF Reduced, t
<1> QED
  BY <1>1, <1>2

\* The loop finds exactly what it should: the threads it leaves unfinished are a
\* hopeless set, and every hopeless set is among them (is_state_safe() rm.c
\* 129-143 and rm_detection() rm.c 449-465, whatever the order of the scan).
THEOREM ReductionExact ==
  ASSUME NEW work \in Vector, NEW alloc \in Matrix, NEW demand \in Matrix
  PROVE  LET F == Finished(work, alloc, demand)
         IN  /\ F \subseteq Thread
             /\ Hopeless(work, alloc, demand, Thread \ F)
             /\ \A D \in SUBSET Thread :
                  Hopeless(work, alloc, demand, D) => D \subseteq Thread \ F
<1> USE SizeAssumption
<1> DEFINE run == Rounds(work, alloc, demand)
           Ok  == {k \in 0 .. N : Reduced(run[k], k, work, alloc, demand)}
           F   == run[N].finish
<1>1. Runs(run, work, alloc, demand)
  BY RoundsDefined
<1>2. 0 \in Ok
  <2>1. run[0] = [work |-> work, finish |-> {}]
    BY <1>1 DEF Runs
  <2>2. \A r \in Res : Held(alloc, {}, r) = 0 /\ work[r] \in Int
    BY HeldEmpty DEF Vector
  <2>3. Cardinality({}) = 0
    BY FS_EmptySet
  <2> HIDE DEF run
  <2>4. run[0].work = work /\ run[0].finish = {}
    BY <2>1
  <2>5. Reduced(run[0], 0, work, alloc, demand)
    BY <2>2, <2>3, <2>4 DEF Reduced
  <2> QED
    BY <2>5
<1>3. ASSUME NEW k \in 0 .. N, k < N, k \in Ok
      PROVE  k+1 \in Ok
  <2>1. run[k] \in State /\ run[k+1] = Round(run[k], alloc, demand)
    BY <1>1, <1>3 DEF Runs
  <2>2. Reduced(run[k], k, work, alloc, demand)
    BY <1>3
  <2> HIDE DEF run
  <2>3. Reduced(run[k+1], k+1, work, alloc, demand)
    BY <2>1, <2>2, RoundReduces
  <2> QED
    BY <1>3, <2>3
<1>4. Reduced(run[N], N, work, alloc, demand)
  <2>1. \A k \in 0 .. N : k < N /\ k \in Ok => k+1 \in Ok
    BY <1>3
  <2> HIDE DEF Ok
  <2>2. \A k \in 0 .. N : k \in Ok
    BY <1>2, <2>1, CountUp
  <2>3. N \in Ok
    BY <2>2
  <2> QED
    BY <2>3 DEF Ok
<1>5. run[N] \in State /\ F \subseteq Thread
  BY <1>1 DEF Runs, State
<1> HIDE DEF run
<1>6. Fitting(run[N], demand) = {}
  <2>1. CASE Cardinality(F) = N
    <3>1. IsFiniteSet(Thread) /\ Cardinality(Thread) = N
      BY FS_Interval DEF Thread
    <3>2. F = Thread
      BY <2>1, <3>1, <1>5, FS_Subset
    <3> QED
      BY <3>2 DEF Fitting
  <2> QED
    BY <2>1, <1>4 DEF Reduced
<1>7. ASSUME NEW i \in Thread \ F
      PROVE  \E r \in Res : demand[i][r] > work[r] + Held(alloc, Thread \ (Thread \ F), r)
  <2>1. PICK r \in Res : ~(demand[i][r] <= run[N].work[r])
    BY <1>6 DEF Fitting, arrLessThan
  <2>2. run[N].work[r] = work[r] + Held(alloc, F, r)
    BY <1>4 DEF Reduced
  <2>3. Thread \ (Thread \ F) = F
    BY <1>5
  <2>4. demand[i][r] \in Int /\ work[r] \in Int /\ Held(alloc, F, r) \in Int
    BY HeldType DEF Vector, Matrix
  <2>5. demand[i][r] > work[r] + Held(alloc, F, r)
    BY <2>1, <2>2, <2>4
  <2> HIDE DEF F
  <2> QED
    BY <2>3, <2>5
<1>8. Hopeless(work, alloc, demand, Thread \ F)
  BY <1>7 DEF Hopeless
<1>9. \A D \in SUBSET Thread : Hopeless(work, alloc, demand, D) => D \subseteq Thread \ F
  BY <1>4 DEF Reduced
<1>10. Finished(work, alloc, demand) = F
  BY DEF Finished, run
<1> QED
  BY <1>5, <1>8, <1>9, <1>10

\* All threads finish in the loop exactly when the state is safe.
COROLLARY ReductionSafe ==
  ASSUME NEW work \in Vector, NEW alloc \in Matrix, NEW demand \in Matrix
  PROVE  Finished(work, alloc, demand) = Thread <=> Safe(work, alloc, demand)
<1> DEFINE F == Finished(work, alloc, demand)
<1>1. /\ F \subseteq Thread
      /\ Hopeless(work, alloc, demand, Thread \ F)
      /\ \A D \in SUBSET Thread :
           Hopeless(work, alloc, demand, D) => D \subseteq Thread \ F
  BY ReductionExact
<1> HIDE DEF F
<1>2. F = Thread => Safe(work, alloc, demand)
  BY <1>1 DEF Safe
<1>3. Safe(work, alloc, demand) => Thread \ F = {}
  BY <1>1 DEF Safe
<1> QED
  BY <1>1, <1>2, <1>3 DEF F

-------------------------------------------------------------------------------
(* The types *)

USE SizeAssumption, RmAssumption DEF Matrix

LEMMA VectorArith ==
  ASSUME NEW a \in Vector, NEW b \in Vector
  PROVE  /\ Plus(a, b) \in Vector
         /\ arrLessThan(b, a) => Minus(a, b) \in Vector
         /\ Zero \in Vector
         /\ arrLessThan(Zero, a)
         /\ \A r \in Res : Plus(a, b)[r] = a[r] + b[r] /\ Minus(a, b)[r] = a[r] - b[r]
BY DEF Vector, Plus, Minus, Zero, arrLessThan

\* The part of the inductive invariant that the types rest on.
Inv1 == TypeOK /\ Bookkeeping

LEMMA InitInv1 == Init => Inv1
<1> SUFFICES ASSUME Init PROVE Inv1
  OBVIOUS
<1>1. TypeOK
  <2>1. 0 \in 0 .. M-1
    OBVIOUS
  <2> QED
    BY <2>1, VectorArith DEF Init, TypeOK, NoClaim, PC
<1>2. Bookkeeping
  BY VectorArith DEF Init, Bookkeeping, NoClaim, arrLessThan, Zero, Res
<1> QED
  BY <1>1, <1>2 DEF Inv1

-------------------------------------------------------------------------------
(* Each action keeps the types and the bookkeeping. *)

LEMMA Inv1Unchanged == Inv1 /\ UNCHANGED vars => Inv1'
BY DEF Inv1, TypeOK, Bookkeeping, vars, PC

LEMMA Inv1ClaimAccepted ==
  ASSUME Inv1, UNCHANGED DA, NEW t \in Thread, NEW c \in Claims, ClaimAccepted(t, c)
  PROVE  Inv1'
<1>1. c \in Vector /\ 0 \in 0 .. M-1
  OBVIOUS
<1>2. TypeOK'
  BY <1>1 DEF Inv1, TypeOK, ClaimAccepted, matrices, PC
<1>3. Bookkeeping'
  BY <1>1 DEF Inv1, TypeOK, Bookkeeping, ClaimAccepted, matrices, PC, NoClaim
<1> QED
  BY <1>2, <1>3 DEF Inv1

LEMMA Inv1ClaimRejected ==
  ASSUME Inv1, UNCHANGED DA, NEW t \in Thread, NEW c \in Claims, ClaimRejected(t, c)
  PROVE  Inv1'
<1>1. TypeOK'
  BY DEF Inv1, TypeOK, ClaimRejected, matrices, PC
<1>2. Bookkeeping'
  BY DEF Inv1, TypeOK, Bookkeeping, ClaimRejected, matrices, PC
<1> QED
  BY <1>1, <1>2 DEF Inv1

LEMMA Inv1ClaimColumn ==
  ASSUME Inv1, UNCHANGED DA, NEW t \in Thread, ClaimColumn(t)
  PROVE  Inv1'
<1> DEFINE col == claim[t].col
           c   == claim[t].vector
<1>1. col \in Res /\ c \in Vector /\ c[col] \in Nat
  <2>1. claim[t] \in [vector : Vector, col : 0 .. M-1]
    BY DEF Inv1, TypeOK
  <2>2. col \in 0 .. M-1 /\ c \in Vector
    BY <2>1
  <2> QED
    BY <2>2 DEF Res, Vector
<1>2. /\ pc[t] = "claiming"
      /\ maxDemand' = [maxDemand EXCEPT ![t][col] = c[col]]
      /\ need' = [need EXCEPT ![t][col] = c[col]]
      /\ \/ /\ col = M-1
            /\ pc' = [pc EXCEPT ![t] = "idle"]
            /\ claim' = [claim EXCEPT ![t] = NoClaim]
         \/ /\ col # M-1
            /\ pc' = pc
            /\ claim' = [claim EXCEPT ![t].col = col + 1]
      /\ UNCHANGED <<available, allocation, requests>>
  BY DEF ClaimColumn
<1>3. TypeOK'
  <2>1. maxDemand' \in [Thread -> Vector] /\ need' \in [Thread -> Vector]
    BY <1>1, <1>2 DEF Inv1, TypeOK, Vector
  <2>2. pc' \in [Thread -> PC]
    BY <1>2 DEF Inv1, TypeOK, PC
  <2>3. claim' \in [Thread -> [vector : Vector, col : 0 .. M-1]]
    <3>1. NoClaim \in [vector : Vector, col : 0 .. M-1]
      BY VectorArith, <1>1 DEF NoClaim
    <3>2. col # M-1 => col + 1 \in 0 .. M-1
      BY <1>1 DEF Res
    <3> QED
      BY <1>2, <3>1, <3>2 DEF Inv1, TypeOK
  <2> QED
    BY <1>2, <2>1, <2>2, <2>3 DEF Inv1, TypeOK
<1>4. Bookkeeping'
  <2> SUFFICES ASSUME NEW u \in Thread
               PROVE  /\ arrLessThan(requests[u], need[u])'
                      /\ (pc[u] \notin {"waiting", "woken"} => requests[u] = Zero)'
                      /\ (pc[u] \in {"started", "claiming"} => allocation[u] = Zero)'
                      /\ arrLessThan(claim[u].vector, ExistingRes)'
                      /\ (pc[u] = "started" => claim[u] = NoClaim)'
                      /\ (pc[u] \in {"started", "claiming"} =>
                           \A r \in Res : r >= claim[u].col => need[u][r] = 0)'
    BY DEF Bookkeeping
  <2>1. CASE u # t
    BY <1>2, <2>1 DEF Inv1, TypeOK, Bookkeeping
  <2>2. CASE u = t
    <3>1. requests[u]' = Zero /\ need'[u] \in Vector
      BY <1>2, <1>3, <2>2 DEF Inv1, Bookkeeping, TypeOK
    <3>2. arrLessThan(requests[u], need[u])'
      BY <3>1, VectorArith
    <3>3. pc'[u] \in {"idle", "claiming"} /\ (pc'[u] = "claiming" => col # M-1)
      BY <1>2, <2>2 DEF Inv1, TypeOK
    <3>4. arrLessThan(claim'[u].vector, ExistingRes)
      <4>1. claim'[u].vector \in {claim[u].vector, Zero}
        BY <1>2, <2>2 DEF Inv1, TypeOK, NoClaim
      <4> QED
        BY <4>1, VectorArith DEF Inv1, Bookkeeping
    <3>5. ASSUME pc'[u] = "claiming", NEW r \in Res, r >= claim'[u].col
          PROVE  need'[u][r] = 0
      <4>1. claim'[u].col = col + 1
        BY <1>2, <2>2, <3>3, <3>5 DEF Inv1, TypeOK
      <4>2. r # col /\ r >= col
        BY <4>1, <3>5, <1>1 DEF Res
      <4>3. need'[u][r] = need[u][r]
        BY <1>2, <2>2, <4>2 DEF Inv1, TypeOK, Vector
      <4> QED
        BY <1>2, <2>2, <4>2, <4>3 DEF Inv1, Bookkeeping
    <3> QED
      BY <1>2, <2>2, <3>1, <3>2, <3>3, <3>4, <3>5 DEF Inv1, TypeOK, Bookkeeping
  <2> QED
    BY <2>1, <2>2
<1> QED
  BY <1>3, <1>4 DEF Inv1

\* The part of a grant that a fresh request and a woken one share.
LEMMA AllocateTypes ==
  ASSUME TypeOK, NEW t \in Thread, NEW req \in Vector,
         arrLessThan(req, need[t]), CanAllocate(t, req), Allocate(t, req)
  PROVE  /\ available' \in Vector
         /\ allocation' \in [Thread -> Vector]
         /\ need' \in [Thread -> Vector]
         /\ requests' \in [Thread -> Vector]
         /\ arrLessThan(req, available)
<1>1. arrLessThan(req, available)
  BY DEF CanAllocate, is_available, Inv1, TypeOK
<1>2. available \in Vector /\ allocation[t] \in Vector /\ need[t] \in Vector
  BY DEF TypeOK
<1>3. /\ Minus(available, req) \in Vector /\ Plus(allocation[t], req) \in Vector
      /\ Minus(need[t], req) \in Vector /\ Zero \in Vector
  BY <1>1, <1>2, VectorArith
<1> QED
  BY <1>1, <1>3 DEF Allocate, TypeOK

LEMMA Inv1Granted ==
  ASSUME Inv1, UNCHANGED DA, NEW t \in Thread, NEW req \in Vector,
         arrLessThan(req, need[t]), CanAllocate(t, req), Allocate(t, req),
         pc[t] \in {"idle", "woken"}, pc' = [pc EXCEPT ![t] = "idle"],
         UNCHANGED <<maxDemand, claim>>
  PROVE  Inv1'
<1>1. TypeOK'
  BY AllocateTypes DEF Inv1, TypeOK, PC
<1>2. Bookkeeping'
  <2>1. requests'[t] = Zero /\ need'[t] \in Vector /\ arrLessThan(Zero, need'[t])
    BY <1>1, VectorArith DEF Allocate, Inv1, TypeOK
  <2> QED
    BY <2>1, <1>1 DEF Allocate, Inv1, TypeOK, Bookkeeping
<1> QED
  BY <1>1, <1>2 DEF Inv1

LEMMA Inv1RequestBlocked ==
  ASSUME Inv1, UNCHANGED DA, NEW t \in Thread, NEW req \in Requests, RequestBlocked(t, req)
  PROVE  Inv1'
<1>1. TypeOK'
  BY DEF RequestBlocked, Inv1, TypeOK, PC
<1>2. Bookkeeping'
  BY DEF RequestBlocked, Admissible, Inv1, TypeOK, Bookkeeping
<1> QED
  BY <1>1, <1>2 DEF Inv1

LEMMA Inv1Wait ==
  ASSUME Inv1, UNCHANGED DA, NEW t \in Thread, SpuriousWakeup(t) \/ WokenBlocked(t)
  PROVE  Inv1'
<1>1. TypeOK'
  BY DEF SpuriousWakeup, WokenBlocked, matrices, Inv1, TypeOK, PC
<1>2. Bookkeeping'
  BY DEF SpuriousWakeup, WokenBlocked, matrices, Inv1, TypeOK, Bookkeeping
<1> QED
  BY <1>1, <1>2 DEF Inv1

LEMMA Inv1Released ==
  ASSUME Inv1, UNCHANGED DA, NEW t \in Thread, NEW rel \in Requests, Released(t, rel)
  PROVE  Inv1'
<1>1. TypeOK'
  <2>1. available \in Vector /\ allocation[t] \in Vector /\ need[t] \in Vector
    BY DEF Inv1, TypeOK
  <2>2. /\ Plus(available, rel) \in Vector /\ Minus(allocation[t], rel) \in Vector
        /\ Plus(need[t], rel) \in Vector
    BY <2>1, VectorArith DEF Released
  <2>3. Signalled \in [Thread -> PC]
    BY DEF Signalled, Inv1, TypeOK, PC
  <2> QED
    BY <2>2, <2>3 DEF Released, Inv1, TypeOK
<1>2. Bookkeeping'
  <2>1. pc[t] = "idle" /\ pc' = Signalled /\ requests[t] = Zero
    BY DEF Released, Inv1, Bookkeeping
  <2>2. arrLessThan(Zero, need'[t])
    BY <1>1, VectorArith DEF TypeOK
  <2>3. \A u \in Thread : u # t => /\ need'[u] = need[u]
                                   /\ allocation'[u] = allocation[u]
    BY DEF Released, Inv1, TypeOK
  <2>4. \A u \in Thread : \/ pc'[u] = pc[u]
                          \/ pc[u] = "waiting" /\ pc'[u] = "woken"
    BY <2>1 DEF Signalled
  <2>5. UNCHANGED <<requests, claim>> /\ pc'[t] = "idle"
    BY <2>1 DEF Released, Signalled
  <2> QED
    BY <2>1, <2>2, <2>3, <2>4, <2>5 DEF Inv1, Bookkeeping
<1> QED
  BY <1>1, <1>2 DEF Inv1

LEMMA Inv1ThreadEnded ==
  ASSUME Inv1, UNCHANGED DA, NEW t \in Thread, ThreadEnded(t)
  PROVE  Inv1'
<1>1. TypeOK'
  BY DEF ThreadEnded, matrices, Inv1, TypeOK, PC
<1>2. Bookkeeping'
  BY DEF ThreadEnded, matrices, Inv1, TypeOK, Bookkeeping
<1> QED
  BY <1>1, <1>2 DEF Inv1

LEMMA StepInv1 == Inv1 /\ [Next]_vars => Inv1'
<1> SUFFICES ASSUME Inv1, [Next]_vars PROVE Inv1'
  OBVIOUS
<1>1. CASE UNCHANGED vars
  BY <1>1, Inv1Unchanged
<1>2. CASE Terminated
  BY <1>2, Inv1Unchanged DEF Terminated
<1>3. ASSUME NEW t \in Thread, ThreadStep(t)
      PROVE  Inv1'
  <2> UNCHANGED DA
    BY <1>3 DEF ThreadStep
  <2>1. ASSUME NEW c \in Claims, ClaimRejected(t, c) \/ ClaimAccepted(t, c)
        PROVE  Inv1'
    BY <2>1, Inv1ClaimRejected, Inv1ClaimAccepted
  <2>2. CASE ClaimColumn(t)
    BY <2>2, Inv1ClaimColumn
  <2>3. ASSUME NEW req \in Requests, RequestRefused(t, req)
        PROVE  Inv1'
    BY <2>3, Inv1Unchanged DEF RequestRefused
  <2>4. ASSUME NEW req \in Requests, RequestGranted(t, req)
        PROVE  Inv1'
    <3>1. /\ req \in Vector /\ arrLessThan(req, need[t]) /\ CanAllocate(t, req)
          /\ Allocate(t, req) /\ pc[t] \in {"idle", "woken"}
          /\ UNCHANGED <<maxDemand, claim>>
      BY <2>4 DEF RequestGranted, Admissible
    <3>2. pc' = [pc EXCEPT ![t] = "idle"]
      BY <2>4 DEF RequestGranted, Inv1, TypeOK
    <3> QED
      BY <3>1, <3>2, Inv1Granted
  <2>5. ASSUME NEW req \in Requests, RequestBlocked(t, req)
        PROVE  Inv1'
    BY <2>5, Inv1RequestBlocked
  <2>6. CASE SpuriousWakeup(t) \/ WokenBlocked(t)
    BY <2>6, Inv1Wait
  <2>7. CASE WokenGranted(t)
    <3>1. requests[t] \in Vector /\ arrLessThan(requests[t], need[t])
      BY DEF Inv1, TypeOK, Bookkeeping
    <3>2. /\ CanAllocate(t, requests[t]) /\ Allocate(t, requests[t])
          /\ pc[t] \in {"idle", "woken"} /\ pc' = [pc EXCEPT ![t] = "idle"]
          /\ UNCHANGED <<maxDemand, claim>>
      BY <2>7 DEF WokenGranted
    <3> QED
      BY <3>1, <3>2, Inv1Granted
  <2>8. ASSUME NEW rel \in Requests, Released(t, rel)
        PROVE  Inv1'
    BY <2>8, Inv1Released
  <2>9. ASSUME NEW rel \in Requests, ReleaseRefused(t, rel)
        PROVE  Inv1'
    BY <2>9, Inv1Unchanged DEF ReleaseRefused
  <2>10. CASE ThreadEnded(t)
    BY <2>10, Inv1ThreadEnded
  <2> QED
    BY <1>3, <2>1, <2>2, <2>3, <2>4, <2>5, <2>6, <2>7, <2>8, <2>9, <2>10
       DEF ThreadStep, Call
<1> QED
  BY <1>1, <1>2, <1>3 DEF Next

\* No handler ever drives a count below zero: rm_request() and rm_release()
\* subtract only what available, allocation and need hold.
THEOREM TypeCorrect == Spec => []TypeOK
<1>1. Inv1 => TypeOK
  BY DEF Inv1
<1> QED
  BY <1>1, InitInv1, StepInv1, PTL DEF Spec

\* A sleeping request still fits the claim when it is granted at last, although
\* the thread checked it before it slept.
THEOREM BookkeepingKept == Spec => []Bookkeeping
<1>1. Inv1 => Bookkeeping
  BY DEF Inv1
<1> QED
  BY <1>1, InitInv1, StepInv1, PTL DEF Spec

-------------------------------------------------------------------------------
(* Conservation and the balance of claim, allocation and need *)

Inv2 == Inv1 /\ Conservation /\ NeedBalance

LEMMA InitInv2 == Init => Inv2
<1> SUFFICES ASSUME Init PROVE Inv2
  OBVIOUS
<1>1. Inv1
  BY InitInv1
<1>2. \A r \in Res : Held(allocation, Thread, r) = 0
  <2> TAKE r \in Res
  <2>1. \A i \in Thread : allocation[i][r] = 0
    BY DEF Init, Zero
  <2>2. Share(allocation, Thread, r) = Share(allocation, {}, r)
    BY <2>1 DEF Share
  <2>3. allocation \in Matrix
    BY <1>1 DEF Inv1, TypeOK
  <2> QED
    BY <2>2, <2>3, HeldEmpty, ShareType
<1>3. Conservation
  BY <1>2 DEF Init, Conservation, Vector
<1>4. NeedBalance
  BY DEF Init, NeedBalance, Zero, Vector
<1> QED
  BY <1>1, <1>3, <1>4 DEF Inv2

\* A grant and a release change one row of allocation and take from, or give
\* to, available what the row gains or loses.
LEMMA ConservationMoved ==
  ASSUME Inv2, NEW t \in Thread, NEW row \in Vector, Inv1',
         allocation' = [allocation EXCEPT ![t] = row],
         \A r \in Res : available'[r] = available[r] + allocation[t][r] - row[r]
  PROVE  Conservation'
<1> SUFFICES ASSUME NEW r \in Res
             PROVE  available'[r] + Held(allocation', Thread, r) = ExistingRes[r]
  BY DEF Conservation
<1>1. allocation \in Matrix
  BY DEF Inv2, Inv1, TypeOK
<1>2. Held(allocation', Thread, r) = Held(allocation, Thread, r) + row[r] - allocation[t][r]
  <2> DEFINE new == [allocation EXCEPT ![t] = row]
  <2> HIDE DEF Matrix
  <2>1. t \in Thread =>
          Held(new, Thread, r) = Held(allocation, Thread, r) + row[r] - allocation[t][r]
    BY ONLY <1>1, HeldChange, t \in Thread, row \in Vector, r \in Res
  <2> QED
    BY <2>1
<1>3. available[r] + Held(allocation, Thread, r) = ExistingRes[r]
  BY DEF Inv2, Conservation
<1>4. Held(allocation, Thread, r) \in Nat
  BY <1>1, HeldType
<1>5. available \in Vector /\ available' \in Vector
  BY DEF Inv2, Inv1, TypeOK
<1>6. /\ available[r] \in Nat /\ available'[r] \in Nat
      /\ allocation[t][r] \in Nat /\ row[r] \in Nat
  BY <1>1, <1>5 DEF Matrix, Vector
<1> QED
  BY <1>2, <1>3, <1>4, <1>6

LEMMA StepInv2 == Inv2 /\ [Next]_vars => Inv2'
<1> SUFFICES ASSUME Inv2, [Next]_vars PROVE Inv2'
  OBVIOUS
<1>1. Inv1 /\ Inv1'
  BY StepInv1 DEF Inv2
<1>2. SUFFICES Conservation' /\ NeedBalance'
  BY <1>1 DEF Inv2
<1>3. CASE UNCHANGED <<available, allocation, need, maxDemand>>
  BY <1>3 DEF Inv2, Conservation, NeedBalance
<1>4. ASSUME NEW t \in Thread, ClaimColumn(t)
      PROVE  Conservation' /\ NeedBalance'
  <2> DEFINE col == claim[t].col
             c   == claim[t].vector
  <2>1. /\ pc[t] = "claiming"
        /\ maxDemand' = [maxDemand EXCEPT ![t][col] = c[col]]
        /\ need' = [need EXCEPT ![t][col] = c[col]]
        /\ UNCHANGED <<available, allocation>>
    BY <1>4 DEF ClaimColumn
  <2>2. allocation[t] = Zero /\ arrLessThan(c, ExistingRes)
    BY <2>1, <1>1 DEF Inv1, Bookkeeping
  <2>3. col \in Res /\ c \in Vector
    <3>1. claim[t] \in [vector : Vector, col : 0 .. M-1]
      BY <1>1 DEF Inv1, TypeOK
    <3> QED
      BY <3>1 DEF Res
  <2>4. NeedBalance'
    <3> SUFFICES ASSUME NEW u \in Thread, NEW r \in Res
                 PROVE  /\ need'[u][r] + allocation'[u][r] = maxDemand'[u][r]
                        /\ maxDemand'[u][r] <= ExistingRes[r]
      BY DEF NeedBalance
    <3>1. CASE u = t /\ r = col
      <4>1. /\ need'[u][r] = c[r] /\ maxDemand'[u][r] = c[r]
            /\ allocation'[u][r] = 0 /\ c[r] \in Nat /\ c[r] <= ExistingRes[r]
        BY <3>1, <2>1, <2>2, <2>3, <1>1 DEF Inv1, TypeOK, Vector, arrLessThan, Zero
      <4> QED
        BY <4>1
    <3>2. CASE ~(u = t /\ r = col)
      <4>1. /\ need'[u][r] = need[u][r] /\ maxDemand'[u][r] = maxDemand[u][r]
            /\ allocation'[u][r] = allocation[u][r]
        BY <3>2, <2>1, <2>3, <1>1 DEF Inv1, TypeOK, Vector
      <4> QED
        BY <4>1 DEF Inv2, NeedBalance
    <3> QED
      BY <3>1, <3>2
  <2> QED
    BY <2>1, <2>4 DEF Inv2, Conservation
<1>5. ASSUME NEW t \in Thread, NEW req \in Vector, arrLessThan(req, need[t]),
             Allocate(t, req), maxDemand' = maxDemand
      PROVE  Conservation' /\ NeedBalance'
  <2>1. available \in Vector /\ allocation[t] \in Vector /\ need[t] \in Vector
    BY <1>1 DEF Inv1, TypeOK
  <2>2. Plus(allocation[t], req) \in Vector /\ Minus(need[t], req) \in Vector
    BY <1>5, <2>1, VectorArith
  <2>3. \A r \in Res : /\ available'[r] = available[r] + allocation[t][r]
                                            - Plus(allocation[t], req)[r]
                       /\ Minus(need[t], req)[r] + Plus(allocation[t], req)[r]
                            = need[t][r] + allocation[t][r]
    BY <1>5, <2>1 DEF Allocate, Plus, Minus, Vector
  <2> DEFINE row  == Plus(allocation[t], req)
             left == Minus(need[t], req)
  <2>4. /\ allocation' = [allocation EXCEPT ![t] = row]
        /\ need' = [need EXCEPT ![t] = left] /\ maxDemand' = maxDemand
    BY <1>5 DEF Allocate
  <2>5. \A r \in Res : /\ available'[r] = available[r] + allocation[t][r] - row[r]
                       /\ left[r] + row[r] = need[t][r] + allocation[t][r]
    BY <2>3
  <2>6. row \in Vector /\ left \in Vector
    BY <2>2
  <2> HIDE DEF row, left
  <2>7. Conservation'
    BY <1>1, <2>4, <2>5, <2>6, ConservationMoved
  <2>8. NeedBalance'
    BY <1>1, <2>4, <2>5, <2>6 DEF Inv2, Inv1, TypeOK, NeedBalance
  <2> QED
    BY <2>7, <2>8
<1>6. ASSUME NEW t \in Thread, NEW rel \in Requests, Released(t, rel)
      PROVE  Conservation' /\ NeedBalance'
  <2>1. available \in Vector /\ allocation[t] \in Vector /\ need[t] \in Vector
    BY <1>1 DEF Inv1, TypeOK
  <2>2. Minus(allocation[t], rel) \in Vector /\ Plus(need[t], rel) \in Vector
    BY <1>6, <2>1, VectorArith DEF Released
  <2>3. \A r \in Res : /\ available'[r] = available[r] + allocation[t][r]
                                            - Minus(allocation[t], rel)[r]
                       /\ Plus(need[t], rel)[r] + Minus(allocation[t], rel)[r]
                            = need[t][r] + allocation[t][r]
    BY <1>6, <2>1 DEF Released, Plus, Minus, Vector
  <2> DEFINE row  == Minus(allocation[t], rel)
             left == Plus(need[t], rel)
  <2>4. /\ allocation' = [allocation EXCEPT ![t] = row]
        /\ need' = [need EXCEPT ![t] = left] /\ maxDemand' = maxDemand
    BY <1>6 DEF Released
  <2>5. \A r \in Res : /\ available'[r] = available[r] + allocation[t][r] - row[r]
                       /\ left[r] + row[r] = need[t][r] + allocation[t][r]
    BY <2>3
  <2>6. row \in Vector /\ left \in Vector
    BY <2>2
  <2> HIDE DEF row, left
  <2>7. Conservation'
    BY <1>1, <2>4, <2>5, <2>6, ConservationMoved
  <2>8. NeedBalance'
    BY <1>1, <2>4, <2>5, <2>6 DEF Inv2, Inv1, TypeOK, NeedBalance
  <2> QED
    BY <2>7, <2>8
<1>7. ASSUME NEW t \in Thread, ThreadStep(t)
      PROVE  Conservation' /\ NeedBalance'
  <2>1. requests[t] \in Vector /\ arrLessThan(requests[t], need[t])
    BY <1>1 DEF Inv1, TypeOK, Bookkeeping
  <2> QED
    BY <1>3, <1>4, <1>5, <1>6, <1>7, <2>1
       DEF ThreadStep, Call, ClaimRejected, ClaimAccepted, RequestRefused, RequestGranted,
           RequestBlocked, SpuriousWakeup, WokenGranted, WokenBlocked, ReleaseRefused,
           ThreadEnded, Admissible, matrices, vars
<1> QED
  BY <1>3, <1>7 DEF Next, Terminated, vars, matrices

\* Instances are neither created nor lost, whatever the interleaving.
THEOREM ConservationKept == Spec => []Conservation
<1>1. Inv2 => Conservation
  BY DEF Inv2
<1> QED
  BY <1>1, InitInv2, StepInv2, PTL DEF Spec

\* A need is always the claim less the holdings, and within what exists.
THEOREM NeedBalanceKept == Spec => []NeedBalance
<1>1. Inv2 => NeedBalance
  BY DEF Inv2
<1> QED
  BY <1>1, InitInv2, StepInv2, PTL DEF Spec

-------------------------------------------------------------------------------
(* Safe states: what preserves them *)

\* Lower demands keep a state safe.
LEMMA SafeMono ==
  ASSUME NEW work \in Vector, NEW alloc \in Matrix,
         NEW demand \in Matrix, NEW less \in Matrix,
         \A i \in Thread : arrLessThan(less[i], demand[i]),
         Safe(work, alloc, demand)
  PROVE  Safe(work, alloc, less)
<1> SUFFICES ASSUME NEW D \in SUBSET Thread, D # {}
             PROVE  \E i \in D : \A r \in Res :
                      ~(less[i][r] > work[r] + Held(alloc, Thread \ D, r))
  BY DEF Safe, Hopeless
<1>1. PICK i \in D : \A r \in Res :
        ~(demand[i][r] > work[r] + Held(alloc, Thread \ D, r))
  BY DEF Safe, Hopeless
<1>2. ASSUME NEW r \in Res
      PROVE  ~(less[i][r] > work[r] + Held(alloc, Thread \ D, r))
  <2>1. /\ less[i][r] \in Int /\ demand[i][r] \in Int /\ work[r] \in Int
        /\ Held(alloc, Thread \ D, r) \in Int /\ less[i][r] <= demand[i][r]
    <3>1. less[i] \in Vector /\ demand[i] \in Vector /\ arrLessThan(less[i], demand[i])
      OBVIOUS
    <3>2. Held(alloc, Thread \ D, r) \in Int
      BY HeldType
    <3> QED
      BY <3>1, <3>2 DEF Vector, arrLessThan
  <2>2. ~(demand[i][r] > work[r] + Held(alloc, Thread \ D, r))
    BY <1>1
  <2> QED
    BY <2>1, <2>2
<1> QED
  BY <1>2

\* A thread that gives rel back, and may need it again, keeps a state safe.
LEMMA SafeReturn ==
  ASSUME NEW work \in Vector, NEW alloc \in Matrix, NEW demand \in Matrix,
         NEW t \in Thread, NEW rel \in Vector, arrLessThan(rel, alloc[t]),
         Safe(work, alloc, demand)
  PROVE  Safe(Plus(work, rel), [alloc EXCEPT ![t] = Minus(alloc[t], rel)],
              [demand EXCEPT ![t] = Plus(demand[t], rel)])
<1> DEFINE w == Plus(work, rel)
           row == Minus(alloc[t], rel)
           a == [alloc EXCEPT ![t] = row]
           d == [demand EXCEPT ![t] = Plus(demand[t], rel)]
<1>1. w \in Vector /\ row \in Vector
  BY VectorArith
<1> SUFFICES ASSUME NEW D \in SUBSET Thread, D # {}
             PROVE  \E i \in D : \A r \in Res :
                      ~(d[i][r] > w[r] + Held(a, Thread \ D, r))
  BY DEF Safe, Hopeless
<1>2. PICK i \in D : \A r \in Res :
        ~(demand[i][r] > work[r] + Held(alloc, Thread \ D, r))
  BY DEF Safe, Hopeless
<1>3. ASSUME NEW r \in Res
      PROVE  ~(d[i][r] > w[r] + Held(a, Thread \ D, r))
  <2>1. /\ t \in Thread \ D => Held(a, Thread \ D, r)
                                = Held(alloc, Thread \ D, r) + row[r] - alloc[t][r]
        /\ t \notin Thread \ D => Held(a, Thread \ D, r) = Held(alloc, Thread \ D, r)
    <3> HIDE DEF row, Matrix
    <3> QED
      BY <1>1, HeldChange
  <2>2. row[r] = alloc[t][r] - rel[r] /\ w[r] = work[r] + rel[r]
    BY DEF Plus, Minus
  <2>3. d[i][r] = IF i = t THEN demand[i][r] + rel[r] ELSE demand[i][r]
    BY DEF Plus
  <2>4. i = t => t \notin Thread \ D
    OBVIOUS
  <2>5. /\ demand[i][r] \in Int /\ work[r] \in Int /\ rel[r] \in Int /\ rel[r] >= 0
        /\ Held(alloc, Thread \ D, r) \in Int /\ alloc[t][r] \in Int
    BY HeldType DEF Vector
  <2>6. ~(demand[i][r] > work[r] + Held(alloc, Thread \ D, r))
    BY <1>2
  <2> HIDE DEF row, w, a, d
  <2> QED
    BY <2>1, <2>2, <2>3, <2>4, <2>5, <2>6
<1> QED
  BY <1>3

\* Granting a thread part of what it needs, when available covers all it needs,
\* keeps a state safe.
LEMMA SafeServe ==
  ASSUME NEW work \in Vector, NEW alloc \in Matrix, NEW demand \in Matrix,
         NEW t \in Thread, NEW req \in Vector,
         arrLessThan(req, demand[t]), arrLessThan(demand[t], work),
         Safe(work, alloc, demand)
  PROVE  Safe(Minus(work, req), [alloc EXCEPT ![t] = Plus(alloc[t], req)],
              [demand EXCEPT ![t] = Minus(demand[t], req)])
<1> DEFINE w == Minus(work, req)
           row == Plus(alloc[t], req)
           a == [alloc EXCEPT ![t] = row]
           d == [demand EXCEPT ![t] = Minus(demand[t], req)]
<1>1. row \in Vector
  BY VectorArith
<1> SUFFICES ASSUME NEW D \in SUBSET Thread, D # {}
             PROVE  \E i \in D : \A r \in Res :
                      ~(d[i][r] > w[r] + Held(a, Thread \ D, r))
  BY DEF Safe, Hopeless
<1>2. PICK i \in D : \A r \in Res :
        ~(demand[i][r] > work[r] + Held(alloc, Thread \ D, r))
  BY DEF Safe, Hopeless
<1>3. a \in Matrix
  BY <1>1
<1>4. CASE t \in D
  <2>1. ASSUME NEW r \in Res
        PROVE  ~(d[t][r] > w[r] + Held(a, Thread \ D, r))
    <3>1. d[t][r] = demand[t][r] - req[r] /\ w[r] = work[r] - req[r]
      BY DEF Minus
    <3>2. Held(a, Thread \ D, r) \in Nat
      BY <1>3, HeldType
    <3>3. /\ demand[t][r] \in Int /\ work[r] \in Int /\ req[r] \in Int
          /\ demand[t][r] <= work[r]
      BY DEF Vector, arrLessThan
    <3> HIDE DEF a, d, w
    <3> QED
      BY <3>1, <3>2, <3>3
  <2> QED
    BY <1>4, <2>1
<1>5. CASE t \notin D
  <2>1. ASSUME NEW r \in Res
        PROVE  ~(d[i][r] > w[r] + Held(a, Thread \ D, r))
    <3>1. d[i][r] = demand[i][r] /\ w[r] = work[r] - req[r]
      BY <1>5 DEF Minus
    <3>2. row[r] = alloc[t][r] + req[r]
      BY DEF Plus
    <3>3. Held(a, Thread \ D, r) = Held(alloc, Thread \ D, r) + row[r] - alloc[t][r]
      <4>1. t \in Thread \ D
        BY <1>5
      <4> HIDE DEF row, Matrix
      <4> QED
        BY <1>1, <4>1, HeldChange
    <3>4. /\ demand[i][r] \in Int /\ work[r] \in Int /\ req[r] \in Int
          /\ Held(alloc, Thread \ D, r) \in Int /\ alloc[t][r] \in Int
      BY HeldType DEF Vector
    <3>5. ~(demand[i][r] > work[r] + Held(alloc, Thread \ D, r))
      BY <1>2
    <3> HIDE DEF a, d, w, row
    <3> QED
      BY <3>1, <3>2, <3>3, <3>4, <3>5
  <2> QED
    BY <2>1
<1> QED
  BY <1>4, <1>5

\* A thread that holds nothing may need any part of what exists.
LEMMA SafeNewcomer ==
  ASSUME NEW work \in Vector, NEW alloc \in Matrix, NEW demand \in Matrix,
         NEW t \in Thread, NEW row \in Vector, alloc[t] = Zero,
         \A r \in Res : row[r] <= work[r] + Held(alloc, Thread, r),
         Safe(work, alloc, demand)
  PROVE  Safe(work, alloc, [demand EXCEPT ![t] = row])
<1> DEFINE d == [demand EXCEPT ![t] = row]
<1> SUFFICES ASSUME NEW D \in SUBSET Thread, D # {}
             PROVE  \E i \in D : \A r \in Res :
                      ~(d[i][r] > work[r] + Held(alloc, Thread \ D, r))
  BY DEF Safe, Hopeless
<1>1. ASSUME NEW E \in SUBSET Thread, t \notin E, NEW r \in Res
      PROVE  Held(alloc, E \cup {t}, r) = Held(alloc, E, r)
  <2>1. E \cap {t} = {}
    BY <1>1
  <2>2. Held(alloc, E \cup {t}, r) = Held(alloc, E, r) + Held(alloc, {t}, r)
    BY <2>1, HeldUnion
  <2>3. Held(alloc, {t}, r) = 0 /\ Held(alloc, E, r) \in Int
    BY HeldSingle, HeldType DEF Zero
  <2> QED
    BY <2>2, <2>3
<1>2. CASE D = {t}
  <2>1. ASSUME NEW r \in Res
        PROVE  ~(d[t][r] > work[r] + Held(alloc, Thread \ D, r))
    <3>1. (Thread \ {t}) \cup {t} = Thread /\ t \notin Thread \ {t}
      OBVIOUS
    <3>2. Held(alloc, Thread \ D, r) = Held(alloc, Thread, r)
      BY <1>1, <1>2, <3>1
    <3>3. /\ d[t][r] = row[r] /\ row[r] \in Int /\ work[r] \in Int
          /\ Held(alloc, Thread, r) \in Int
      BY HeldType DEF Vector
    <3> HIDE DEF d
    <3> QED
      BY <3>2, <3>3
  <2> QED
    BY <1>2, <2>1
<1>3. CASE D \ {t} # {}
  <2>1. PICK i \in D \ {t} : \A r \in Res :
          ~(demand[i][r] > work[r] + Held(alloc, Thread \ (D \ {t}), r))
    BY <1>3 DEF Safe, Hopeless
  <2>2. \A r \in Res : Held(alloc, Thread \ (D \ {t}), r) = Held(alloc, Thread \ D, r)
    <3>1. CASE t \in D
      <4>1. Thread \ (D \ {t}) = (Thread \ D) \cup {t} /\ t \notin Thread \ D
        BY <3>1
      <4> QED
        BY <4>1, <1>1
    <3>2. CASE t \notin D
      <4>1. D \ {t} = D
        BY <3>2
      <4> QED
        BY <4>1
    <3> QED
      BY <3>1, <3>2
  <2>3. d[i] = demand[i]
    OBVIOUS
  <2> HIDE DEF d
  <2> QED
    BY <2>1, <2>2, <2>3
<1> QED
  BY <1>2, <1>3

-------------------------------------------------------------------------------
(* Every reachable state is safe *)

\* is_state_safe() decides Safe, for a request the caller may make.
LEMMA StateSafeDecides ==
  ASSUME NEW work \in Vector, NEW alloc \in Matrix, NEW demand \in Matrix,
         NEW t \in Thread, NEW req \in Vector,
         arrLessThan(req, work), arrLessThan(req, demand[t])
  PROVE  LET w == Minus(work, req)
             a == [alloc EXCEPT ![t] = Plus(alloc[t], req)]
             d == [demand EXCEPT ![t] = Minus(demand[t], req)]
         IN  /\ w \in Vector /\ a \in Matrix /\ d \in Matrix
             /\ Finished(w, a, d) = Thread <=> Safe(w, a, d)
<1> DEFINE w == Minus(work, req)
           a == [alloc EXCEPT ![t] = Plus(alloc[t], req)]
           d == [demand EXCEPT ![t] = Minus(demand[t], req)]
<1>1. w \in Vector /\ a \in Matrix /\ d \in Matrix
  BY VectorArith
<1> HIDE DEF w, a, d
<1>2. Finished(w, a, d) = Thread <=> Safe(w, a, d)
  BY <1>1, ReductionSafe
<1> QED
  BY <1>1, <1>2 DEF w, a, d

Inv3 == Inv2 /\ SafeState

LEMMA InitInv3 == Init => Inv3
<1> SUFFICES ASSUME Init PROVE Inv3
  OBVIOUS
<1>1. Inv2
  BY InitInv2
<1>2. Safe(available, allocation, need)
  <2> SUFFICES ASSUME NEW D \in SUBSET Thread, NEW i \in D
               PROVE  \A r \in Res : ~(need[i][r] > available[r] + Held(allocation, Thread \ D, r))
    BY DEF Safe, Hopeless
  <2> TAKE r \in Res
  <2>1. allocation \in Matrix
    BY <1>1 DEF Inv2, Inv1, TypeOK
  <2>2. need[i][r] = 0 /\ available[r] \in Nat /\ Held(allocation, Thread \ D, r) \in Nat
    BY <2>1, HeldType DEF Init, Zero, Vector
  <2> QED
    BY <2>2
<1> QED
  BY <1>1, <1>2 DEF Inv3, SafeState

LEMMA StepInv3 == Inv3 /\ [Next]_vars => Inv3'
<1> SUFFICES ASSUME Inv3, [Next]_vars PROVE Inv3'
  OBVIOUS
<1>1. Inv2 /\ Inv2' /\ Inv1 /\ Inv1'
  BY StepInv2 DEF Inv3, Inv2
<1>2. SUFFICES ASSUME DA = 1 PROVE Safe(available', allocation', need')
  BY <1>1 DEF Inv3, SafeState, Next, ThreadStep, Terminated, vars
<1>3. /\ available \in Vector /\ allocation \in Matrix /\ need \in Matrix
      /\ Safe(available, allocation, need)
  BY <1>1, <1>2 DEF Inv3, Inv1, TypeOK, SafeState
<1>4. CASE UNCHANGED <<available, allocation, need>>
  BY <1>3, <1>4
<1>5. ASSUME NEW t \in Thread, ClaimColumn(t)
      PROVE  Safe(available', allocation', need')
  <2> DEFINE col == claim[t].col
             row == [need[t] EXCEPT ![col] = claim[t].vector[col]]
  <2>1. /\ pc[t] = "claiming" /\ need' = [need EXCEPT ![t] = row]
        /\ UNCHANGED <<available, allocation>>
    BY <1>5 DEF ClaimColumn
  <2>2. row = need'[t] /\ row \in Vector
    BY <2>1, <1>1 DEF Inv1, TypeOK
  <2>3. allocation[t] = Zero
    BY <2>1, <1>1 DEF Inv1, Bookkeeping
  <2>4. ASSUME NEW r \in Res
        PROVE  row[r] <= available[r] + Held(allocation, Thread, r)
    <3>1. need'[t][r] + allocation'[t][r] <= ExistingRes[r]
      BY <1>1 DEF Inv2, NeedBalance
    <3>2. available[r] + Held(allocation, Thread, r) = ExistingRes[r]
      BY <1>1 DEF Inv2, Conservation
    <3>3. allocation'[t][r] = 0 /\ need'[t][r] \in Int
      BY <2>1, <2>2, <2>3 DEF Zero, Vector
    <3> HIDE DEF row
    <3> QED
      BY <2>2, <3>1, <3>2, <3>3
  <2> HIDE DEF row, Matrix
  <2>5. Safe(available, allocation, [need EXCEPT ![t] = row])
    BY <1>3, <2>2, <2>3, <2>4, SafeNewcomer
  <2> QED
    BY <2>1, <2>5
<1>6. ASSUME NEW t \in Thread, NEW req \in Vector, arrLessThan(req, need[t]),
             CanAllocate(t, req), Allocate(t, req)
      PROVE  Safe(available', allocation', need')
  <2>1. is_state_safe(t, req) /\ arrLessThan(req, available)
    BY <1>2, <1>6 DEF CanAllocate, is_available
  <2> HIDE DEF Matrix
  <2>2. Safe(Minus(available, req),
             [allocation EXCEPT ![t] = Plus(allocation[t], req)],
             [need EXCEPT ![t] = Minus(need[t], req)])
    BY <1>3, <1>6, <2>1, StateSafeDecides DEF is_state_safe
  <2> QED
    BY <1>6, <2>2 DEF Allocate
<1>7. ASSUME NEW t \in Thread, NEW rel \in Requests, Released(t, rel)
      PROVE  Safe(available', allocation', need')
  <2>1. arrLessThan(rel, allocation[t]) /\ rel \in Vector
    BY <1>7 DEF Released
  <2> HIDE DEF Matrix
  <2>2. Safe(Plus(available, rel),
             [allocation EXCEPT ![t] = Minus(allocation[t], rel)],
             [need EXCEPT ![t] = Plus(need[t], rel)])
    BY <1>3, <2>1, SafeReturn
  <2> QED
    BY <1>7, <2>2 DEF Released
<1>8. ASSUME NEW t \in Thread, ThreadStep(t)
      PROVE  Safe(available', allocation', need')
  <2>1. requests[t] \in Vector /\ arrLessThan(requests[t], need[t])
    BY <1>1 DEF Inv1, TypeOK, Bookkeeping
  <2> QED
    BY <1>4, <1>5, <1>6, <1>7, <1>8, <2>1
       DEF ThreadStep, Call, ClaimRejected, ClaimAccepted, RequestRefused, RequestGranted,
           RequestBlocked, SpuriousWakeup, WokenGranted, WokenBlocked, ReleaseRefused,
           ThreadEnded, Admissible, matrices, vars
<1> QED
  BY <1>4, <1>8 DEF Next, Terminated, vars, matrices

\* Deadlock avoidance: no interleaving of claims, requests and releases leads
\* out of the safe states, although rm_claim() takes no lock.
THEOREM AlwaysSafe == Spec => []SafeState
<1>1. Inv3 => SafeState
  BY DEF Inv3
<1> QED
  BY <1>1, InitInv3, StepInv3, PTL DEF Spec

\* With avoidance rm_detection() has nothing to report.
THEOREM AvoidanceWorks == Spec => []AvoidanceLeavesNoDeadlock
<1>1. Inv3 => AvoidanceLeavesNoDeadlock
  <2> SUFFICES ASSUME Inv3, DA = 1 PROVE rm_detection = 0
    BY DEF AvoidanceLeavesNoDeadlock
  <2>1. /\ available \in Vector /\ allocation \in Matrix
        /\ need \in Matrix /\ requests \in Matrix
        /\ Safe(available, allocation, need)
        /\ \A i \in Thread : arrLessThan(requests[i], need[i])
    BY DEF Inv3, Inv2, Inv1, TypeOK, Bookkeeping, SafeState
  <2> HIDE DEF Matrix
  <2>2. Safe(available, allocation, requests)
    BY <2>1, SafeMono
  <2>3. Finished(available, allocation, requests) = Thread
    BY <2>1, <2>2, ReductionSafe
  <2> QED
    BY <2>3, FS_EmptySet DEF rm_detection, Deadlocked
<1> QED
  BY <1>1, InitInv3, StepInv3, PTL DEF Spec

-------------------------------------------------------------------------------
(* No wakeup is lost *)

\* A grant to another thread makes no sleeper servable.
LEMMA GrantServesNoSleeper ==
  ASSUME Inv1, Inv1', UNCHANGED DA, NEW t \in Thread, NEW u \in Thread, t # u,
         NEW r \in Vector, arrLessThan(r, need[t]),
         NEW q \in Vector, arrLessThan(q, available), arrLessThan(q, need[u]),
         Allocate(u, q), CanAllocate(t, r)'
  PROVE  CanAllocate(t, r)
<1>1. /\ available \in Vector /\ allocation \in Matrix /\ need \in Matrix
      /\ available' \in Vector /\ allocation' \in Matrix /\ need' \in Matrix
  BY DEF Inv1, TypeOK
<1>2. /\ available' = Minus(available, q)
      /\ allocation' = [allocation EXCEPT ![u] = Plus(allocation[u], q)]
      /\ need' = [need EXCEPT ![u] = Minus(need[u], q)]
  BY DEF Allocate
<1>3. arrLessThan(r, available')
  BY <1>1 DEF CanAllocate, is_available, Inv1, TypeOK
<1>4. arrLessThan(r, available)
  BY <1>1, <1>2, <1>3 DEF arrLessThan, Minus, Vector
<1>5. CASE DA = 0
  BY <1>4, <1>5 DEF CanAllocate, is_available
<1>6. CASE DA = 1
  <2> DEFINE w2 == Minus(available', r)
             a2 == [allocation' EXCEPT ![t] = Plus(allocation'[t], r)]
             d2 == [need' EXCEPT ![t] = Minus(need'[t], r)]
             w1 == Minus(available, r)
             a1 == [allocation EXCEPT ![t] = Plus(allocation[t], r)]
             d1 == [need EXCEPT ![t] = Minus(need[t], r)]
  <2>1. arrLessThan(r, need'[t])
    BY <1>2, <1>1
  <2>2. Finished(w2, a2, d2) = Thread
    BY <1>6 DEF CanAllocate, is_state_safe
  <2>3. /\ w2 \in Vector /\ a2 \in Matrix /\ d2 \in Matrix /\ Safe(w2, a2, d2)
    <3> HIDE DEF Matrix
    <3> QED
      BY <1>1, <1>3, <2>1, <2>2, StateSafeDecides
  <2>4. w1 = Plus(w2, q)
    BY <1>1, <1>2 DEF Plus, Minus, Vector
  <2>5. a1 = [a2 EXCEPT ![u] = Minus(a2[u], q)] /\ arrLessThan(q, a2[u])
    <3>1. a2[u] = Plus(allocation[u], q)
      BY <1>1, <1>2
    <3>2. Minus(Plus(allocation[u], q), q) = allocation[u]
      BY <1>1 DEF Plus, Minus, Vector
    <3>3. arrLessThan(q, Plus(allocation[u], q))
      BY <1>1 DEF arrLessThan, Plus, Vector
    <3>4. a2 = [[allocation EXCEPT ![t] = Plus(allocation[t], r)]
                  EXCEPT ![u] = Plus(allocation[u], q)]
      BY <1>1, <1>2
    <3>5. [a2 EXCEPT ![u] = allocation[u]] = a1
      BY <1>1, <3>4
    <3> QED
      BY <3>1, <3>2, <3>3, <3>5
  <2>6. d1 = [d2 EXCEPT ![u] = Plus(d2[u], q)]
    <3>1. d2[u] = Minus(need[u], q)
      BY <1>1, <1>2
    <3>2. Plus(Minus(need[u], q), q) = need[u]
      BY <1>1 DEF Plus, Minus, Vector
    <3>3. d2 = [[need EXCEPT ![t] = Minus(need[t], r)] EXCEPT ![u] = Minus(need[u], q)]
      BY <1>1, <1>2
    <3>4. [d2 EXCEPT ![u] = need[u]] = d1
      BY <1>1, <3>3
    <3> QED
      BY <3>1, <3>2, <3>4
  <2>7. Safe(w1, a1, d1)
    <3>1. Safe(Plus(w2, q), [a2 EXCEPT ![u] = Minus(a2[u], q)],
               [d2 EXCEPT ![u] = Plus(d2[u], q)])
      <4> HIDE DEF Matrix, w2, a2, d2
      <4> QED
        BY <2>3, <2>5, SafeReturn
    <3> HIDE DEF w1, a1, d1, w2, a2, d2
    <3> QED
      BY <3>1, <2>4, <2>5, <2>6
  <2>8. Finished(w1, a1, d1) = Thread
    <3> HIDE DEF Matrix
    <3> QED
      BY <1>1, <1>4, <2>7, StateSafeDecides
  <2> QED
    BY <1>4, <1>6, <2>8 DEF CanAllocate, is_state_safe, is_available
<1> QED
  BY <1>5, <1>6 DEF Inv1, TypeOK

\* Nor does a column another thread claims, which can only raise a need.
LEMMA ClaimServesNoSleeper ==
  ASSUME Inv1, Inv1', UNCHANGED DA, NEW t \in Thread, NEW u \in Thread, t # u,
         NEW r \in Vector, arrLessThan(r, need[t]),
         ClaimColumn(u), CanAllocate(t, r)'
  PROVE  CanAllocate(t, r)
<1> DEFINE col == claim[u].col
           c   == claim[u].vector
<1>1. /\ available \in Vector /\ allocation \in Matrix
      /\ need \in Matrix /\ need' \in Matrix
  BY DEF Inv1, TypeOK
<1>2. /\ pc[u] = "claiming" /\ need' = [need EXCEPT ![u][col] = c[col]]
      /\ available' = available /\ allocation' = allocation
  BY DEF ClaimColumn
<1>3. arrLessThan(r, available)
  BY <1>2 DEF CanAllocate, is_available, Inv1, TypeOK
<1>4. col \in Res /\ c[col] \in Nat /\ need[u][col] = 0
  <2>1. claim[u] \in [vector : Vector, col : 0 .. M-1]
    BY DEF Inv1, TypeOK
  <2>2. col \in Res /\ c[col] \in Nat
    BY <2>1 DEF Res, Vector
  <2>3. col >= col
    BY <2>2 DEF Res
  <2> QED
    BY <1>2, <2>2, <2>3 DEF Inv1, Bookkeeping
<1>5. \A i \in Thread : arrLessThan(need[i], need'[i])
  BY <1>1, <1>2, <1>4 DEF arrLessThan, Vector
<1>6. CASE DA = 0
  BY <1>3, <1>6 DEF CanAllocate, is_available
<1>7. CASE DA = 1
  <2> DEFINE w == Minus(available, r)
             a == [allocation EXCEPT ![t] = Plus(allocation[t], r)]
             d == [need EXCEPT ![t] = Minus(need[t], r)]
             e == [need' EXCEPT ![t] = Minus(need'[t], r)]
  <2>1. need'[t] = need[t]
    BY <1>1, <1>2
  <2>2. Finished(w, a, e) = Thread
    BY <1>2, <1>7 DEF CanAllocate, is_state_safe
  <2>3. w \in Vector /\ a \in Matrix /\ e \in Matrix /\ Safe(w, a, e)
    <3> HIDE DEF Matrix
    <3> QED
      BY <1>1, <1>3, <2>1, <2>2, StateSafeDecides
  <2>4. d \in Matrix
    <3>1. Minus(need[t], r) \in Vector
      BY <1>1, VectorArith
    <3> QED
      BY <1>1, <3>1
  <2>5. \A i \in Thread : arrLessThan(d[i], e[i])
    <3> TAKE i \in Thread
    <3>1. CASE i = t
      <4>1. d[i] = e[i] /\ d[i] \in Vector
        BY <1>1, <2>1, <2>4, <3>1
      <4> HIDE DEF d, e
      <4> QED
        BY <4>1 DEF arrLessThan, Vector
    <3>2. CASE i # t
      BY <1>1, <1>5, <3>2
    <3> QED
      BY <3>1, <3>2
  <2>6. Safe(w, a, d)
    <3> HIDE DEF Matrix, w, a, d, e
    <3> QED
      BY <2>3, <2>4, <2>5, SafeMono
  <2>7. Finished(w, a, d) = Thread
    <3> HIDE DEF Matrix
    <3> QED
      BY <1>1, <1>3, <2>6, StateSafeDecides
  <2> QED
    BY <1>3, <1>7, <2>7 DEF CanAllocate, is_state_safe, is_available
<1> QED
  BY <1>6, <1>7 DEF Inv1, TypeOK

\* Whether a request can be served depends on four of the variables.
LEMMA ServableUnchanged ==
  ASSUME NEW t, NEW r, UNCHANGED <<DA, available, allocation, need>>
  PROVE  CanAllocate(t, r)' <=> CanAllocate(t, r)
BY DEF CanAllocate, is_state_safe, is_available

LEMMA InitNoLostWakeup == Init => NoLostWakeup
BY DEF Init, NoLostWakeup

LEMMA StepNoLostWakeup == Inv1 /\ Inv1' /\ NoLostWakeup /\ [Next]_vars => NoLostWakeup'
<1> SUFFICES ASSUME Inv1, Inv1', NoLostWakeup, [Next]_vars PROVE NoLostWakeup'
  OBVIOUS
<1> SUFFICES ASSUME NEW t \in Thread, pc'[t] = "waiting",
                    NEW r, r = requests'[t], CanAllocate(t, r)'
             PROVE  FALSE
  BY DEF NoLostWakeup, CanAllocate, is_state_safe, is_available
<1> UNCHANGED DA
  BY DEF Next, ThreadStep, Terminated, vars
<1>1. CASE UNCHANGED <<available, allocation, need, requests, pc>>
  BY <1>1, ServableUnchanged DEF NoLostWakeup
<1>2. ASSUME pc[t] = "waiting", UNCHANGED <<available, allocation, need>>,
             requests'[t] = requests[t]
      PROVE  FALSE
  BY <1>2, ServableUnchanged DEF NoLostWakeup
<1>3. ASSUME NEW u \in Thread, ClaimColumn(u)
      PROVE  FALSE
  <2>1. pc[t] = "waiting" /\ t # u /\ requests' = requests
    BY <1>3 DEF ClaimColumn, Inv1, TypeOK
  <2>2. requests[t] \in Vector /\ arrLessThan(requests[t], need[t])
    BY DEF Inv1, TypeOK, Bookkeeping
  <2> QED
    BY <1>3, <2>1, <2>2, ClaimServesNoSleeper DEF NoLostWakeup
<1>4. ASSUME NEW u \in Thread, NEW q \in Vector, arrLessThan(q, need[u]),
             CanAllocate(u, q), Allocate(u, q),
             pc[u] \in {"idle", "woken"}, pc' = pc \/ pc' = [pc EXCEPT ![u] = "idle"]
      PROVE  FALSE
  <2>1. pc[t] = "waiting" /\ t # u /\ requests'[t] = requests[t]
    BY <1>4 DEF Allocate, Inv1, TypeOK
  <2>2. requests[t] \in Vector /\ arrLessThan(requests[t], need[t])
    BY DEF Inv1, TypeOK, Bookkeeping
  <2>3. arrLessThan(q, available)
    BY <1>4 DEF CanAllocate, is_available, Inv1, TypeOK
  <2> QED
    BY <1>4, <2>1, <2>2, <2>3, GrantServesNoSleeper DEF NoLostWakeup
<1>5. ASSUME NEW u \in Thread, NEW req \in Requests, RequestBlocked(u, req)
      PROVE  FALSE
  <2>1. CASE t = u
    <3>1. requests'[t] = req /\ ~CanAllocate(u, req) /\ UNCHANGED <<available, allocation, need>>
      BY <1>5, <2>1 DEF RequestBlocked, Inv1, TypeOK
    <3> QED
      BY <2>1, <3>1, ServableUnchanged
  <2>2. CASE t # u
    BY <1>2, <1>5, <2>2 DEF RequestBlocked, Inv1, TypeOK
  <2> QED
    BY <2>1, <2>2
<1>6. ASSUME NEW u \in Thread, WokenBlocked(u)
      PROVE  FALSE
  <2>1. CASE t = u
    BY <1>6, <2>1, ServableUnchanged DEF WokenBlocked, matrices
  <2>2. CASE t # u
    BY <1>2, <1>6, <2>2 DEF WokenBlocked, matrices, Inv1, TypeOK
  <2> QED
    BY <2>1, <2>2
<1>7. ASSUME NEW u \in Thread, NEW rel \in Requests, Released(u, rel)
      PROVE  FALSE
  BY <1>7 DEF Released, Signalled
<1>8. ASSUME NEW u \in Thread,
             \/ \E c \in Claims : ClaimRejected(u, c) \/ ClaimAccepted(u, c)
             \/ SpuriousWakeup(u)
             \/ ThreadEnded(u)
      PROVE  FALSE
  BY <1>2, <1>8 DEF ClaimRejected, ClaimAccepted, SpuriousWakeup, ThreadEnded,
                     matrices, Inv1, TypeOK
<1>9. ASSUME NEW u \in Thread, ThreadStep(u)
      PROVE  FALSE
  <2>1. requests[u] \in Vector /\ arrLessThan(requests[u], need[u])
    BY DEF Inv1, TypeOK, Bookkeeping
  <2>2. ASSUME NEW req \in Requests, RequestGranted(u, req)
        PROVE  FALSE
    BY <1>4, <2>2 DEF RequestGranted, Admissible
  <2>3. CASE WokenGranted(u)
    BY <1>4, <2>1, <2>3 DEF WokenGranted
  <2>4. ASSUME NEW req \in Requests, RequestRefused(u, req) \/ ReleaseRefused(u, req)
        PROVE  FALSE
    BY <1>1, <2>4 DEF RequestRefused, ReleaseRefused, vars
  <2> QED
    BY <1>3, <1>5, <1>6, <1>7, <1>8, <1>9, <2>2, <2>3, <2>4 DEF ThreadStep, Call
<1> QED
  BY <1>1, <1>9 DEF Next, Terminated, vars

\* No wakeup is lost: whoever sleeps in rm_request() could not be served, though
\* only rm_release() ever signals.
THEOREM NoWakeupLost == Spec => []NoLostWakeup
<1> DEFINE Inv == Inv1 /\ NoLostWakeup
<1>1. Init => Inv
  BY InitInv1, InitNoLostWakeup
<1>2. Inv /\ [Next]_vars => Inv'
  BY StepInv1, StepNoLostWakeup
<1>3. Inv => NoLostWakeup
  OBVIOUS
<1> QED
  BY <1>1, <1>2, <1>3, PTL DEF Spec

-------------------------------------------------------------------------------
(* Progress of the waiting threads, and what rm_detection() finds *)

\* Threads that hold nothing hold nothing together.
LEMMA HeldZero ==
  ASSUME NEW alloc \in Matrix, NEW D \in SUBSET Thread,
         \A i \in D : alloc[i] = Zero, NEW r \in Res
  PROVE  Held(alloc, D, r) = 0
<1>1. Share(alloc, D, r) = Share(alloc, {}, r)
  BY DEF Share, Zero
<1> HIDE DEF Matrix
<1> QED
  BY <1>1, HeldEmpty, ShareType

\* While one thread waits, another can run: the waiting threads are never all
\* stuck, because a safe state lets one of them finish from what is available.
THEOREM SomeoneRuns == Spec => []NotAllStuck
<1> DEFINE Inv == Inv3 /\ NoLostWakeup
<1>1. Init => Inv
  BY InitInv3, InitNoLostWakeup
<1>2. Inv /\ [Next]_vars => Inv'
  <2>1. Inv3 => Inv1
    BY DEF Inv3, Inv2
  <2> QED
    BY <2>1, StepInv3, StepInv1, StepNoLostWakeup
<1>3. Inv => NotAllStuck
  <2> SUFFICES ASSUME Inv3, NoLostWakeup, DA = 1, EndedTidily,
                      NEW w \in Thread, pc[w] = "waiting",
                      \A t \in Thread : pc[t] \in {"waiting", "ended"}
               PROVE  FALSE
    BY DEF NotAllStuck
  <2> DEFINE D == {t \in Thread : pc[t] = "waiting"}
  <2>1. /\ available \in Vector /\ allocation \in Matrix /\ need \in Matrix
        /\ requests \in Matrix /\ Safe(available, allocation, need)
        /\ \A i \in Thread : arrLessThan(requests[i], need[i])
        /\ \A i \in Thread : pc[i] = "ended" => allocation[i] = Zero
    BY DEF Inv3, Inv2, Inv1, TypeOK, Bookkeeping, SafeState, EndedTidily
  <2>2. PICK i \in D : \A r \in Res :
          ~(need[i][r] > available[r] + Held(allocation, Thread \ D, r))
    <3>1. D # {} /\ D \in SUBSET Thread
      OBVIOUS
    <3> HIDE DEF D
    <3> QED
      BY <2>1, <3>1 DEF Safe, Hopeless
  <2>3. \A r \in Res : Held(allocation, Thread \ D, r) = 0
    <3>1. \A j \in Thread \ D : allocation[j] = Zero
      BY <2>1
    <3>2. Thread \ D \in SUBSET Thread
      OBVIOUS
    <3> HIDE DEF D, Matrix
    <3> QED
      BY <2>1, <3>1, <3>2, HeldZero
  <2>4. arrLessThan(need[i], available)
    <3> SUFFICES ASSUME NEW r \in Res PROVE need[i][r] <= available[r]
      BY DEF arrLessThan
    <3>1. need[i][r] \in Int /\ available[r] \in Int
      BY <2>1 DEF Vector
    <3> HIDE DEF D
    <3> QED
      BY <2>2, <2>3, <3>1
  <2>5. requests[i] \in Vector /\ arrLessThan(requests[i], need[i]) /\ need[i] \in Vector
    BY <2>1
  <2>6. arrLessThan(requests[i], available)
    BY <2>1, <2>4, <2>5 DEF arrLessThan, Vector
  <2>7. is_state_safe(i, requests[i])
    <3>1. i \in Thread
      OBVIOUS
    <3> HIDE DEF D, Matrix
    <3>2. Safe(Minus(available, requests[i]),
               [allocation EXCEPT ![i] = Plus(allocation[i], requests[i])],
               [need EXCEPT ![i] = Minus(need[i], requests[i])])
      BY <2>1, <2>4, <2>5, <3>1, SafeServe
    <3> QED
      BY <2>1, <2>5, <2>6, <3>1, <3>2, StateSafeDecides DEF is_state_safe
  <2> QED
    BY <2>6, <2>7 DEF NoLostWakeup, CanAllocate, is_available
<1> QED
  BY <1>1, <1>2, <1>3, PTL DEF Spec

\* What rm_detection() reports, from any state of the right types.
LEMMA Detects ==
  ASSUME TypeOK
  PROVE  /\ Deadlocked \in SUBSET Thread
         /\ Hopeless(available, allocation, requests, Deadlocked)
         /\ \A D \in SUBSET Thread :
              Hopeless(available, allocation, requests, D) => D \subseteq Deadlocked
<1> HIDE DEF Matrix
<1>1. available \in Vector /\ allocation \in Matrix /\ requests \in Matrix
  BY DEF TypeOK, Matrix
<1>2. /\ Hopeless(available, allocation, requests, Deadlocked)
      /\ \A D \in SUBSET Thread :
           Hopeless(available, allocation, requests, D) => D \subseteq Deadlocked
  BY <1>1, ReductionExact DEF Deadlocked
<1> QED
  BY <1>2 DEF Deadlocked

\* rm_detection() counts the deadlocked threads, no more and no fewer.
THEOREM DetectionIsExact == Spec => []DetectionExact
<1>1. TypeOK => DetectionExact
  BY Detects DEF DetectionExact
<1> QED
  BY <1>1, TypeCorrect, PTL

\* Without avoidance, when every thread waits or has ended, rm_detection()
\* reports all that wait.
THEOREM StuckDetected == Spec => []StuckIsDetected
<1> DEFINE Inv == Inv1 /\ NoLostWakeup
<1>1. Init => Inv
  BY InitInv1, InitNoLostWakeup
<1>2. Inv /\ [Next]_vars => Inv'
  BY StepInv1, StepNoLostWakeup
<1>3. Inv => StuckIsDetected
  <2> SUFFICES ASSUME Inv1, NoLostWakeup, DA = 0, EndedTidily,
                      \A t \in Thread : pc[t] \in {"waiting", "ended"}
               PROVE  Deadlocked = {t \in Thread : pc[t] = "waiting"}
    BY DEF StuckIsDetected
  <2> DEFINE D == {t \in Thread : pc[t] = "waiting"}
  <2>1. /\ available \in Vector /\ allocation \in Matrix /\ requests \in Matrix
        /\ TypeOK
        /\ \A i \in Thread : pc[i] = "ended" => allocation[i] = Zero /\ requests[i] = Zero
    BY DEF Inv1, TypeOK, Bookkeeping, EndedTidily
  <2>2. \A r \in Res : Held(allocation, Thread \ D, r) = 0
    <3>1. \A j \in Thread \ D : allocation[j] = Zero
      BY <2>1
    <3>2. Thread \ D \in SUBSET Thread
      OBVIOUS
    <3> HIDE DEF D, Matrix
    <3> QED
      BY <2>1, <3>1, <3>2, HeldZero
  <2>3. Hopeless(available, allocation, requests, D)
    <3> SUFFICES ASSUME NEW i \in D
                 PROVE  \E r \in Res : requests[i][r] > available[r] + Held(allocation, Thread \ D, r)
      BY DEF Hopeless
    <3>1. PICK r \in Res : ~(requests[i][r] <= available[r])
      BY DEF NoLostWakeup, CanAllocate, is_available, arrLessThan
    <3>2. requests[i][r] \in Int /\ available[r] \in Int
      BY <2>1 DEF Vector
    <3> HIDE DEF D
    <3>3. requests[i][r] > available[r] + Held(allocation, Thread \ D, r)
      <4>1. Held(allocation, Thread \ D, r) = 0
        BY <2>2
      <4> QED
        BY ONLY <3>1, <3>2, <4>1
    <3> QED
      BY <3>3
  <2>4. D \subseteq Deadlocked
    BY <2>1, <2>3, Detects
  <2>5. ASSUME NEW i \in Deadlocked
        PROVE  i \in D
    <3>1. i \in Thread /\ \E r \in Res :
            requests[i][r] > available[r] + Held(allocation, Thread \ Deadlocked, r)
      BY <2>1, Detects DEF Hopeless
    <3>2. \A r \in Res : available[r] \in Nat /\ Held(allocation, Thread \ Deadlocked, r) \in Nat
      <4> HIDE DEF Matrix
      <4> QED
        BY <2>1, HeldType DEF Vector
    <3>3. requests[i] # Zero
      BY ONLY <3>1, <3>2 DEF Zero
    <3> QED
      BY <2>1, <3>1, <3>3
  <2> QED
    BY <2>4, <2>5
<1> QED
  BY <1>1, <1>2, <1>3, PTL DEF Spec

\* Moving what thread u holds to or from available leaves a set without u, which
\* waits, as hopeless as it was.
LEMMA HopelessMoved ==
  ASSUME Inv1, Inv1', NEW u \in Thread, NEW row \in Vector,
         NEW D \in SUBSET Thread, u \notin D,
         allocation' = [allocation EXCEPT ![u] = row],
         \A r \in Res : available'[r] = available[r] + allocation[u][r] - row[r],
         \A i \in D : requests'[i] = requests[i],
         Hopeless(available, allocation, requests, D)
  PROVE  Hopeless(available', allocation', requests', D)
<1> SUFFICES ASSUME NEW i \in D
             PROVE  \E r \in Res : requests'[i][r] > available'[r] + Held(allocation', Thread \ D, r)
  BY DEF Hopeless
<1>1. PICK r \in Res : requests[i][r] > available[r] + Held(allocation, Thread \ D, r)
  BY DEF Hopeless
<1>2. /\ allocation \in Matrix /\ available[r] \in Int /\ requests[i][r] \in Int
      /\ allocation[u][r] \in Int /\ row[r] \in Int
  BY DEF Inv1, TypeOK, Vector
<1>3. Held(allocation, Thread \ D, r) \in Int
  <2> HIDE DEF Matrix
  <2> QED
    BY <1>2, HeldType
<1>4. Held(allocation', Thread \ D, r)
        = Held(allocation, Thread \ D, r) + row[r] - allocation[u][r]
  <2> DEFINE new == [allocation EXCEPT ![u] = row]
  <2> HIDE DEF Matrix
  <2>1. u \in Thread \ D =>
          Held(new, Thread \ D, r) = Held(allocation, Thread \ D, r) + row[r] - allocation[u][r]
    BY ONLY <1>2, HeldChange, u \in Thread, row \in Vector, r \in Res
  <2> QED
    BY <2>1
<1>5. requests'[i][r] > available'[r] + Held(allocation', Thread \ D, r)
  BY <1>1, <1>2, <1>3, <1>4
<1> QED
  BY <1>5

\* A deadlock is for ever.
THEOREM DeadlockStays == Spec => DeadlockIsForever
<1>1. Inv1 /\ [Next]_vars => [Deadlocked \subseteq Deadlocked']_vars
  <2> SUFFICES ASSUME Inv1, [Next]_vars, Inv1' PROVE Deadlocked \subseteq Deadlocked'
    BY StepInv1
  <2>0. PICK D : D = Deadlocked
    OBVIOUS
  <2>1. D \in SUBSET Thread /\ Hopeless(available, allocation, requests, D)
    BY <2>0, Detects DEF Inv1
  <2>2. SUFFICES Hopeless(available', allocation', requests', D)
    <3>1. available' \in Vector /\ allocation' \in Matrix /\ requests' \in Matrix
      BY DEF Inv1, TypeOK
    <3>2. Deadlocked' = Thread \ Finished(available', allocation', requests')
      BY DEF Deadlocked
    <3> HIDE DEF Matrix
    <3>3. \A E \in SUBSET Thread :
            Hopeless(available', allocation', requests', E) => E \subseteq Deadlocked'
      BY <3>1, <3>2, ReductionExact
    <3> QED
      BY <2>0, <2>1, <2>2, <3>3
  <2>3. ASSUME NEW i \in D
        PROVE  i \in Thread /\ pc[i] \in {"waiting", "woken"} /\ ~arrLessThan(requests[i], available)
    <3>1. PICK r \in Res : requests[i][r] > available[r] + Held(allocation, Thread \ D, r)
      BY <2>1 DEF Hopeless
    <3>2. /\ requests[i][r] \in Nat /\ available[r] \in Nat
          /\ Held(allocation, Thread \ D, r) \in Nat
      <4>1. allocation \in Matrix /\ requests[i] \in Vector /\ available \in Vector
        BY <2>1 DEF Inv1, TypeOK
      <4> HIDE DEF Matrix
      <4> QED
        BY <4>1, HeldType DEF Vector
    <3>3. requests[i] # Zero /\ ~(requests[i][r] <= available[r])
      BY <3>1, <3>2 DEF Zero
    <3> QED
      BY <2>1, <3>3 DEF Inv1, Bookkeeping, arrLessThan
  <2>4. CASE UNCHANGED <<available, allocation, requests>>
    BY <2>1, <2>4
  <2>5. ASSUME NEW u \in Thread, NEW q \in Vector, u \notin D, Allocate(u, q)
        PROVE  Hopeless(available', allocation', requests', D)
    <3> DEFINE row == Plus(allocation[u], q)
    <3>1. available \in Vector /\ allocation[u] \in Vector /\ row \in Vector
      BY VectorArith DEF Inv1, TypeOK
    <3>2. \A r \in Res : available'[r] = available[r] + allocation[u][r] - row[r]
      BY <2>5, <3>1 DEF Allocate, Plus, Minus, Vector
    <3>3. allocation' = [allocation EXCEPT ![u] = row] /\ \A i \in D : requests'[i] = requests[i]
      BY <2>1, <2>5 DEF Allocate, Inv1, TypeOK
    <3> HIDE DEF row
    <3> QED
      BY <2>1, <2>5, <3>1, <3>2, <3>3, HopelessMoved
  <2>6. ASSUME NEW u \in Thread, NEW rel \in Requests, Released(u, rel)
        PROVE  Hopeless(available', allocation', requests', D)
    <3> DEFINE row == Minus(allocation[u], rel)
    <3>1. available \in Vector /\ allocation[u] \in Vector /\ row \in Vector
      BY <2>6, VectorArith DEF Inv1, TypeOK, Released
    <3>2. \A r \in Res : available'[r] = available[r] + allocation[u][r] - row[r]
      BY <2>6, <3>1 DEF Released, Plus, Minus, Vector
    <3>3. allocation' = [allocation EXCEPT ![u] = row] /\ u \notin D /\ requests' = requests
      BY <2>3, <2>6 DEF Released
    <3> HIDE DEF row
    <3> QED
      BY <2>1, <3>1, <3>2, <3>3, HopelessMoved
  <2>7. ASSUME NEW u \in Thread, NEW req \in Requests, RequestBlocked(u, req)
        PROVE  Hopeless(available', allocation', requests', D)
    <3>1. /\ available' = available /\ allocation' = allocation
          /\ \A i \in D : requests'[i] = requests[i]
      BY <2>3, <2>7 DEF RequestBlocked, Inv1, TypeOK
    <3> QED
      BY <2>1, <3>1 DEF Hopeless
  <2>8. ASSUME NEW u \in Thread, ThreadStep(u)
        PROVE  Hopeless(available', allocation', requests', D)
    <3>1. ASSUME NEW req \in Requests, RequestGranted(u, req)
          PROVE  Hopeless(available', allocation', requests', D)
      <4>1. u \notin D
        BY <2>3, <3>1 DEF RequestGranted
      <4> QED
        BY <2>5, <3>1, <4>1 DEF RequestGranted
    <3>2. CASE WokenGranted(u)
      <4>1. u \notin D
        BY <2>3, <3>2 DEF WokenGranted, CanAllocate, is_available, Inv1, TypeOK
      <4>2. requests[u] \in Vector
        BY DEF Inv1, TypeOK
      <4> QED
        BY <2>5, <3>2, <4>1, <4>2 DEF WokenGranted
    <3> QED
      BY <2>4, <2>6, <2>7, <2>8, <3>1, <3>2
         DEF ThreadStep, Call, ClaimRejected, ClaimAccepted, ClaimColumn, RequestRefused,
             SpuriousWakeup, WokenBlocked, ReleaseRefused, ThreadEnded, matrices, vars
  <2> QED
    BY <2>4, <2>8 DEF Next, Terminated, vars, matrices
<1> QED
  BY <1>1, InitInv1, StepInv1, PTL DEF Spec, DeadlockIsForever

-------------------------------------------------------------------------------
(* The library implements ResourceAllocator: allocation and maxDemand show the
   callers the abstract behaviour. *)

\* The abstract module's vectors and sums are the library's.
LEMMA SameArithmetic ==
  /\ Allocator!Thread = Thread /\ Allocator!Res = Res /\ Allocator!Vector = Vector
  /\ Allocator!Zero = Zero
  /\ \A a, b : Allocator!arrLessThan(a, b) <=> arrLessThan(a, b)
<1>1. Allocator!Thread = Thread
  BY DEF Allocator!Thread, Thread
<1>2. Allocator!Res = Res
  BY DEF Allocator!Res, Res
<1> QED
  BY <1>1, <1>2 DEF Allocator!Vector, Vector, Allocator!Zero, Zero,
                    Allocator!arrLessThan, arrLessThan

LEMMA SameHeld ==
  ASSUME NEW alloc, NEW D, NEW r
  PROVE  Allocator!Held(alloc, D, r) = Held(alloc, D, r)
<1>1. Allocator!Thread = Thread
  BY SameArithmetic
<1>2. ASSUME NEW v PROVE Allocator!Total(v) = Total(v)
  BY DEF Allocator!Total, Total
<1> QED
  BY <1>1, <1>2 DEF Allocator!Held, Held

LEMMA InitRefines == Init => Allocator!Init
BY SameArithmetic, RmAssumption DEF Init, Allocator!Init

\* What is available is what exists less what is held.
LEMMA InvFits == Inv2 => Allocator!Fits
<1> SUFFICES ASSUME Inv2, NEW r \in Res
             PROVE  Held(allocation, Thread, r) <= ExistingRes[r]
  BY SameArithmetic, SameHeld DEF Allocator!Fits
<1>1. allocation \in Matrix /\ available[r] \in Nat
  BY DEF Inv2, Inv1, TypeOK, Matrix, Vector
<1>2. available[r] + Held(allocation, Thread, r) = ExistingRes[r]
  BY DEF Inv2, Conservation
<1> QED
  BY <1>1, <1>2, HeldType

\* A safe state of the matrices is one in which everybody can finish.
LEMMA InvFinish == Inv3 /\ DA = 1 => Allocator!EverybodyCanFinish
<1> SUFFICES ASSUME Inv3, DA = 1, NEW D \in SUBSET Thread, D # {}
             PROVE  \E i \in D : \A r \in Res :
                      maxDemand[i][r] - allocation[i][r]
                        <= ExistingRes[r] - Held(allocation, D, r)
  BY SameArithmetic, SameHeld DEF Allocator!EverybodyCanFinish
<1>1. /\ available \in Vector /\ need \in Matrix /\ maxDemand \in Matrix
      /\ allocation \in Matrix /\ ExistingRes \in Vector
  BY RmAssumption DEF Inv3, Inv2, Inv1, TypeOK, Matrix
<1>2. PICK i \in D : \A r \in Res :
        need[i][r] <= available[r] + Held(allocation, Thread \ D, r)
  <2>1. ~Hopeless(available, allocation, need, D)
    BY DEF Inv3, SafeState, Safe
  <2>2. PICK i \in D : ~ \E r \in Res :
          need[i][r] > available[r] + Held(allocation, Thread \ D, r)
    BY <2>1 DEF Hopeless
  <2>3. ASSUME NEW r \in Res
        PROVE  need[i][r] \in Int /\ available[r] \in Int
                 /\ Held(allocation, Thread \ D, r) \in Int
    BY <1>1, HeldType DEF Matrix, Vector
  <2>4. ASSUME NEW r \in Res
        PROVE  need[i][r] <= available[r] + Held(allocation, Thread \ D, r)
    <3> DEFINE a == need[i][r]
               b == available[r]
               c == Held(allocation, Thread \ D, r)
    <3>1. ~(a > b + c)
      BY <2>2
    <3>2. a \in Int /\ b \in Int /\ c \in Int
      BY <2>3
    <3> HIDE DEF a, b, c
    <3>3. a <= b + c
      BY <3>1, <3>2
    <3> QED
      BY <3>3 DEF a, b, c
  <2> QED
    BY <2>4
<1>3. SUFFICES ASSUME NEW r \in Res
               PROVE  maxDemand[i][r] - allocation[i][r]
                        <= ExistingRes[r] - Held(allocation, D, r)
  OBVIOUS
<1>4. Held(allocation, Thread, r) = Held(allocation, D, r) + Held(allocation, Thread \ D, r)
  <2>1. Thread = D \cup (Thread \ D) /\ D \cap (Thread \ D) = {}
    OBVIOUS
  <2> QED
    BY <2>1, <1>1, HeldUnion
<1>5. /\ available[r] + Held(allocation, Thread, r) = ExistingRes[r]
      /\ need[i][r] + allocation[i][r] = maxDemand[i][r]
  BY DEF Inv3, Inv2, Conservation, NeedBalance
<1>6. /\ need[i][r] \in Int /\ available[r] \in Int /\ maxDemand[i][r] \in Int
      /\ allocation[i][r] \in Int /\ ExistingRes[r] \in Int
      /\ Held(allocation, D, r) \in Int /\ Held(allocation, Thread \ D, r) \in Int
  BY <1>1, HeldType DEF Matrix, Vector
<1> QED
  BY <1>2, <1>4, <1>5, <1>6

\* A claim's column is one more change of a row nothing is held against.
LEMMA ClaimRefines ==
  ASSUME Inv3, Inv3', NEW t \in Thread, ClaimColumn(t), UNCHANGED DA
  PROVE  Allocator!Claim(t)
<1>1. /\ allocation[t] = Zero /\ UNCHANGED allocation
      /\ maxDemand' = [maxDemand EXCEPT ![t][claim[t].col] = claim[t].vector[claim[t].col]]
  BY DEF ClaimColumn, Inv3, Inv2, Inv1, Bookkeeping
<1>2. maxDemand \in Matrix /\ maxDemand' \in Matrix
  BY DEF Inv3, Inv2, Inv1, TypeOK, Matrix
<1>3. \A r \in Res : maxDemand'[t][r] <= ExistingRes[r]
  BY DEF Inv3, Inv2, NeedBalance
<1>4. \A u \in Thread \ {t} : maxDemand'[u] = maxDemand[u]
  BY <1>1, <1>2 DEF Matrix
<1> QED
  BY <1>1, <1>2, <1>3, <1>4, SameArithmetic
     DEF Allocator!Claim, Allocator!OnlyRow, Matrix, arrLessThan

LEMMA GrantRefines ==
  ASSUME Inv3, Inv3', NEW t \in Thread, NEW req \in Vector, Allocate(t, req),
         UNCHANGED <<DA, maxDemand>>
  PROVE  Allocator!Grant(t)
<1>1. allocation \in Matrix /\ allocation' \in Matrix /\ maxDemand \in Matrix /\ need' \in Matrix
  BY DEF Inv3, Inv2, Inv1, TypeOK, Matrix
<1>2. allocation'[t] = Plus(allocation[t], req) /\ Allocator!OnlyRow(t, allocation, allocation')
  BY <1>1, SameArithmetic DEF Allocate, Allocator!OnlyRow, Matrix
<1>3. arrLessThan(allocation[t], allocation'[t])
  <2> SUFFICES ASSUME NEW r \in Res PROVE allocation[t][r] <= allocation'[t][r]
    BY DEF arrLessThan
  <2>1. allocation'[t][r] = allocation[t][r] + req[r]
    BY <1>2 DEF Plus
  <2>2. allocation[t][r] \in Nat /\ req[r] \in Nat
    BY <1>1 DEF Matrix, Vector
  <2> QED
    BY <2>1, <2>2
<1>4. arrLessThan(allocation'[t], maxDemand[t])
  <2> SUFFICES ASSUME NEW r \in Res PROVE allocation'[t][r] <= maxDemand[t][r]
    BY DEF arrLessThan
  <2>1. need'[t][r] + allocation'[t][r] = maxDemand[t][r]
    BY DEF Inv3, Inv2, NeedBalance
  <2>2. need'[t][r] \in Nat /\ allocation'[t][r] \in Nat
    BY <1>1 DEF Matrix, Vector
  <2> QED
    BY <2>1, <2>2
<1>5. Allocator!Fits' /\ (DA = 1 => Allocator!EverybodyCanFinish')
  <2>1. Inv2' => Allocator!Fits'
    BY InvFits, PTL
  <2>2. Inv3' /\ DA' = 1 => Allocator!EverybodyCanFinish'
    <3>1. (Inv3 /\ DA = 1)' => Allocator!EverybodyCanFinish'
      BY InvFinish, PTL
    <3> QED
      BY <3>1
  <2> QED
    BY <2>1, <2>2 DEF Inv3
<1> QED
  BY <1>1, <1>2, <1>3, <1>4, <1>5, SameArithmetic DEF Allocator!Grant, Matrix

LEMMA ReturnRefines ==
  ASSUME Inv3, Inv3', NEW t \in Thread, NEW rel \in Requests, Released(t, rel)
  PROVE  Allocator!Return(t)
<1>1. allocation \in Matrix /\ allocation' \in Matrix /\ rel \in Vector
  BY RmAssumption DEF Inv3, Inv2, Inv1, TypeOK, Matrix
<1>2. /\ allocation'[t] = Minus(allocation[t], rel) /\ UNCHANGED maxDemand
      /\ Allocator!OnlyRow(t, allocation, allocation')
  BY <1>1, SameArithmetic DEF Released, Allocator!OnlyRow, Matrix
<1>3. arrLessThan(allocation'[t], allocation[t])
  <2> SUFFICES ASSUME NEW r \in Res PROVE allocation'[t][r] <= allocation[t][r]
    BY DEF arrLessThan
  <2>1. allocation'[t][r] = allocation[t][r] - rel[r]
    BY <1>2 DEF Minus
  <2>2. allocation[t][r] \in Nat /\ rel[r] \in Nat
    BY <1>1 DEF Matrix, Vector
  <2> QED
    BY <2>1, <2>2
<1> QED
  BY <1>1, <1>2, <1>3, SameArithmetic DEF Allocator!Return, Matrix

LEMMA StepRefines == Inv3 /\ Inv3' /\ [Next]_vars => [Allocator!Next]_(Allocator!avars)
<1> SUFFICES ASSUME Inv3, Inv3', [Next]_vars
             PROVE  Allocator!Next \/ UNCHANGED <<DA, allocation, maxDemand>>
  BY DEF Allocator!avars
<1>1. CASE UNCHANGED vars
  BY <1>1 DEF vars
<1>2. CASE Terminated
  BY <1>2 DEF Terminated, vars
<1>3. ASSUME NEW t \in Thread, ThreadStep(t)
      PROVE  Allocator!Next \/ UNCHANGED <<DA, allocation, maxDemand>>
  <2>1. UNCHANGED DA
    BY <1>3 DEF ThreadStep
  <2>2. requests[t] \in Vector
    BY DEF Inv3, Inv2, Inv1, TypeOK
  <2>3. \/ ClaimColumn(t)
        \/ \E req \in Vector : Allocate(t, req) /\ UNCHANGED maxDemand
        \/ \E rel \in Requests : Released(t, rel)
        \/ UNCHANGED <<allocation, maxDemand>>
    BY <1>3, <2>2, RmAssumption
       DEF ThreadStep, Call, ClaimRejected, ClaimAccepted, RequestRefused, RequestGranted,
           RequestBlocked, SpuriousWakeup, WokenGranted, WokenBlocked, ReleaseRefused,
           ThreadEnded, matrices, vars
  <2>4. CASE ClaimColumn(t)
    BY <2>1, <2>4, ClaimRefines, SameArithmetic DEF Allocator!Next
  <2>5. CASE \E req \in Vector : Allocate(t, req) /\ UNCHANGED maxDemand
    BY <2>1, <2>5, GrantRefines, SameArithmetic DEF Allocator!Next
  <2>6. CASE \E rel \in Requests : Released(t, rel)
    BY <2>1, <2>6, ReturnRefines, SameArithmetic DEF Allocator!Next
  <2> QED
    BY <2>1, <2>3, <2>4, <2>5, <2>6
<1> QED
  BY <1>1, <1>2, <1>3 DEF Next

\* Every behaviour of the library, seen through allocation and maxDemand, is one
\* the callers were promised.
THEOREM ImplementsAllocator == Spec => ImplementsResourceAllocator
<1>1. Inv3 /\ [Next]_vars => Inv3'
  BY StepInv3
<1> QED
  BY <1>1, InitInv3, InitRefines, StepRefines, PTL
     DEF Spec, Allocator!Spec, ImplementsResourceAllocator
===============================================================================
