---------------------------------- MODULE TopK ----------------------------------
(***************************************************************************)
(* p1's word list (list.c) and topk.c: counting words in a list, sorting   *)
(* it and taking its first K, and what they are measured against: the K    *)
(* best words of a table of counts.                                        *)
(*                                                                         *)
(* A list is a sequence of words with their counts, without its dummy head *)
(* whose word is the empty one.  Words are numbers: strcmp() is their      *)
(* order, and the empty word is the least.                                 *)
(***************************************************************************)
EXTENDS Integers, Sequences, FiniteSets

Empty == 0

Entry(word, freq) == [word |-> word, freq |-> freq]

List == Seq([word : Int, freq : Int])

At(list, word) == {k \in DOMAIN list : list[k].word = word}

\* The dummy head swallows an empty word, but only while the list is empty.
insert(list, e) ==
  IF At(list, e.word) # {}
    THEN [list EXCEPT ![CHOOSE k \in At(list, e.word) : TRUE].freq = @ + e.freq]
    ELSE IF list = <<>> /\ e.word = Empty THEN list
    ELSE Append(list, e)

\* The list that a program builds from a sequence of entries.
insertAll(entries) ==
  LET step == [k \in Nat |-> [l \in List |-> insert(l, entries[k])]]
      list[k \in 0 .. Len(entries)] == IF k = 0 THEN <<>> ELSE step[k][list[k-1]]
  IN  list[Len(entries)]

Before(a, b) == a.freq > b.freq \/ (a.freq = b.freq /\ a.word < b.word)

\* sort(): nodes i < j exchange their words and counts if they are out of order.
swap(list, i, j) ==
  IF i < j /\ Before(list[j], list[i])
    THEN [list EXCEPT ![i] = list[j], ![j] = list[i]]
    ELSE list

\* The pairs in the order of the two loops: the p-th pair is (i, j).
sort(list) ==
  LET n    == Len(list)
      step == [p \in Nat |-> [l \in List |-> swap(l, ((p-1) \div n) + 1, ((p-1) % n) + 1)]]
      pass[p \in 0 .. n * n] == IF p = 0 THEN list ELSE step[p][pass[p-1]]
  IN  pass[n * n]

\* Of a list that is not empty: sort() crashes on one that is.
topKFrequent(list, k) == SubSeq(sort(list), 1, IF Len(list) < k THEN Len(list) ELSE k)

-------------------------------------------------------------------------------
(* Reference notions, not code. *)

\* The words of a table of counts that at most k-1 others come before.
Best(count, k) ==
  {w \in DOMAIN count :
     /\ count[w] > 0
     /\ Cardinality({v \in DOMAIN count :
                       Before(Entry(v, count[v]), Entry(w, count[w]))}) < k}

\* The lines show the k best words of the table in order, with their counts.
Shows(lines, count, k) ==
  /\ {lines[n].word : n \in DOMAIN lines} = Best(count, k)
  /\ \A n \in DOMAIN lines : lines[n].freq = count[lines[n].word]
  /\ \A m, n \in DOMAIN lines : m < n => Before(lines[m], lines[n])
===============================================================================
