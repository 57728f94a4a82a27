------------------------------ MODULE ReadyQueue ------------------------------
(***************************************************************************)
(* p2's ready queue as readyqueue.c builds it: a doubly linked list of     *)
(* nodes with head and tail pointers, a size and the summed burst lengths. *)
(* A call runs under the queue's mutex, so it is one step.                 *)
(***************************************************************************)
EXTENDS MarkedSequence

CONSTANTS Node,     \* the addresses malloc() may return
          NULL,
          burstLength   \* of each burst

ASSUME QueueAssumption ==
  /\ NULL \notin Node
  /\ burstLength \in [Item -> Nat] /\ burstLength[Marker] = 0

VARIABLES head, tail, size, queueLoad,
          node    \* the allocated nodes: data, next and prev

qvars == <<head, tail, size, queueLoad, node>>

QInit ==
  /\ head = NULL /\ tail = NULL
  /\ size = 0 /\ queueLoad = 0
  /\ node = [n \in {} |-> NULL]

Allocated == DOMAIN node

pid(n) == node[n].data

\* node after malloc() of n for b, and after free() of n.
New(n, b, next, prev) ==
  [m \in Allocated \cup {n} |->
     IF m = n THEN [data |-> b, next |-> next, prev |-> prev] ELSE node[m]]
Free(nodes, n) == [m \in DOMAIN nodes \ {n} |-> nodes[m]]

-------------------------------------------------------------------------------
\* A caller enqueues an item, burst or marker, only while it is out: it has just made
\* it or dequeued it, and no queue gets a second marker.
Out(b) == \A n \in Allocated : pid(n) # b

Counted(b) == size' = size + 1 /\ queueLoad' = queueLoad + burstLength[b]

EnqueueFirst(b, n) ==
  /\ head = NULL
  /\ node' = New(n, b, NULL, NULL)
  /\ head' = n /\ tail' = n

EnqueueBeforeLoneMarker(b, n) ==
  /\ head # NULL /\ pid(head) = Marker
  /\ node' = [New(n, b, tail, NULL) EXCEPT ![tail].prev = n]
  /\ head' = n /\ tail' = tail

EnqueueBeforeMarker(b, n) ==
  /\ head # NULL /\ pid(head) # Marker /\ pid(tail) = Marker
  /\ node' = [New(n, b, tail, node[tail].prev)
                EXCEPT ![node[tail].prev].next = n, ![tail].prev = n]
  /\ UNCHANGED <<head, tail>>

EnqueueLast(b, n) ==
  /\ head # NULL /\ pid(head) # Marker /\ pid(tail) # Marker
  /\ node' = [New(n, b, NULL, tail) EXCEPT ![tail].next = n]
  /\ head' = head /\ tail' = n

enqueue(b) ==
  /\ Out(b)
  /\ \E n \in Node \ Allocated :
       EnqueueFirst(b, n) \/ EnqueueBeforeLoneMarker(b, n)
         \/ EnqueueBeforeMarker(b, n) \/ EnqueueLast(b, n)
  /\ Counted(b)

-------------------------------------------------------------------------------
Uncounted(n) == size' = size - 1 /\ queueLoad' = queueLoad - burstLength[pid(n)]

\* Slip: the tail is left pointing at the freed node of a one-item queue.
RemoveHead_KeepsTail ==
  LET second == node[head].next
  IN  /\ head' = second /\ tail' = tail
      /\ node' = Free(IF second = NULL THEN node
                                       ELSE [node EXCEPT ![second].prev = NULL], head)
      /\ Uncounted(head)

RemoveHead ==
  LET second == node[head].next
  IN  /\ head' = second
      /\ tail' = IF second = NULL THEN NULL ELSE tail
      /\ node' = Free(IF second = NULL THEN node
                                       ELSE [node EXCEPT ![second].prev = NULL], head)
      /\ Uncounted(head)

\* The check for the marker is "!pid == -1", which is never true, so that the marker
\* is dequeued like a burst.
dequeue == head # NULL /\ RemoveHead

\* The search from the head for a pid: pids differ, so it finds its node.
dequeue_at(b) ==
  \E n \in Allocated :
    LET before == node[n].prev
        after  == node[n].next
    IN  /\ pid(n) = b
        /\ IF n = head THEN RemoveHead
           ELSE /\ head' = head
                /\ tail' = IF after = NULL THEN before ELSE tail
                /\ node' = Free(IF after = NULL
                                  THEN [node EXCEPT ![before].next = NULL]
                                  ELSE [node EXCEPT ![before].next = after,
                                                    ![after].prev = before], n)
                /\ Uncounted(n)

-------------------------------------------------------------------------------
\* The k-th node from the head.
Nth == LET nth[k \in 0 .. size] ==
             IF k = 0 THEN NULL
             ELSE IF k = 1 THEN head
             ELSE IF nth[k-1] \notin Allocated THEN NULL
             ELSE node[nth[k-1]].next
       IN  nth

Position(n) == CHOOSE k \in 1 .. size : Nth[k] = n

\* sort(): for every node i and every later node j, exchange the items if j's pid
\* is smaller.  The pairs are taken in order, pair p being node (p-1) \div size + 1
\* and node ((p-1) % size) + 1.
Exchanged(items, i, j) ==
  IF i < j /\ items[i] > items[j]
    THEN [items EXCEPT ![i] = items[j], ![j] = items[i]]
    ELSE items

\* Slip: a bubble sort's comparisons, one pass.
sorted_OnePass(items) ==
  LET pass[p \in 0 .. size] ==
        IF p < 2 THEN items ELSE Exchanged(pass[p-1], p-1, p)
  IN  pass[size]

sorted(items) ==
  LET pass[p \in 0 .. size * size] ==
        IF p = 0 THEN items
        ELSE Exchanged(pass[p-1], ((p-1) \div size) + 1, ((p-1) % size) + 1)
  IN  pass[size * size]

\* The program sorts only the queue of finished bursts, which never gets a marker.
sort ==
  /\ Out(Marker)
  /\ LET items == sorted([k \in 1 .. size |-> pid(Nth[k])])
     IN  node' = [n \in Allocated |-> [node[n] EXCEPT !.data = items[Position(n)]]]
  /\ UNCHANGED <<head, tail, size, queueLoad>>

QNext ==
  \/ \E b \in Item : enqueue(b)
  \/ dequeue
  \/ \E b \in Item : dequeue_at(b)
  \/ sort

QSpec == QInit /\ [][QNext]_qvars

-------------------------------------------------------------------------------
(* Properties *)

\* The pointers form one list: head and tail are its ends, prev undoes next, its
\* length is size, nothing allocated is off the list, and queueLoad is the sum of
\* the burst lengths in it.
WellLinked ==
  /\ size >= 0
  /\ Nth[size] = tail
  /\ (size = 0) <=> (head = NULL)
  /\ {Nth[k] : k \in 1 .. size} = Allocated
  /\ \A k \in 1 .. size : node[Nth[k]].prev = Nth[k-1]
  /\ tail # NULL => node[tail].next = NULL
  /\ LET load[k \in 0 .. size] ==
           IF k = 0 THEN 0 ELSE load[k-1] + burstLength[pid(Nth[k])]
     IN  queueLoad = load[size]

\* The list the pointers represent, and what readyqueue.h promises of it.
Abstract == INSTANCE ReadyList WITH list <- [k \in 1 .. size |-> pid(Nth[k])]

ImplementsReadyList == Abstract!LSpec
===============================================================================
