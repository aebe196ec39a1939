----------------------- MODULE NonBlockingQueue_proofs -----------------------
(***************************************************************************)
(* Proofs about the non-blocking queue of stm/src/nonblock.rs: for every   *)
(* number of threads, puts and polls, the queue implements the Queue trait *)
(* of AbstractQueue under queue <- QueueSeq, out <- polled, up to a fault. *)
(*                                                                         *)
(* The argument: next pointers are written once, from null to a fresh      *)
(* node, so the nodes reachable from the sentinel form one list.  head     *)
(* and the nodes after it (queueNodes) are its end; every node before head *)
(* has a next node, and so has every node a thread may hold as a tail.    *)
(* A put's compare_exchange therefore succeeds only on the last node and  *)
(* appends there, and a poll's compare_exchange on head moves head to the *)
(* first node of queueNodes and returns its value.  tail may lag behind,  *)
(* even behind head: only what a poll does with a null next_ptr (the      *)
(* fault of NoNullDeref) depends on it, never which items it returns.     *)
(***************************************************************************)
EXTENDS NonBlockingQueue, SequenceTheorems, TLAPS

PutPCs == {"put_load", "put_cas", "put_store"}
QNodes == {queueNodes[i] : i \in 1..Len(queueNodes)}

\* A node of the list from the sentinel: head, a node after it, or a node
\* before it, which has a next node.
Linked(n) == n \in Nodes /\ (n = head \/ n \in QNodes \/ next[n] # Null)

\* queueNodes is the list from head's next node to the last node.
QueueChain ==
  /\ next[head] = IF queueNodes = << >> THEN Null ELSE queueNodes[1]
  /\ \A i \in 1..Len(queueNodes) :
        next[queueNodes[i]] = IF i < Len(queueNodes) THEN queueNodes[i + 1] ELSE Null

\* Next pointers lead from linked nodes to linked nodes put so far.
LinkedClosed ==
  \A n \in Nodes : next[n] # Null => next[n] \in 1..puts /\ Linked(next[n])

\* Linked nodes are the sentinel and nodes of started puts.
LinkedStarted == \A n \in Nodes : Linked(n) => n \in 0..puts

\* Puts that have not linked their nodes yet hold different nodes.
PutDistinct ==
  \A t, u \in Threads :
     t # u /\ pc[t] \in {"put_load", "put_cas"} /\ pc[u] \in {"put_load", "put_cas"}
        => newPtr[t] # newPtr[u]

\* What thread t holds: a put that has not linked its node yet, a fresh
\* node no pointer leads to; a put, a linked tail, with a next node once the
\* put linked its node; a poll, the linked head and tail it loaded and the
\* next pointer it loaded, null or head_ptr's next.
ThreadOK(t) ==
  /\ pc[t] \in {"put_load", "put_cas"} =>
        /\ newPtr[t] \in 1..puts /\ ~Linked(newPtr[t])
        /\ \A n \in Nodes : next[n] # newPtr[t]
  /\ pc[t] = "put_cas" => Linked(tailPtr[t])
  /\ pc[t] = "put_store" => tailPtr[t] \in Nodes /\ next[tailPtr[t]] # Null
  /\ pc[t] \in {"poll_tail", "poll_next", "poll_check"} => Linked(headPtr[t])
  /\ pc[t] \in {"poll_next", "poll_check"} => Linked(tailPtr[t])
  /\ pc[t] \in {"poll_check", "poll_head_cas"} =>
        headPtr[t] \in Nodes /\ nextPtr[t] \in {Null, next[headPtr[t]]}
  /\ pc[t] = "poll_tail_cas" =>
        /\ Linked(tailPtr[t])
        /\ nextPtr[t] = next[tailPtr[t]] /\ nextPtr[t] # Null

IInv ==
  /\ TypeOK
  /\ QueueChain
  /\ LinkedClosed
  /\ LinkedStarted
  /\ Linked(tail)
  /\ PutDistinct
  /\ \A t \in Threads : ThreadOK(t)

\* How a step may change the list: next pointers once set stay, linked nodes
\* stay linked, and a node that is neither linked nor pointed to stays so,
\* unless it is the node X the step links.
Monotone(X) ==
  /\ \A n \in Nodes : next[n] # Null => next'[n] = next[n]
  /\ \A n \in Nodes : Linked(n) => Linked(n)'
  /\ \A n \in Nodes :
        n # X /\ ~Linked(n) /\ (\A m \in Nodes : next[m] # n)
           => ~Linked(n)' /\ \A m \in Nodes : next'[m] # n

-----------------------------------------------------------------------------
(* A thread's view stays right while other threads step, as long as the   *)
(* list only grows at its end and head only moves along it.               *)
LEMMA OtherThread ==
  ASSUME NEW u, ThreadOK(u), NEW X, Monotone(X),
         pc'[u] = pc[u], newPtr'[u] = newPtr[u], headPtr'[u] = headPtr[u],
         tailPtr'[u] = tailPtr[u], nextPtr'[u] = nextPtr[u],
         puts \in Nat, puts' \in Nat, puts <= puts', newPtr[u] \in Nodes \cup {Null},
         pc[u] \in {"put_load", "put_cas"} => newPtr[u] # X
  PROVE  ThreadOK(u)'
<1>1. (pc[u] \in {"put_load", "put_cas"} =>
         /\ newPtr[u] \in 1..puts /\ ~Linked(newPtr[u])
         /\ \A n \in Nodes : next[n] # newPtr[u])'
  <2> SUFFICES ASSUME pc[u] \in {"put_load", "put_cas"}
               PROVE  /\ newPtr[u] \in 1..puts' /\ ~Linked(newPtr[u])'
                      /\ \A n \in Nodes : next'[n] # newPtr[u]
    OBVIOUS
  <2>1. /\ newPtr[u] \in 1..puts /\ ~Linked(newPtr[u]) /\ newPtr[u] # X
        /\ \A n \in Nodes : next[n] # newPtr[u]
    BY DEF ThreadOK
  <2>2. newPtr[u] \in Nodes
    BY <2>1 DEF Null
  <2>3. ~Linked(newPtr[u])' /\ \A n \in Nodes : next'[n] # newPtr[u]
    BY <2>1, <2>2 DEF Monotone
  <2> QED
    BY <2>1, <2>3
<1>2. (pc[u] = "put_cas" => Linked(tailPtr[u]))'
  BY DEF ThreadOK, Monotone, Linked
<1>3. (pc[u] = "put_store" => tailPtr[u] \in Nodes /\ next[tailPtr[u]] # Null)'
  BY DEF ThreadOK, Monotone
<1>4. /\ (pc[u] \in {"poll_tail", "poll_next", "poll_check"} => Linked(headPtr[u]))'
      /\ (pc[u] \in {"poll_next", "poll_check"} => Linked(tailPtr[u]))'
  BY DEF ThreadOK, Monotone, Linked
<1>5. (pc[u] \in {"poll_check", "poll_head_cas"} =>
         headPtr[u] \in Nodes /\ nextPtr[u] \in {Null, next[headPtr[u]]})'
  BY DEF ThreadOK, Monotone
<1>6. (pc[u] = "poll_tail_cas" =>
         /\ Linked(tailPtr[u])
         /\ nextPtr[u] = next[tailPtr[u]] /\ nextPtr[u] # Null)'
  BY DEF ThreadOK, Monotone, Linked
<1> QED
  BY <1>1, <1>2, <1>3, <1>4, <1>5, <1>6 DEF ThreadOK

(* Every thread but the stepping one keeps its view. *)
LEMMA OthersOK ==
  ASSUME IInv, NEW t \in Threads, NEW X, Monotone(X),
         \A u \in Threads : u # t =>
            /\ pc'[u] = pc[u] /\ newPtr'[u] = newPtr[u] /\ headPtr'[u] = headPtr[u]
            /\ tailPtr'[u] = tailPtr[u] /\ nextPtr'[u] = nextPtr[u],
         puts' \in Nat, puts <= puts',
         \A u \in Threads : u # t /\ pc[u] \in {"put_load", "put_cas"} => newPtr[u] # X
  PROVE  \A u \in Threads : u # t => ThreadOK(u)'
<1> SUFFICES ASSUME NEW u \in Threads, u # t PROVE ThreadOK(u)'
  OBVIOUS
<1>1. puts \in Nat /\ newPtr[u] \in Nodes \cup {Null}
  BY DEF IInv, TypeOK
<1> QED
  BY <1>1, OtherThread DEF IInv

(* A step that leaves head, next and queueNodes alone leaves the list. *)
LEMMA FrozenMonotone ==
  ASSUME NEW X, UNCHANGED <<head, next, queueNodes>>
  PROVE  Monotone(X)
BY DEF Monotone, Linked, QNodes

(* So does it the shared invariants, whatever it does to tail, if it     *)
(* leaves tail linked.                                                   *)
LEMMA FrozenShared ==
  ASSUME IInv, UNCHANGED <<head, next, queueNodes>>,
         puts' \in Nat, puts <= puts', Linked(tail)'
  PROVE  QueueChain' /\ LinkedClosed' /\ LinkedStarted' /\ Linked(tail)'
<1>1. \A n \in Nodes : Linked(n)' = Linked(n)
  BY DEF Linked, QNodes
<1>2. puts \in Nat
  BY DEF IInv, TypeOK
<1>3. QueueChain'
  BY DEF IInv, QueueChain
<1>4. LinkedClosed'
  <2> SUFFICES ASSUME NEW n \in Nodes, next'[n] # Null
               PROVE  (next[n] \in 1..puts /\ Linked(next[n]))'
    BY DEF LinkedClosed
  <2>1. next[n] \in 1..puts /\ Linked(next[n])
    BY DEF IInv, LinkedClosed
  <2>2. next[n] \in Nodes
    BY <2>1 DEF Linked
  <2> QED
    BY <1>1, <1>2, <2>1, <2>2
<1>5. LinkedStarted'
  BY <1>1, <1>2 DEF IInv, LinkedStarted
<1> QED
  BY <1>3, <1>4, <1>5

(* The frame of a step of thread t: no other thread's locals change. *)
OthersFrame(t) ==
  \A u \in Threads : u # t =>
     /\ pc'[u] = pc[u] /\ newPtr'[u] = newPtr[u] /\ headPtr'[u] = headPtr[u]
     /\ tailPtr'[u] = tailPtr[u] /\ nextPtr'[u] = nextPtr[u]

(* A step of t that leaves the list alone keeps the invariant if it keeps *)
(* tail linked, t's own view right and the puts' nodes distinct.          *)
LEMMA FrozenStep ==
  ASSUME IInv, NEW t \in Threads, UNCHANGED <<head, next, queueNodes>>,
         puts' \in Nat, puts <= puts', OthersFrame(t),
         TypeOK', Linked(tail)', PutDistinct', ThreadOK(t)'
  PROVE  IInv'
<1>1. QueueChain' /\ LinkedClosed' /\ LinkedStarted'
  BY FrozenShared
<1>2. Monotone(Null)
  BY FrozenMonotone
<1>3. \A u \in Threads : u # t /\ pc[u] \in {"put_load", "put_cas"} => newPtr[u] # Null
  BY DEF IInv, ThreadOK, Null
<1>4. \A u \in Threads : u # t => ThreadOK(u)'
  BY <1>2, <1>3, OthersOK DEF OthersFrame
<1> QED
  BY <1>1, <1>4 DEF IInv

(* The frame of a step that changes pc[t] and locals of t only. *)
LEMMA ExceptFrame ==
  ASSUME IInv, NEW t \in Threads, NEW l, pc' = [pc EXCEPT ![t] = l],
         NEW a, NEW b, NEW c, NEW d,
         newPtr' = [newPtr EXCEPT ![t] = a] \/ newPtr' = newPtr,
         headPtr' = [headPtr EXCEPT ![t] = b] \/ headPtr' = headPtr,
         tailPtr' = [tailPtr EXCEPT ![t] = c] \/ tailPtr' = tailPtr,
         nextPtr' = [nextPtr EXCEPT ![t] = d] \/ nextPtr' = nextPtr
  PROVE  OthersFrame(t)
BY DEF IInv, TypeOK, OthersFrame

-----------------------------------------------------------------------------
LEMMA CallPutIInv ==
  ASSUME IInv, NEW t \in Threads, CallPut(t)
  PROVE  IInv'
<1>0. /\ TypeOK /\ MaxPut \in Nat /\ puts \in 0..(MaxPut - 1) /\ puts + 1 \in Nodes
      /\ head' = head /\ tail' = tail /\ next' = next /\ queueNodes' = queueNodes
      /\ pc[t] = "idle"
      /\ puts' = puts + 1 /\ pc' = [pc EXCEPT ![t] = "put_load"]
      /\ newPtr' = [newPtr EXCEPT ![t] = puts + 1]
  BY QueueAssumption DEF IInv, TypeOK, CallPut, Nodes, Goto
<1>1. OthersFrame(t)
  BY <1>0, ExceptFrame DEF CallPut
<1>2. TypeOK'
  <2>1. pc' \in [Threads -> PCs] /\ newPtr' \in [Threads -> Nodes \cup {Null}]
    BY <1>0 DEF TypeOK, PCs
  <2>2. puts' \in 0..MaxPut
    BY <1>0
  <2> QED
    BY <1>0, <2>1, <2>2 DEF CallPut, TypeOK
<1>3. pc'[t] = "put_load" /\ newPtr'[t] = puts + 1
  BY <1>0 DEF TypeOK
<1>4. PutDistinct'
  <2>1. \A u \in Threads : u # t /\ pc[u] \in {"put_load", "put_cas"} => newPtr[u] \in 1..puts
    BY DEF IInv, ThreadOK
  <2> QED
    BY <1>0, <1>1, <1>3, <2>1 DEF IInv, PutDistinct, OthersFrame
<1>5. ThreadOK(t)'
  <2>0. LinkedStarted /\ LinkedClosed
    BY DEF IInv
  <2>1. ~Linked(puts + 1)
    BY <1>0, <2>0 DEF LinkedStarted
  <2>2. \A n \in Nodes : next[n] # puts + 1
    BY <1>0, <2>0 DEF LinkedClosed, Null
  <2>3. (~Linked(newPtr[t]))'
    BY <1>0, <1>3, <2>1 DEF Linked, QNodes
  <2>4. (newPtr[t] \in 1..puts /\ \A n \in Nodes : next[n] # newPtr[t])'
    BY <1>0, <1>3, <2>2
  <2> QED
    BY <1>3, <2>3, <2>4 DEF ThreadOK
<1>6. Linked(tail)'
  BY <1>0 DEF IInv, Linked, QNodes
<1> QED
  BY <1>0, <1>1, <1>2, <1>4, <1>5, <1>6, FrozenStep

(* A step that leaves the put nodes alone and starts no put keeps them     *)
(* distinct.                                                               *)
LEMMA DistinctKept ==
  ASSUME IInv, newPtr' = newPtr,
         \A u \in Threads : pc'[u] \in {"put_load", "put_cas"} => pc[u] \in {"put_load", "put_cas"}
  PROVE  PutDistinct'
BY DEF IInv, PutDistinct

LEMMA PutLoadIInv ==
  ASSUME IInv, NEW t \in Threads, PutLoad(t)
  PROVE  IInv'
<1>0. /\ TypeOK /\ pc[t] = "put_load" /\ puts \in Nat
      /\ head' = head /\ tail' = tail /\ next' = next /\ queueNodes' = queueNodes
      /\ puts' = puts /\ newPtr' = newPtr /\ headPtr' = headPtr /\ nextPtr' = nextPtr
      /\ polls' = polls /\ polled' = polled
      /\ pc' = [pc EXCEPT ![t] = "put_cas"] /\ tailPtr' = [tailPtr EXCEPT ![t] = tail]
  BY QueueAssumption DEF IInv, TypeOK, PutLoad, Goto
<1>1. OthersFrame(t)
  BY <1>0, ExceptFrame
<1>2. TypeOK'
  <2>1. pc' \in [Threads -> PCs] /\ tailPtr' \in [Threads -> Nodes \cup {Null}]
    BY <1>0 DEF TypeOK, PCs
  <2> QED
    BY <1>0, <2>1 DEF TypeOK
<1>3. PutDistinct'
  BY <1>0, DistinctKept DEF TypeOK
<1>4. ThreadOK(t)'
  <2>1. newPtr[t] \in 1..puts /\ ~Linked(newPtr[t]) /\ \A n \in Nodes : next[n] # newPtr[t]
    BY <1>0 DEF IInv, ThreadOK
  <2>2. Linked(tail) /\ pc'[t] = "put_cas" /\ tailPtr'[t] = tail
    BY <1>0 DEF IInv, TypeOK
  <2>3. (Linked(newPtr[t]) <=> Linked(newPtr[t])') /\ (Linked(tail) <=> Linked(tailPtr[t])')
    BY <1>0, <2>2 DEF Linked, QNodes
  <2> QED
    BY <1>0, <2>1, <2>2, <2>3 DEF ThreadOK
<1>5. Linked(tail)'
  BY <1>0 DEF IInv, Linked, QNodes
<1> QED
  BY <1>0, <1>1, <1>2, <1>3, <1>4, <1>5, FrozenStep

LEMMA PutStoreIInv ==
  ASSUME IInv, NEW t \in Threads, PutStore(t)
  PROVE  IInv'
<1>0. /\ TypeOK /\ pc[t] = "put_store" /\ puts \in Nat
      /\ head' = head /\ tail' = next[tailPtr[t]] /\ next' = next
      /\ queueNodes' = queueNodes
      /\ puts' = puts /\ newPtr' = newPtr /\ headPtr' = headPtr /\ nextPtr' = nextPtr
      /\ tailPtr' = tailPtr /\ polls' = polls /\ polled' = polled
      /\ pc' = [pc EXCEPT ![t] = "idle"]
  BY QueueAssumption DEF IInv, TypeOK, PutStore, Goto
<1>1. OthersFrame(t)
  BY <1>0, ExceptFrame
<1>2. tailPtr[t] \in Nodes /\ next[tailPtr[t]] # Null
  BY <1>0 DEF IInv, ThreadOK
<1>3. next[tailPtr[t]] \in Nodes /\ Linked(next[tailPtr[t]])
  BY <1>2 DEF IInv, LinkedClosed, Linked
<1>4. TypeOK'
  <2>1. pc' \in [Threads -> PCs]
    BY <1>0 DEF TypeOK, PCs
  <2> QED
    BY <1>0, <1>3, <2>1 DEF TypeOK
<1>5. PutDistinct'
  BY <1>0, DistinctKept DEF TypeOK
<1>6. ThreadOK(t)'
  BY <1>0 DEF ThreadOK, TypeOK
<1>7. Linked(tail)'
  BY <1>0, <1>3 DEF Linked, QNodes
<1> QED
  BY <1>0, <1>1, <1>4, <1>5, <1>6, <1>7, FrozenStep

LEMMA CallPollIInv ==
  ASSUME IInv, NEW t \in Threads, CallPoll(t)
  PROVE  IInv'
<1>0. /\ TypeOK /\ pc[t] = "idle" /\ polls < MaxPoll /\ MaxPoll \in Nat /\ puts \in Nat
      /\ head' = head /\ tail' = tail /\ next' = next /\ queueNodes' = queueNodes
      /\ puts' = puts /\ newPtr' = newPtr /\ headPtr' = headPtr /\ nextPtr' = nextPtr
      /\ tailPtr' = tailPtr /\ polls' = polls + 1 /\ polled' = polled
      /\ pc' = [pc EXCEPT ![t] = "poll_head"]
  BY QueueAssumption DEF IInv, TypeOK, CallPoll, Goto
<1>1. OthersFrame(t)
  BY <1>0, ExceptFrame
<1>2. TypeOK'
  <2>1. pc' \in [Threads -> PCs] /\ polls' \in 0..MaxPoll
    BY <1>0 DEF TypeOK, PCs
  <2> QED
    BY <1>0, <2>1 DEF TypeOK
<1>3. PutDistinct'
  BY <1>0, DistinctKept DEF TypeOK
<1>4. ThreadOK(t)'
  BY <1>0 DEF ThreadOK, TypeOK
<1>5. Linked(tail)'
  BY <1>0 DEF IInv, Linked, QNodes
<1> QED
  BY <1>0, <1>1, <1>2, <1>3, <1>4, <1>5, FrozenStep

LEMMA PollHeadIInv ==
  ASSUME IInv, NEW t \in Threads, PollHead(t)
  PROVE  IInv'
<1>0. /\ TypeOK /\ pc[t] = "poll_head" /\ puts \in Nat
      /\ head' = head /\ tail' = tail /\ next' = next /\ queueNodes' = queueNodes
      /\ puts' = puts /\ newPtr' = newPtr /\ tailPtr' = tailPtr /\ nextPtr' = nextPtr
      /\ polls' = polls /\ polled' = polled
      /\ pc' = [pc EXCEPT ![t] = "poll_tail"] /\ headPtr' = [headPtr EXCEPT ![t] = head]
  BY QueueAssumption DEF IInv, TypeOK, PollHead, Goto
<1>1. OthersFrame(t)
  BY <1>0, ExceptFrame
<1>2. TypeOK'
  <2>1. pc' \in [Threads -> PCs] /\ headPtr' \in [Threads -> Nodes \cup {Null}]
    BY <1>0 DEF TypeOK, PCs
  <2> QED
    BY <1>0, <2>1 DEF TypeOK
<1>3. PutDistinct'
  BY <1>0, DistinctKept DEF TypeOK
<1>4. ThreadOK(t)'
  <2>1. pc'[t] = "poll_tail" /\ headPtr'[t] = head
    BY <1>0 DEF TypeOK
  <2>2. (Linked(headPtr[t]))'
    BY <1>0, <2>1 DEF Linked, QNodes, TypeOK
  <2> QED
    BY <2>1, <2>2 DEF ThreadOK
<1>5. Linked(tail)'
  BY <1>0 DEF IInv, Linked, QNodes
<1> QED
  BY <1>0, <1>1, <1>2, <1>3, <1>4, <1>5, FrozenStep

LEMMA PollTailIInv ==
  ASSUME IInv, NEW t \in Threads, PollTail(t)
  PROVE  IInv'
<1>0. /\ TypeOK /\ pc[t] = "poll_tail" /\ puts \in Nat
      /\ head' = head /\ tail' = tail /\ next' = next /\ queueNodes' = queueNodes
      /\ puts' = puts /\ newPtr' = newPtr /\ headPtr' = headPtr /\ nextPtr' = nextPtr
      /\ polls' = polls /\ polled' = polled
      /\ pc' = [pc EXCEPT ![t] = "poll_next"] /\ tailPtr' = [tailPtr EXCEPT ![t] = tail]
  BY QueueAssumption DEF IInv, TypeOK, PollTail, Goto
<1>1. OthersFrame(t)
  BY <1>0, ExceptFrame
<1>2. TypeOK'
  <2>1. pc' \in [Threads -> PCs] /\ tailPtr' \in [Threads -> Nodes \cup {Null}]
    BY <1>0 DEF TypeOK, PCs
  <2> QED
    BY <1>0, <2>1 DEF TypeOK
<1>3. PutDistinct'
  BY <1>0, DistinctKept DEF TypeOK
<1>4. ThreadOK(t)'
  <2>1. pc'[t] = "poll_next" /\ tailPtr'[t] = tail
    BY <1>0 DEF TypeOK
  <2>2. Linked(headPtr[t]) /\ Linked(tail)
    BY <1>0 DEF IInv, ThreadOK
  <2>3. (Linked(headPtr[t]))' /\ (Linked(tailPtr[t]))'
    BY <1>0, <2>1, <2>2 DEF Linked, QNodes
  <2> QED
    BY <2>1, <2>3 DEF ThreadOK
<1>5. Linked(tail)'
  BY <1>0 DEF IInv, Linked, QNodes
<1> QED
  BY <1>0, <1>1, <1>2, <1>3, <1>4, <1>5, FrozenStep

LEMMA PollNextIInv ==
  ASSUME IInv, NEW t \in Threads, PollNext(t)
  PROVE  IInv'
<1>0. /\ TypeOK /\ pc[t] = "poll_next" /\ puts \in Nat
      /\ head' = head /\ tail' = tail /\ next' = next /\ queueNodes' = queueNodes
      /\ puts' = puts /\ newPtr' = newPtr /\ headPtr' = headPtr /\ tailPtr' = tailPtr
      /\ polls' = polls /\ polled' = polled
      /\ pc' = [pc EXCEPT ![t] = "poll_check"]
      /\ nextPtr' = [nextPtr EXCEPT ![t] = next[headPtr[t]]]
  BY QueueAssumption DEF IInv, TypeOK, PollNext, Goto
<1>1. OthersFrame(t)
  BY <1>0, ExceptFrame
<1>2. Linked(headPtr[t]) /\ Linked(tailPtr[t]) /\ headPtr[t] \in Nodes
  BY <1>0 DEF IInv, ThreadOK, Linked
<1>3. next[headPtr[t]] \in Nodes \cup {Null}
  BY <1>0, <1>2 DEF TypeOK
<1>4. TypeOK'
  <2>1. pc' \in [Threads -> PCs] /\ nextPtr' \in [Threads -> Nodes \cup {Null}]
    BY <1>0, <1>3 DEF TypeOK, PCs
  <2> QED
    BY <1>0, <2>1 DEF TypeOK
<1>5. PutDistinct'
  BY <1>0, DistinctKept DEF TypeOK
<1>6. ThreadOK(t)'
  <2>1. pc'[t] = "poll_check" /\ nextPtr'[t] = next[headPtr[t]]
    BY <1>0 DEF TypeOK
  <2>2. (Linked(headPtr[t]))' /\ (Linked(tailPtr[t]))'
    BY <1>0, <1>2 DEF Linked, QNodes
  <2>3. (headPtr[t] \in Nodes /\ nextPtr[t] \in {Null, next[headPtr[t]]})'
    BY <1>0, <1>2, <2>1
  <2> QED
    BY <2>1, <2>2, <2>3 DEF ThreadOK
<1>7. Linked(tail)'
  BY <1>0 DEF IInv, Linked, QNodes
<1> QED
  BY <1>0, <1>1, <1>4, <1>5, <1>6, <1>7, FrozenStep

LEMMA PollCheckIInv ==
  ASSUME IInv, NEW t \in Threads, PollCheck(t)
  PROVE  IInv'
<1> DEFINE dest == IF headPtr[t] # head THEN "poll_head"
                   ELSE IF headPtr[t] = tailPtr[t] /\ nextPtr[t] = Null THEN "idle"
                   ELSE IF headPtr[t] = tailPtr[t] THEN "poll_tail_cas"
                   ELSE "poll_head_cas"
<1>0. /\ TypeOK /\ pc[t] = "poll_check" /\ puts \in Nat
      /\ head' = head /\ tail' = tail /\ next' = next /\ queueNodes' = queueNodes
      /\ puts' = puts /\ newPtr' = newPtr /\ headPtr' = headPtr /\ tailPtr' = tailPtr
      /\ nextPtr' = nextPtr /\ polls' = polls /\ polled' = polled
      /\ pc' = [pc EXCEPT ![t] = dest]
  BY QueueAssumption DEF IInv, TypeOK, PollCheck, Goto
<1>1. OthersFrame(t)
  BY <1>0, ExceptFrame
<1>2. /\ Linked(tailPtr[t])
      /\ headPtr[t] \in Nodes /\ nextPtr[t] \in {Null, next[headPtr[t]]}
  BY <1>0 DEF IInv, ThreadOK
<1>3. dest \in {"poll_head", "idle", "poll_tail_cas", "poll_head_cas"}
  BY DEF Null
<1>4. TypeOK'
  <2>1. pc' \in [Threads -> PCs]
    BY <1>0, <1>3 DEF TypeOK, PCs
  <2> QED
    BY <1>0, <2>1 DEF TypeOK
<1>5. PutDistinct'
  BY <1>0, <1>3, DistinctKept DEF TypeOK
<1>6. ThreadOK(t)'
  <2>1. pc'[t] = dest
    BY <1>0 DEF TypeOK
  <2>2. (Linked(tailPtr[t]))'
    BY <1>0, <1>2 DEF Linked, QNodes
  <2>3. (headPtr[t] \in Nodes /\ nextPtr[t] \in {Null, next[headPtr[t]]})'
    BY <1>0, <1>2
  <2>4. dest = "poll_tail_cas" => headPtr[t] = tailPtr[t] /\ nextPtr[t] # Null
    <3>1. CASE headPtr[t] # head
      <4>1. dest = "poll_head"
        BY <3>1
      <4> QED
        BY <4>1
    <3>2. CASE headPtr[t] = head /\ headPtr[t] = tailPtr[t] /\ nextPtr[t] = Null
      <4>1. dest = "idle"
        BY <3>2
      <4> QED
        BY <4>1
    <3>3. CASE headPtr[t] = head /\ headPtr[t] = tailPtr[t] /\ nextPtr[t] # Null
      BY <3>3
    <3>4. CASE headPtr[t] = head /\ headPtr[t] # tailPtr[t]
      BY <3>4
    <3> QED
      BY <3>1, <3>2, <3>3, <3>4
  <2>5. pc'[t] = "poll_tail_cas" => (nextPtr[t] = next[tailPtr[t]] /\ nextPtr[t] # Null)'
    BY <1>0, <1>2, <2>1, <2>4
  <2> QED
    BY <1>3, <2>1, <2>2, <2>3, <2>5 DEF ThreadOK
<1>7. Linked(tail)'
  BY <1>0 DEF IInv, Linked, QNodes
<1> QED
  BY <1>0, <1>1, <1>4, <1>5, <1>6, <1>7, FrozenStep

LEMMA PollTailCasIInv ==
  ASSUME IInv, NEW t \in Threads, PollTailCas(t)
  PROVE  IInv'
<1> DEFINE dest == IF tail = tailPtr[t] THEN "poll_head" ELSE "panicked"
<1>0. /\ TypeOK /\ pc[t] = "poll_tail_cas" /\ puts \in Nat
      /\ head' = head /\ next' = next /\ queueNodes' = queueNodes
      /\ puts' = puts /\ newPtr' = newPtr /\ headPtr' = headPtr /\ tailPtr' = tailPtr
      /\ nextPtr' = nextPtr /\ polls' = polls /\ polled' = polled
      /\ pc' = [pc EXCEPT ![t] = dest]
      /\ tail' = IF tail = tailPtr[t] THEN nextPtr[t] ELSE tail
  BY QueueAssumption DEF IInv, TypeOK, PollTailCas, Goto
<1>1. OthersFrame(t)
  BY <1>0, ExceptFrame
<1>2. Linked(tailPtr[t]) /\ nextPtr[t] = next[tailPtr[t]] /\ nextPtr[t] # Null
  BY <1>0 DEF IInv, ThreadOK
<1>3. nextPtr[t] \in Nodes /\ Linked(nextPtr[t])
  BY <1>2 DEF IInv, LinkedClosed, Linked
<1>4. tail' \in Nodes /\ Linked(tail')
  BY <1>0, <1>3 DEF IInv, Linked
<1>5. TypeOK'
  <2>1. pc' \in [Threads -> PCs]
    BY <1>0 DEF TypeOK, PCs
  <2> QED
    BY <1>0, <1>4, <2>1 DEF TypeOK
<1>6. PutDistinct'
  BY <1>0, DistinctKept DEF TypeOK
<1>7. ThreadOK(t)'
  BY <1>0 DEF ThreadOK, TypeOK
<1>8. Linked(tail)'
  BY <1>0, <1>4 DEF Linked, QNodes
<1> QED
  BY <1>0, <1>1, <1>5, <1>6, <1>7, <1>8, FrozenStep

(* A poll's compare_exchange that fails, or the fault on a null next_ptr, *)
(* leaves the list alone.                                                 *)
LEMMA PollHeadCasFrozenIInv ==
  ASSUME IInv, NEW t \in Threads, pc[t] = "poll_head_cas",
         NEW l \in {"poll_head", "faulted"}, Goto(t, l),
         UNCHANGED <<head, polled, queueNodes>>,
         UNCHANGED <<tail, next, newPtr, headPtr, tailPtr, nextPtr, puts, polls>>
  PROVE  IInv'
<1>0. /\ TypeOK /\ puts \in Nat
      /\ head' = head /\ tail' = tail /\ next' = next /\ queueNodes' = queueNodes
      /\ puts' = puts /\ newPtr' = newPtr /\ headPtr' = headPtr /\ tailPtr' = tailPtr
      /\ nextPtr' = nextPtr /\ polls' = polls /\ polled' = polled
      /\ pc' = [pc EXCEPT ![t] = l]
  BY QueueAssumption DEF IInv, TypeOK, Goto
<1>1. OthersFrame(t)
  BY <1>0, ExceptFrame
<1>2. TypeOK'
  <2>1. pc' \in [Threads -> PCs]
    BY <1>0 DEF TypeOK, PCs
  <2> QED
    BY <1>0, <2>1 DEF TypeOK
<1>3. PutDistinct'
  BY <1>0, DistinctKept DEF TypeOK
<1>4. ThreadOK(t)'
  BY <1>0 DEF ThreadOK, TypeOK
<1>5. Linked(tail)'
  BY <1>0 DEF IInv, Linked, QNodes
<1> QED
  BY <1>0, <1>1, <1>2, <1>3, <1>4, <1>5, FrozenStep

(* The tail of a non-empty sequence is empty just when it has one item. *)
LEMMA TailEmpty ==
  ASSUME NEW S, NEW s \in Seq(S), s # << >>
  PROVE  Tail(s) = << >> <=> Len(s) = 1
<1>1. Tail(s) \in Seq(S) /\ Len(Tail(s)) = Len(s) - 1
  BY HeadTailProperties
<1>2. Tail(s) = << >> => Len(Tail(s)) = 0
  BY EmptySeq
<1>3. Tail(s) # << >> => Len(Tail(s)) \in Nat \ {0}
  BY <1>1, EmptySeq
<1> QED
  BY <1>1, <1>2, <1>3

(* A poll's successful compare_exchange moves head to the first node of   *)
(* queueNodes: the old head keeps its next pointer, so the same nodes     *)
(* stay linked and queueNodes is still the list after head.               *)
LEMMA PollHeadCasTakeIInv ==
  ASSUME IInv, NEW t \in Threads, pc[t] = "poll_head_cas",
         head = headPtr[t], nextPtr[t] # Null,
         head' = nextPtr[t], queueNodes' = Tail(queueNodes),
         polled' = Append(polled, val(nextPtr[t])), Goto(t, "idle"),
         UNCHANGED <<tail, next, newPtr, headPtr, tailPtr, nextPtr, puts, polls>>
  PROVE  IInv'
<1>0. /\ TypeOK /\ puts \in Nat
      /\ tail' = tail /\ next' = next /\ puts' = puts /\ newPtr' = newPtr
      /\ headPtr' = headPtr /\ tailPtr' = tailPtr /\ nextPtr' = nextPtr /\ polls' = polls
      /\ pc' = [pc EXCEPT ![t] = "idle"]
  BY QueueAssumption DEF IInv, TypeOK, Goto
<1>1. nextPtr[t] = next[head]
  BY DEF IInv, ThreadOK
<1>2. queueNodes # << >> /\ nextPtr[t] = queueNodes[1]
  BY <1>1 DEF IInv, QueueChain
<1>3. /\ Tail(queueNodes) \in Seq(Nodes)
      /\ Len(Tail(queueNodes)) = Len(queueNodes) - 1
      /\ \A i \in 1..Len(Tail(queueNodes)) : Tail(queueNodes)[i] = queueNodes[i + 1]
      /\ Len(queueNodes) \in Nat \ {0}
  BY <1>0, <1>2, HeadTailProperties, EmptySeq DEF TypeOK
<1>4. \A n : n \in QNodes <=> n = head' \/ n \in QNodes'
  <2>1. QNodes' = {queueNodes[i + 1] : i \in 1..(Len(queueNodes) - 1)}
    BY <1>3 DEF QNodes
  <2>2. ASSUME NEW n, n \in QNodes PROVE n = head' \/ n \in QNodes'
    <3>1. PICK i \in 1..Len(queueNodes) : n = queueNodes[i]
      BY <2>2 DEF QNodes
    <3>2. CASE i = 1
      BY <1>2, <3>1, <3>2
    <3>3. CASE i # 1
      <4>1. i - 1 \in 1..(Len(queueNodes) - 1) /\ n = queueNodes[(i - 1) + 1]
        BY <1>3, <3>1, <3>3
      <4> QED
        BY <2>1, <4>1
    <3> QED
      BY <3>2, <3>3
  <2>3. ASSUME NEW n, n = head' \/ n \in QNodes' PROVE n \in QNodes
    BY <1>2, <1>3, <2>1, <2>3 DEF QNodes
  <2> QED
    BY <2>2, <2>3
<1>5. \A n \in Nodes : Linked(n)' <=> Linked(n)
  <2>1. next[head] # Null
    BY <1>1
  <2> QED
    BY <1>0, <1>4, <2>1 DEF Linked
<1>6. QueueChain'
  <2>1. next[head'] = IF queueNodes' = << >> THEN Null ELSE queueNodes'[1]
    <3>1. next[queueNodes[1]] = IF 1 < Len(queueNodes) THEN queueNodes[2] ELSE Null
      BY <1>3 DEF IInv, QueueChain
    <3>2. queueNodes' = << >> <=> ~(1 < Len(queueNodes))
      <4>1. Tail(queueNodes) = << >> <=> Len(queueNodes) = 1
        BY <1>0, <1>2, TailEmpty DEF TypeOK
      <4> QED
        BY <1>3, <4>1
    <3> QED
      BY <1>0, <1>2, <1>3, <3>1, <3>2
  <2>2. \A i \in 1..Len(queueNodes') :
          next'[queueNodes'[i]] = IF i < Len(queueNodes') THEN queueNodes'[i + 1] ELSE Null
    BY <1>0, <1>3 DEF IInv, QueueChain
  <2> QED
    BY <2>1, <2>2 DEF QueueChain
<1>7. LinkedClosed' /\ LinkedStarted' /\ Linked(tail)'
  <2>1. LinkedClosed'
    <3> SUFFICES ASSUME NEW n \in Nodes, next'[n] # Null
                 PROVE  (next[n] \in 1..puts /\ Linked(next[n]))'
      BY DEF LinkedClosed
    <3>1. next[n] \in 1..puts /\ Linked(next[n]) /\ next[n] \in Nodes
      BY <1>0 DEF IInv, LinkedClosed, Linked
    <3> QED
      BY <1>0, <1>5, <3>1
  <2>2. LinkedStarted'
    BY <1>0, <1>5 DEF IInv, LinkedStarted
  <2>3. Linked(tail)'
    BY <1>0, <1>5 DEF IInv, Linked
  <2> QED
    BY <2>1, <2>2, <2>3
<1>8. TypeOK'
  <2>1. pc' \in [Threads -> PCs]
    BY <1>0 DEF TypeOK, PCs
  <2>2. head' \in Nodes /\ head' \in 1..puts
    BY <1>0, <1>1, <1>2 DEF IInv, LinkedClosed, TypeOK
  <2>3. polled' \in Seq(Values)
    BY <1>0, <2>2, AppendProperties DEF TypeOK, Values, Nodes, val
  <2> QED
    BY <1>0, <1>3, <2>1, <2>2, <2>3 DEF TypeOK
<1>9. PutDistinct'
  BY <1>0, DistinctKept DEF TypeOK
<1>10. ThreadOK(t)'
  BY <1>0 DEF ThreadOK, TypeOK
<1>11. \A u \in Threads : u # t => ThreadOK(u)'
  <2>1. Monotone(Null)
    BY <1>0, <1>5 DEF Monotone
  <2>2. \A u \in Threads : u # t /\ pc[u] \in {"put_load", "put_cas"} => newPtr[u] # Null
    BY DEF IInv, ThreadOK, Null
  <2>3. OthersFrame(t)
    BY <1>0, ExceptFrame
  <2> QED
    BY <1>0, <2>1, <2>2, <2>3, OthersOK DEF OthersFrame
<1> QED
  BY <1>6, <1>7, <1>8, <1>9, <1>10, <1>11 DEF IInv

(* A linked node without a next node is the last node of the list: head   *)
(* when queueNodes is empty, its last node otherwise.                      *)
LEMMA LastLinked ==
  ASSUME IInv, NEW n, Linked(n), next[n] = Null
  PROVE  \/ queueNodes = << >> /\ n = head
         \/ queueNodes # << >> /\ n = queueNodes[Len(queueNodes)]
<1>1. queueNodes \in Seq(Nodes) /\ Null \notin Nodes
  BY DEF IInv, TypeOK, Null, Nodes
<1>2. CASE n = head
  <2>1. queueNodes = << >>
    <3>1. SUFFICES ASSUME queueNodes # << >> PROVE FALSE
      OBVIOUS
    <3>2. Len(queueNodes) \in Nat \ {0}
      BY <1>1, <3>1, EmptySeq
    <3>3. next[head] = queueNodes[1]
      BY <3>1 DEF IInv, QueueChain
    <3> QED
      BY <1>1, <1>2, <3>2, <3>3
  <2> QED
    BY <1>2, <2>1
<1>3. CASE n \in QNodes
  <2>1. PICK i \in 1..Len(queueNodes) : n = queueNodes[i]
    BY <1>3 DEF QNodes
  <2>2. next[queueNodes[i]] = IF i < Len(queueNodes) THEN queueNodes[i + 1] ELSE Null
    BY DEF IInv, QueueChain
  <2>3. i = Len(queueNodes)
    BY <1>1, <2>1, <2>2
  <2> QED
    BY <2>1, <2>3
<1> QED
  BY <1>2, <1>3 DEF Linked

(* A put's successful compare_exchange links its fresh node after the     *)
(* last node: queueNodes grows by it and nothing else changes.            *)
LEMMA PutCasIInv ==
  ASSUME IInv, NEW t \in Threads, PutCas(t)
  PROVE  IInv'
<1> DEFINE T == tailPtr[t]
           N == newPtr[t]
<1>0. /\ TypeOK /\ puts \in Nat /\ pc[t] = "put_cas" /\ next[T] = Null
      /\ next' = [next EXCEPT ![T] = N] /\ queueNodes' = Append(queueNodes, N)
      /\ head' = head /\ tail' = tail /\ puts' = puts /\ newPtr' = newPtr
      /\ headPtr' = headPtr /\ tailPtr' = tailPtr /\ nextPtr' = nextPtr
      /\ polls' = polls /\ polled' = polled
      /\ pc' = [pc EXCEPT ![t] = "put_store"]
  BY QueueAssumption DEF IInv, TypeOK, PutCas, Goto
<1>1. /\ Linked(T) /\ T \in Nodes
      /\ N \in 1..puts /\ N \in Nodes /\ ~Linked(N) /\ next[N] = Null
      /\ \A n \in Nodes : next[n] # N
      /\ N # T
  <2>1. Linked(T) /\ N \in 1..puts /\ ~Linked(N) /\ \A n \in Nodes : next[n] # N
    BY <1>0 DEF IInv, ThreadOK
  <2>2. N \in Nodes
    BY <1>0, <2>1 DEF TypeOK, Nodes
  <2>3. T \in Nodes /\ next[N] = Null /\ N # T
    BY <2>1, <2>2 DEF Linked
  <2> QED
    BY <2>1, <2>2, <2>3
<1>2. \/ queueNodes = << >> /\ T = head
      \/ queueNodes # << >> /\ T = queueNodes[Len(queueNodes)]
  BY <1>0, <1>1, LastLinked
<1>3. /\ queueNodes' \in Seq(Nodes)
      /\ Len(queueNodes') = Len(queueNodes) + 1
      /\ \A i \in 1..Len(queueNodes) : queueNodes'[i] = queueNodes[i]
      /\ queueNodes'[Len(queueNodes) + 1] = N
      /\ queueNodes' # << >>
  BY <1>0, <1>1, AppendProperties DEF TypeOK
<1>4. \A n : n \in QNodes' <=> n \in QNodes \/ n = N
  BY <1>0, <1>3 DEF QNodes, TypeOK
<1>5. \A n \in Nodes : next'[n] = IF n = T THEN N ELSE next[n]
  BY <1>0, <1>1 DEF TypeOK
<1>6. Monotone(N)
  <2>1. \A n \in Nodes : next[n] # Null => next'[n] = next[n]
    BY <1>0, <1>5
  <2>2. \A n \in Nodes : Linked(n) => Linked(n)'
    BY <1>0, <1>4, <1>5 DEF Linked
  <2>3. \A n \in Nodes :
          n # N /\ ~Linked(n) /\ (\A m \in Nodes : next[m] # n)
             => ~Linked(n)' /\ \A m \in Nodes : next'[m] # n
    BY <1>0, <1>1, <1>4, <1>5 DEF Linked
  <2> QED
    BY <2>1, <2>2, <2>3 DEF Monotone
<1>7. \A n \in Nodes : Linked(n)' => Linked(n) \/ n = N
  BY <1>0, <1>1, <1>4, <1>5 DEF Linked
<1>8. QueueChain'
  <2>1. next'[head] = queueNodes'[1]
    <3>1. CASE queueNodes = << >> /\ T = head
      BY <1>0, <1>1, <1>3, <1>5, <3>1, EmptySeq DEF TypeOK
    <3>2. CASE queueNodes # << >> /\ T = queueNodes[Len(queueNodes)]
      <4>1. Len(queueNodes) \in Nat \ {0}
        BY <1>0, <3>2, EmptySeq DEF TypeOK
      <4>2. next[head] = queueNodes[1] /\ queueNodes[1] \in Nodes
        BY <1>0, <3>2, <4>1 DEF IInv, QueueChain, TypeOK
      <4>3. head # T
        BY <1>0, <4>2 DEF Null, Nodes
      <4> QED
        BY <1>0, <1>3, <1>5, <4>1, <4>2, <4>3 DEF TypeOK
    <3> QED
      BY <1>2, <3>1, <3>2
  <2>2. ASSUME NEW i \in 1..Len(queueNodes')
        PROVE  next'[queueNodes'[i]] =
                 IF i < Len(queueNodes') THEN queueNodes'[i + 1] ELSE Null
    <3>0. Len(queueNodes) \in Nat
      BY <1>0 DEF TypeOK
    <3>1. CASE i = Len(queueNodes) + 1
      BY <1>1, <1>3, <1>5, <3>0, <3>1
    <3>2. CASE i = Len(queueNodes)
      <4>1. queueNodes # << >> /\ T = queueNodes[i]
        <5>1. queueNodes # << >>
          BY <1>3, <3>2, EmptySeq
        <5> QED
          BY <1>2, <3>2, <5>1
      <4> QED
        BY <1>0, <1>3, <1>5, <3>0, <3>2, <4>1 DEF TypeOK
    <3>3. CASE i < Len(queueNodes)
      <4>2. i \in 1..Len(queueNodes) /\ i + 1 \in 1..Len(queueNodes)
        BY <1>3, <3>0, <3>3
      <4>6. next[queueNodes[i]] = IF i < Len(queueNodes) THEN queueNodes[i + 1] ELSE Null
        BY <4>2 DEF IInv, QueueChain
      <4>7. queueNodes[i + 1] \in Nodes
        BY <1>0, <4>2 DEF TypeOK
      <4>1. next[queueNodes[i]] = queueNodes[i + 1] /\ queueNodes[i + 1] \in Nodes
        BY <3>3, <4>6, <4>7
      <4>3. queueNodes[i] \in Nodes
        BY <1>0, <4>2 DEF TypeOK
      <4>4. next[queueNodes[i]] # Null
        BY <4>1 DEF Null, Nodes
      <4>5. queueNodes[i] # T
        BY <1>0, <4>4
      <4> QED
        BY <1>3, <1>5, <3>0, <3>3, <4>1, <4>2, <4>3, <4>5
    <3> QED
      BY <1>3, <3>0, <3>1, <3>2, <3>3
  <2> QED
    BY <1>0, <1>3, <2>1, <2>2 DEF QueueChain
<1>9. LinkedClosed' /\ LinkedStarted' /\ Linked(tail)'
  <2>1. LinkedClosed'
    <3> SUFFICES ASSUME NEW n \in Nodes, next'[n] # Null
                 PROVE  (next[n] \in 1..puts /\ Linked(next[n]))'
      BY DEF LinkedClosed
    <3>1. CASE n = T
      <4>1. Linked(N)'
        BY <1>0, <1>1, <1>4 DEF Linked
      <4> QED
        BY <1>0, <1>1, <1>5, <3>1, <4>1
    <3>2. CASE n # T
      <4>1. next[n] # Null /\ next'[n] = next[n]
        BY <1>5, <3>2
      <4>2. next[n] \in 1..puts /\ Linked(next[n]) /\ next[n] \in Nodes
        BY <4>1 DEF IInv, LinkedClosed, Linked
      <4> QED
        BY <1>0, <1>6, <4>1, <4>2 DEF Monotone
    <3> QED
      BY <3>1, <3>2
  <2>2. LinkedStarted'
    BY <1>0, <1>1, <1>7 DEF IInv, LinkedStarted
  <2>3. Linked(tail)'
    BY <1>0, <1>6 DEF IInv, Monotone, TypeOK
  <2> QED
    BY <2>1, <2>2, <2>3
<1>10. TypeOK'
  <2>1. pc' \in [Threads -> PCs] /\ next' \in [Nodes -> Nodes \cup {Null}]
    BY <1>0, <1>1 DEF TypeOK, PCs
  <2> QED
    BY <1>0, <1>3, <2>1 DEF TypeOK
<1>11. PutDistinct'
  BY <1>0, DistinctKept DEF TypeOK
<1>12. ThreadOK(t)'
  <2>1. pc'[t] = "put_store" /\ next'[T] = N
    BY <1>0, <1>1, <1>5 DEF TypeOK
  <2> QED
    BY <1>0, <1>1, <2>1 DEF ThreadOK, Null, Nodes
<1>13. \A u \in Threads : u # t => ThreadOK(u)'
  <2>1. \A u \in Threads : u # t /\ pc[u] \in {"put_load", "put_cas"} => newPtr[u] # N
    BY <1>0 DEF IInv, PutDistinct
  <2>2. OthersFrame(t)
    BY <1>0, ExceptFrame
  <2> QED
    BY <1>0, <1>6, <2>1, <2>2, OthersOK DEF OthersFrame
<1> QED
  BY <1>8, <1>9, <1>10, <1>11, <1>12, <1>13 DEF IInv

LEMMA PollHeadCasIInv ==
  ASSUME IInv, NEW t \in Threads, PollHeadCas(t)
  PROVE  IInv'
<1>1. CASE /\ head = headPtr[t] /\ nextPtr[t] # Null
           /\ head' = nextPtr[t]
           /\ queueNodes' = Tail(queueNodes)
           /\ polled' = Append(polled, val(nextPtr[t]))
           /\ Goto(t, "idle")
  BY <1>1, PollHeadCasTakeIInv DEF PollHeadCas
<1>2. CASE /\ head # headPtr[t]
           /\ Goto(t, "poll_head")
           /\ UNCHANGED <<head, polled, queueNodes>>
  BY <1>2, PollHeadCasFrozenIInv DEF PollHeadCas
<1>3. CASE /\ nextPtr[t] = Null
           /\ Goto(t, "faulted")
           /\ UNCHANGED <<head, polled, queueNodes>>
  BY <1>3, PollHeadCasFrozenIInv DEF PollHeadCas
<1> QED
  BY <1>1, <1>2, <1>3 DEF PollHeadCas

(* The empty queue: head and tail at the sentinel, no next pointers. *)
LEMMA InitIInv ==
  Init => IInv
<1> SUFFICES ASSUME Init PROVE IInv
  OBVIOUS
<1>1. TypeOK
  BY QueueAssumption DEF Init, TypeOK, Nodes, Sentinel, PCs
<1>2. \A n \in Nodes : Linked(n) <=> n = Sentinel
  BY DEF Init, Linked, QNodes, Nodes
<1>3. QueueChain /\ LinkedClosed /\ LinkedStarted /\ Linked(tail)
  BY <1>1, <1>2, QueueAssumption DEF Init, QueueChain, LinkedClosed, LinkedStarted, Nodes, Sentinel
<1>4. PutDistinct /\ \A t \in Threads : ThreadOK(t)
  BY DEF Init, PutDistinct, ThreadOK
<1> QED
  BY <1>1, <1>3, <1>4 DEF IInv

LEMMA NextIInv ==
  IInv /\ [Next]_vars => IInv'
<1> SUFFICES ASSUME IInv, [Next]_vars PROVE IInv'
  OBVIOUS
<1>1. CASE Next
  <2>1. PICK t \in Threads : Thread(t)
    BY <1>1 DEF Next
  <2> QED
    BY <2>1, CallPutIInv, PutLoadIInv, PutCasIInv, PutStoreIInv, CallPollIInv,
       PollHeadIInv, PollTailIInv, PollNextIInv, PollCheckIInv, PollTailCasIInv,
       PollHeadCasIInv DEF Thread
<1>2. CASE UNCHANGED vars
  BY <1>2 DEF vars, IInv, TypeOK, QueueChain, LinkedClosed, LinkedStarted, Linked,
              QNodes, PutDistinct, ThreadOK
<1> QED
  BY <1>1, <1>2

(* The queue's list invariant holds in every reachable state: the nodes  *)
(* after head along next are queueNodes, every next pointer leads to a   *)
(* linked node, tail is linked, and every thread's loaded pointers are    *)
(* as put and poll in nonblock.rs assume them.                            *)
THEOREM Invariance ==
  Spec => []IInv
BY InitIInv, NextIInv, PTL DEF Spec

-----------------------------------------------------------------------------
(* Refinement of AbstractQueue under queue <- QueueSeq, out <- polled.   *)

(* A node's value is its number, so the abstract queue is queueNodes.    *)
LEMMA QueueSeqNodes ==
  ASSUME queueNodes \in Seq(Nodes)
  PROVE  QueueSeq = queueNodes
BY DEF QueueSeq, val

LEMMA QueueSeqNodesPrime ==
  ASSUME queueNodes' \in Seq(Nodes)
  PROVE  QueueSeq' = queueNodes'
BY DEF QueueSeq, val

(* A put's successful compare_exchange is the abstract put of its value. *)
LEMMA PutCasRefines ==
  ASSUME IInv, NEW t \in Threads, PutCas(t)
  PROVE  AbstractQueue!Next
<1>1. newPtr[t] \in Values /\ queueNodes \in Seq(Nodes) /\ newPtr[t] \in Nodes
  BY DEF IInv, ThreadOK, PutCas, TypeOK, Values, Nodes
<1>2. queueNodes' = Append(queueNodes, newPtr[t]) /\ polled' = polled
  BY DEF PutCas
<1>3. queueNodes' \in Seq(Nodes)
  BY <1>1, <1>2, AppendProperties
<1>4. QueueSeq' = Append(QueueSeq, newPtr[t])
  BY <1>1, <1>2, <1>3, QueueSeqNodes, QueueSeqNodesPrime
<1> QED
  BY <1>1, <1>2, <1>4 DEF AbstractQueue!Next, AbstractQueue!Put

(* A poll's successful compare_exchange is the abstract poll: it returns *)
(* the value of the first node after head.                               *)
LEMMA PollHeadCasRefines ==
  ASSUME IInv, NEW t \in Threads, pc[t] = "poll_head_cas",
         head = headPtr[t], nextPtr[t] # Null,
         queueNodes' = Tail(queueNodes),
         polled' = Append(polled, val(nextPtr[t]))
  PROVE  AbstractQueue!Next
<1>1. nextPtr[t] = next[head] /\ queueNodes \in Seq(Nodes)
  BY DEF IInv, ThreadOK, TypeOK
<1>2. queueNodes # << >> /\ nextPtr[t] = queueNodes[1]
  BY <1>1 DEF IInv, QueueChain
<1>3. queueNodes' \in Seq(Nodes)
  BY <1>1, <1>2, HeadTailProperties
<1>4. QueueSeq = queueNodes /\ QueueSeq' = queueNodes'
  BY <1>1, <1>3, QueueSeqNodes, QueueSeqNodesPrime
<1> QED
  BY <1>2, <1>4 DEF AbstractQueue!Next, AbstractQueue!Poll, val

(* Every other step leaves queueNodes and polled, so the abstract queue  *)
(* stutters.                                                              *)
LEMMA QueueStepRefines ==
  IInv /\ [Next]_vars => [AbstractQueue!Next]_<<QueueSeq, polled>>
<1> SUFFICES ASSUME IInv, [Next]_vars
             PROVE  [AbstractQueue!Next]_<<QueueSeq, polled>>
  OBVIOUS
<1>0. ASSUME queueNodes' = queueNodes, polled' = polled
      PROVE  <<QueueSeq, polled>>' = <<QueueSeq, polled>>
  BY <1>0 DEF QueueSeq
<1>1. CASE UNCHANGED vars
  BY <1>0, <1>1 DEF vars
<1>2. CASE Next
  <2>1. PICK t \in Threads : Thread(t)
    BY <1>2 DEF Next
  <2>2. CASE PutCas(t)
    BY <2>2, PutCasRefines
  <2>3. CASE PollHeadCas(t)
    <3>1. CASE head = headPtr[t] /\ nextPtr[t] # Null /\ queueNodes' = Tail(queueNodes)
                /\ polled' = Append(polled, val(nextPtr[t]))
      BY <2>3, <3>1, PollHeadCasRefines DEF PollHeadCas
    <3>2. CASE ~(head = headPtr[t] /\ nextPtr[t] # Null /\ queueNodes' = Tail(queueNodes)
                /\ polled' = Append(polled, val(nextPtr[t])))
      <4>1. queueNodes' = queueNodes /\ polled' = polled
        BY <2>3, <3>2 DEF PollHeadCas
      <4> QED
        BY <1>0, <4>1
    <3> QED
      BY <3>1, <3>2
  <2>4. CASE ~PutCas(t) /\ ~PollHeadCas(t)
    <3>1. queueNodes' = queueNodes /\ polled' = polled
      BY <2>1, <2>4 DEF Thread, CallPut, PutLoad, PutStore, CallPoll, PollHead,
                        PollTail, PollNext, PollCheck, PollTailCas
    <3> QED
      BY <1>0, <3>1
  <2> QED
    BY <2>2, <2>3, <2>4
<1> QED
  BY <1>1, <1>2

(* The queue implements the Queue trait: in every run of any number of   *)
(* threads, puts and polls, QueueSeq and polled change only as the       *)
(* abstract put and poll change queue and out (ImplementsQueue).         *)
THEOREM QueueRefinement ==
  Spec => ImplementsQueue
<1>1. Init => AbstractQueue!Init
  <2> SUFFICES ASSUME Init PROVE AbstractQueue!Init
    OBVIOUS
  <2>1. queueNodes = << >> /\ polled = << >>
    BY DEF Init
  <2> QED
    BY <2>1 DEF AbstractQueue!Init, QueueSeq
<1>2. IInv /\ [Next]_vars => [AbstractQueue!Next]_<<QueueSeq, polled>>
  BY QueueStepRefines
<1> QED
  BY <1>1, <1>2, InitIInv, NextIInv, PTL DEF Spec, ImplementsQueue, AbstractQueue!Spec

-----------------------------------------------------------------------------
(* The step of ListOnlyGrows. *)
ListStep ==
  /\ \A n \in Nodes : next[n] # Null => next'[n] = next[n]
  /\ head' # head => head' = next[head]

(* Only put's compare_exchange writes a next pointer, and only a null one. *)
LEMMA ListStepNext ==
  ASSUME IInv, [Next]_vars
  PROVE  \A n \in Nodes : next[n] # Null => next'[n] = next[n]
<1>1. CASE UNCHANGED vars
  BY <1>1 DEF vars
<1>2. CASE Next
  <2>1. PICK t \in Threads : Thread(t)
    BY <1>2 DEF Next
  <2>2. CASE PutCas(t)
    <3>1. next[tailPtr[t]] = Null /\ next' = [next EXCEPT ![tailPtr[t]] = newPtr[t]]
      BY <2>2 DEF PutCas
    <3> QED
      BY <3>1 DEF IInv, TypeOK
  <2>3. CASE ~PutCas(t)
    <3>1. next' = next
      BY <2>1, <2>3 DEF Thread, CallPut, PutLoad, PutStore, CallPoll, PollHead,
                        PollTail, PollNext, PollCheck, PollTailCas, PollHeadCas
    <3> QED
      BY <3>1
  <2> QED
    BY <2>2, <2>3
<1> QED
  BY <1>1, <1>2

(* Only poll's successful compare_exchange moves head, to head's next.   *)
LEMMA ListStepHead ==
  ASSUME IInv, [Next]_vars
  PROVE  head' # head => head' = next[head]
<1>1. CASE UNCHANGED vars
  BY <1>1 DEF vars
<1>2. CASE Next
  <2>1. PICK t \in Threads : Thread(t)
    BY <1>2 DEF Next
  <2>2. CASE PollHeadCas(t) /\ head = headPtr[t] /\ nextPtr[t] # Null
                           /\ head' = nextPtr[t]
    <3>1. pc[t] = "poll_head_cas"
      BY <2>2 DEF PollHeadCas
    <3>2. nextPtr[t] = next[headPtr[t]]
      BY <3>1, <2>2 DEF IInv, ThreadOK
    <3> QED
      BY <2>2, <3>2
  <2>3. CASE ~(PollHeadCas(t) /\ head = headPtr[t] /\ nextPtr[t] # Null
                              /\ head' = nextPtr[t])
    <3>1. head' = head
      BY <2>1, <2>3 DEF Thread, CallPut, PutLoad, PutCas, PutStore, CallPoll, PollHead,
                        PollTail, PollNext, PollCheck, PollTailCas, PollHeadCas
    <3> QED
      BY <3>1
  <2> QED
    BY <2>2, <2>3
<1> QED
  BY <1>1, <1>2

(* In every run, a next pointer set by put's compare_exchange            *)
(* (nonblock.rs:172) is never written again, and poll's compare_exchange  *)
(* on head (nonblock.rs:210) moves head only to head's next node.         *)
THEOREM ListOnlyGrowsThm ==
  Spec => ListOnlyGrows
<1>1. IInv /\ [Next]_vars => [ListStep]_vars
  BY ListStepNext, ListStepHead DEF ListStep
<1> QED
  BY <1>1, InitIInv, NextIInv, PTL DEF Spec, ListOnlyGrows, ListStep

(* The queue's variables keep their types in every run. *)
THEOREM TypeCorrect ==
  Spec => []TypeOK
<1>1. IInv => TypeOK
  BY DEF IInv
<1> QED
  BY <1>1, Invariance, PTL

=============================================================================
