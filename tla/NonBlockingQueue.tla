--------------------------- MODULE NonBlockingQueue ---------------------------
(***************************************************************************)
(* NonBlockingQueue of stm/src/nonblock.rs shared by several threads.      *)
(* head and tail are AtomicPtrs that start at one empty sentinel node;     *)
(* every atomic load, store and compare_exchange is one step of a thread.  *)
(*                                                                         *)
(* Nodes are never freed, so a pointer names one node for the whole run:   *)
(* the sentinel is node 0 and the node of the k-th put is node k, holding  *)
(* the value k.  A put allocates its node before it touches shared state,  *)
(* so the node exists (unlinked) from the call on.  tail is only ever      *)
(* stored a non-null next pointer, so put's arm for a null tail is         *)
(* unreachable and has no action; head too, because a poll that would     *)
(* store a null next_ptr into head dereferences it first (see            *)
(* PollHeadCas) and the process stops.                                    *)
(***************************************************************************)
EXTENDS Integers, Sequences

CONSTANTS
  Threads,    \* the threads sharing the queue
  MaxPut,     \* number of put calls in a run
  MaxPoll     \* number of poll calls in a run

ASSUME QueueAssumption ==
  /\ Threads # {}
  /\ MaxPut \in Nat /\ MaxPoll \in Nat

Null == -1
Sentinel == 0
Nodes == 0..MaxPut
Values == 1..MaxPut

VARIABLES
  head,       \* the AtomicPtr head
  tail,       \* the AtomicPtr tail
  next,       \* next[n]: the next pointer of node n
  pc,         \* pc[t]: where thread t is in its current call
  newPtr,     \* newPtr[t]: the node put is linking (new_ptr)
  headPtr,    \* headPtr[t]: head_ptr of poll
  tailPtr,    \* tailPtr[t]: tail_ptr of put or poll
  nextPtr,    \* nextPtr[t]: next_ptr of poll
  puts,       \* number of put calls started
  polls,      \* number of poll calls started
  polled,     \* history: the values poll calls returned, in order
  queueNodes  \* history: the nodes after head along next, front first

vars == <<head, tail, next, pc, newPtr, headPtr, tailPtr, nextPtr, puts, polls,
          polled, queueNodes>>

PCs == {"idle", "put_load", "put_cas", "put_store",
        "poll_head", "poll_tail", "poll_next", "poll_check",
        "poll_tail_cas", "poll_head_cas", "panicked", "faulted"}

\* The value node n holds (Some(k) for the k-th put; the sentinel's is None).
val(n) == n

Goto(t, l) == pc' = [pc EXCEPT ![t] = l]

TypeOK ==
  /\ head \in Nodes /\ tail \in Nodes
  /\ next \in [Nodes -> Nodes \cup {Null}]
  /\ pc \in [Threads -> PCs]
  /\ newPtr \in [Threads -> Nodes \cup {Null}]
  /\ headPtr \in [Threads -> Nodes \cup {Null}]
  /\ tailPtr \in [Threads -> Nodes \cup {Null}]
  /\ nextPtr \in [Threads -> Nodes \cup {Null}]
  /\ puts \in 0..MaxPut /\ polls \in 0..MaxPoll
  /\ polled \in Seq(Values)
  /\ queueNodes \in Seq(Nodes)

\* NonBlockingQueue::default: head and tail at one empty node.
Init ==
  /\ head = Sentinel /\ tail = Sentinel
  /\ next = [n \in Nodes |-> Null]
  /\ pc = [t \in Threads |-> "idle"]
  /\ newPtr = [t \in Threads |-> Null]
  /\ headPtr = [t \in Threads |-> Null]
  /\ tailPtr = [t \in Threads |-> Null]
  /\ nextPtr = [t \in Threads |-> Null]
  /\ puts = 0 /\ polls = 0
  /\ polled = << >> /\ queueNodes = << >>

(* put(value): Node::new(value) boxed into new_ptr. *)
CallPut(t) ==
  /\ pc[t] = "idle" /\ puts < MaxPut
  /\ puts' = puts + 1
  /\ newPtr' = [newPtr EXCEPT ![t] = puts + 1]
  /\ Goto(t, "put_load")
  /\ UNCHANGED <<head, tail, next, headPtr, tailPtr, nextPtr, polls, polled,
                 queueNodes>>

(* let tail_ptr = self.tail.load(Acquire), loaded once for the whole loop. *)
PutLoad(t) ==
  /\ pc[t] = "put_load"
  /\ tailPtr' = [tailPtr EXCEPT ![t] = tail]
  /\ Goto(t, "put_cas")
  /\ UNCHANGED <<head, tail, next, newPtr, headPtr, nextPtr, puts, polls,
                 polled, queueNodes>>

(* Faulty variant of PutCas that stores tail.next without comparing it    *)
(* with null, to confirm ImplementsQueue detects it.                      *)
PutCasNoCompare(t) ==
  /\ pc[t] = "put_cas"
  /\ next' = [next EXCEPT ![tailPtr[t]] = newPtr[t]]
  /\ queueNodes' = Append(queueNodes, newPtr[t])
  /\ Goto(t, "put_store")
  /\ UNCHANGED <<head, tail, newPtr, headPtr, tailPtr, nextPtr, puts, polls,
                 polled>>

(* Loop iteration: tail.next.compare_exchange(null, new_ptr).  A failing  *)
(* compare changes nothing and is retried on the same tail node: it is    *)
(* not a step, and a thread whose tail node already has a successor has   *)
(* no step left.                                                          *)
PutCas(t) ==
  /\ pc[t] = "put_cas"
  /\ next[tailPtr[t]] = Null
  /\ next' = [next EXCEPT ![tailPtr[t]] = newPtr[t]]
  /\ queueNodes' = Append(queueNodes, newPtr[t])
  /\ Goto(t, "put_store")
  /\ UNCHANGED <<head, tail, newPtr, headPtr, tailPtr, nextPtr, puts, polls,
                 polled>>

(* self.tail.store(tail.next.load(Acquire)).  tail.next is never changed  *)
(* again once it is set, so the load and the store are one step.          *)
PutStore(t) ==
  /\ pc[t] = "put_store"
  /\ tail' = next[tailPtr[t]]
  /\ Goto(t, "idle")
  /\ UNCHANGED <<head, next, newPtr, headPtr, tailPtr, nextPtr, puts, polls,
                 polled, queueNodes>>

(* poll(): the loop starts by loading head ... *)
CallPoll(t) ==
  /\ pc[t] = "idle" /\ polls < MaxPoll
  /\ polls' = polls + 1
  /\ Goto(t, "poll_head")
  /\ UNCHANGED <<head, tail, next, newPtr, headPtr, tailPtr, nextPtr, puts,
                 polled, queueNodes>>

PollHead(t) ==
  /\ pc[t] = "poll_head"
  /\ headPtr' = [headPtr EXCEPT ![t] = head]
  /\ Goto(t, "poll_tail")
  /\ UNCHANGED <<head, tail, next, newPtr, tailPtr, nextPtr, puts, polls,
                 polled, queueNodes>>

(* ... then tail ... *)
PollTail(t) ==
  /\ pc[t] = "poll_tail"
  /\ tailPtr' = [tailPtr EXCEPT ![t] = tail]
  /\ Goto(t, "poll_next")
  /\ UNCHANGED <<head, tail, next, newPtr, headPtr, nextPtr, puts, polls,
                 polled, queueNodes>>

(* ... then head.next. *)
PollNext(t) ==
  /\ pc[t] = "poll_next"
  /\ nextPtr' = [nextPtr EXCEPT ![t] = next[headPtr[t]]]
  /\ Goto(t, "poll_check")
  /\ UNCHANGED <<head, tail, next, newPtr, headPtr, tailPtr, puts, polls,
                 polled, queueNodes>>

(* head is loaded again and compared with head_ptr: a changed head starts *)
(* the loop again; head = tail with no next returns None; head = tail     *)
(* with a next goes to advance tail; otherwise head is advanced.          *)
PollCheck(t) ==
  /\ pc[t] = "poll_check"
  /\ Goto(t, IF headPtr[t] # head THEN "poll_head"
             ELSE IF headPtr[t] = tailPtr[t] /\ nextPtr[t] = Null THEN "idle"
             ELSE IF headPtr[t] = tailPtr[t] THEN "poll_tail_cas"
             ELSE "poll_head_cas")
  /\ UNCHANGED <<head, tail, next, newPtr, headPtr, tailPtr, nextPtr, puts,
                 polls, polled, queueNodes>>

(* self.tail.compare_exchange(tail_ptr, next_ptr).expect(..): success     *)
(* goes round the loop, failure panics the polling thread.                *)
PollTailCas(t) ==
  /\ pc[t] = "poll_tail_cas"
  /\ \/ /\ tail = tailPtr[t]
        /\ tail' = nextPtr[t]
        /\ Goto(t, "poll_head")
     \/ /\ tail # tailPtr[t]
        /\ Goto(t, "panicked")
        /\ UNCHANGED tail
  /\ UNCHANGED <<head, next, newPtr, headPtr, tailPtr, nextPtr, puts, polls,
                 polled, queueNodes>>

(* let result = a reference to next_ptr's value, then                    *)
(* head.compare_exchange(head_ptr, next_ptr): success returns the value  *)
(* of next_ptr's node, failure goes round the loop.  A null next_ptr is  *)
(* dereferenced, which faults and stops the process; the build may read  *)
(* the value at line 206 or only in as_ref after a successful compare    *)
(* (line 213), so a failing compare may go round the loop or fault.       *)
PollHeadCas(t) ==
  /\ pc[t] = "poll_head_cas"
  /\ \/ /\ head = headPtr[t] /\ nextPtr[t] # Null
        /\ head' = nextPtr[t]
        /\ queueNodes' = Tail(queueNodes)
        /\ polled' = Append(polled, val(nextPtr[t]))
        /\ Goto(t, "idle")
     \/ /\ head # headPtr[t]
        /\ Goto(t, "poll_head")
        /\ UNCHANGED <<head, polled, queueNodes>>
     \/ /\ nextPtr[t] = Null
        /\ Goto(t, "faulted")
        /\ UNCHANGED <<head, polled, queueNodes>>
  /\ UNCHANGED <<tail, next, newPtr, headPtr, tailPtr, nextPtr, puts, polls>>

Thread(t) ==
  \/ CallPut(t) \/ PutLoad(t) \/ PutCas(t) \/ PutStore(t)
  \/ CallPoll(t) \/ PollHead(t) \/ PollTail(t) \/ PollNext(t) \/ PollCheck(t)
  \/ PollTailCas(t) \/ PollHeadCas(t)

\* A fault stops every thread of the process.
Faulted == \E t \in Threads : pc[t] = "faulted"

Next == ~Faulted /\ \E t \in Threads : Thread(t)

Spec == Init /\ [][Next]_vars

-----------------------------------------------------------------------------
\* The values in the queue, front first: those of the nodes after head
\* along the next pointers.
QueueSeq == [i \in 1..Len(queueNodes) |-> val(queueNodes[i])]

AbstractQueue == INSTANCE AbstractQueue WITH queue <- QueueSeq, out <- polled

(* The queue implements the Queue trait: every step appends at the back,  *)
(* removes the front and returns exactly it, or changes neither, however  *)
(* puts and polls interleave.                                             *)
ImplementsQueue == AbstractQueue!Spec

(* No poll panics: the expect on the tail compare_exchange never fires.   *)
NoPanic == \A t \in Threads : pc[t] # "panicked"

(* No poll dereferences a null next_ptr (nonblock.rs:206).  It would    *)
(* take a tail behind head: put's plain tail.store (nonblock.rs:175) can *)
(* overwrite a poll's advance of tail with an older node, head then      *)
(* passes that node, and a poll that loads head and that stale tail sees *)
(* them differ while head has no next node.                              *)
NoNullDeref == ~Faulted

(* The list changes only at its ends: a next pointer, once the            *)
(* compare_exchange of put (nonblock.rs:172) has set it, is never written *)
(* again, and the compare_exchange of poll on head (nonblock.rs:210) moves *)
(* head only to head's own next node.                                     *)
ListOnlyGrows ==
  [][/\ \A n \in Nodes : next[n] # Null => next'[n] = next[n]
     /\ head' # head => head' = next[head]]_vars

=============================================================================
