--------------------------- MODULE NonBlockingStack ---------------------------
(***************************************************************************)
(* NonBlockingStack of stm/src/nonblock.rs, shared by several threads      *)
(* through its cloned Arc<AtomicPtr> head.  Every atomic load, store and   *)
(* compare_exchange on shared memory is one step of a thread.              *)
(*                                                                         *)
(* Nodes are allocated with Box::into_raw and never freed, so a pointer    *)
(* names one node for the whole run: nodes are the numbers 1..MaxNodes in  *)
(* allocation order and Null is 0.  A node's next pointer is written once, *)
(* before the node is published.  The node a failing CAS iteration of push *)
(* allocates is never published; it is not represented.  Each push pushes *)
(* a value of its own (its sequence number), so that values name pushes.  *)
(***************************************************************************)
EXTENDS Naturals, Sequences, FiniteSets

CONSTANTS
  Threads,    \* the threads sharing the stack
  MaxPush,    \* number of push calls in a run
  MaxPop      \* number of pop calls in a run

ASSUME StackAssumption ==
  /\ Threads # {}
  /\ MaxPush \in Nat /\ MaxPop \in Nat

Null == 0
Nodes == 1..MaxPush    \* at most one published node per push
Values == 1..MaxPush

VARIABLES
  head,       \* the AtomicPtr head
  next,       \* next[n]: the next pointer of node n
  val,        \* val[n]: the value of node n
  allocated,  \* number of nodes published so far
  pc,         \* pc[t]: where thread t is in its current call
  arg,        \* arg[t]: the value push(value) is pushing
  nodePtr,    \* nodePtr[t]: the head the call loaded (node_ptr / old)
  nextPtr,    \* nextPtr[t]: the next pointer pop loaded (next_ptr)
  pushes,     \* number of push calls started
  pops,       \* number of pop calls started
  pushed,     \* history: values whose push returned
  popped,     \* history: the values pop calls returned, in order
  stackNodes  \* history: the nodes from head along next, top first

vars == <<head, next, val, allocated, pc, arg, nodePtr, nextPtr, pushes, pops,
          pushed, popped, stackNodes>>

PCs == {"idle", "push_load", "push_store", "push_cas",
        "pop_load", "pop_next", "pop_clear", "pop_cas"}

\* Publishing a fresh node holding v whose next pointer is n (Node::new
\* followed by new.next.store(old)).
NewNode(v, n) ==
  /\ allocated < MaxPush
  /\ allocated' = allocated + 1
  /\ val' = [val EXCEPT ![allocated + 1] = v]
  /\ next' = [next EXCEPT ![allocated + 1] = n]

Goto(t, l) == pc' = [pc EXCEPT ![t] = l]

TypeOK ==
  /\ head \in Nodes \cup {Null}
  /\ next \in [Nodes -> Nodes \cup {Null}]
  /\ val \in [Nodes -> Values \cup {Null}]
  /\ allocated \in 0..MaxPush
  /\ pc \in [Threads -> PCs]
  /\ arg \in [Threads -> Values \cup {Null}]
  /\ nodePtr \in [Threads -> Nodes \cup {Null}]
  /\ nextPtr \in [Threads -> Nodes \cup {Null}]
  /\ pushes \in 0..MaxPush /\ pops \in 0..MaxPop
  /\ pushed \subseteq Values
  /\ popped \in Seq(Values)
  /\ stackNodes \in Seq(Nodes)

Init ==
  /\ head = Null
  /\ next = [n \in Nodes |-> Null]
  /\ val = [n \in Nodes |-> Null]
  /\ allocated = 0
  /\ pc = [t \in Threads |-> "idle"]
  /\ arg = [t \in Threads |-> Null]
  /\ nodePtr = [t \in Threads |-> Null]
  /\ nextPtr = [t \in Threads |-> Null]
  /\ pushes = 0 /\ pops = 0
  /\ pushed = {} /\ popped = << >> /\ stackNodes = << >>

(* A thread calls push(value). *)
CallPush(t) ==
  /\ pc[t] = "idle" /\ pushes < MaxPush
  /\ pushes' = pushes + 1
  /\ arg' = [arg EXCEPT ![t] = pushes + 1]
  /\ Goto(t, "push_load")
  /\ UNCHANGED <<head, next, val, allocated, nodePtr, nextPtr, pops, pushed,
                 popped, stackNodes>>

(* match self.head.load(Acquire): the null and the non-null arm. *)
PushLoad(t) ==
  /\ pc[t] = "push_load"
  /\ nodePtr' = [nodePtr EXCEPT ![t] = head]
  /\ Goto(t, IF head = Null THEN "push_store" ELSE "push_cas")
  /\ UNCHANGED <<head, next, val, allocated, arg, nextPtr, pushes, pops,
                 pushed, popped, stackNodes>>

(* Null arm: a new node is stored into head with a plain store. *)
PushStore(t) ==
  /\ pc[t] = "push_store"
  /\ NewNode(arg[t], Null)
  /\ head' = allocated + 1
  /\ stackNodes' = <<allocated + 1>>
  /\ pushed' = pushed \cup {arg[t]}
  /\ Goto(t, "idle")
  /\ UNCHANGED <<arg, nodePtr, nextPtr, pushes, pops, popped>>

(* Faulty variant of PushCas that stores the new node without comparing  *)
(* head with old, to confirm PoppedNeverOnStack detects it.               *)
PushCasNoCompare(t) ==
  /\ pc[t] = "push_cas"
  /\ NewNode(arg[t], nodePtr[t])
  /\ head' = allocated + 1
  /\ stackNodes' = <<allocated + 1>> \o stackNodes
  /\ pushed' = pushed \cup {arg[t]}
  /\ Goto(t, "idle")
  /\ UNCHANGED <<arg, nodePtr, nextPtr, pushes, pops, popped>>

(* Non-null arm, one loop iteration: a new node pointing at old, then     *)
(* compare_exchange(old, new).  On failure the loop starts again with the *)
(* same old: node_ptr is not loaded again.                                *)
PushCas(t) ==
  /\ pc[t] = "push_cas"
  /\ head = nodePtr[t]
  /\ NewNode(arg[t], nodePtr[t])
  /\ head' = allocated + 1
  /\ stackNodes' = <<allocated + 1>> \o stackNodes
  /\ pushed' = pushed \cup {arg[t]}
  /\ Goto(t, "idle")
  /\ UNCHANGED <<arg, nodePtr, nextPtr, pushes, pops, popped>>

(* A thread calls pop(). *)
CallPop(t) ==
  /\ pc[t] = "idle" /\ pops < MaxPop
  /\ pops' = pops + 1
  /\ Goto(t, "pop_load")
  /\ UNCHANGED <<head, next, val, allocated, arg, nodePtr, nextPtr, pushes,
                 pushed, popped, stackNodes>>

(* match self.head.load(Acquire): null returns None. *)
PopLoad(t) ==
  /\ pc[t] = "pop_load"
  /\ nodePtr' = [nodePtr EXCEPT ![t] = head]
  /\ Goto(t, IF head = Null THEN "idle" ELSE "pop_next")
  /\ UNCHANGED <<head, next, val, allocated, arg, nextPtr, pushes, pops,
                 pushed, popped, stackNodes>>

(* Loop iteration: match old.next.load(Acquire). *)
PopNext(t) ==
  /\ pc[t] = "pop_next"
  /\ nextPtr' = [nextPtr EXCEPT ![t] = next[nodePtr[t]]]
  /\ Goto(t, IF next[nodePtr[t]] = Null THEN "pop_clear" ELSE "pop_cas")
  /\ UNCHANGED <<head, next, val, allocated, arg, nodePtr, pushes, pops,
                 pushed, popped, stackNodes>>

(* Faulty variant of PopClear that returns old's value without clearing  *)
(* head, to confirm ImplementsStack detects it.                           *)
PopClearNoStore(t) ==
  /\ pc[t] = "pop_clear"
  /\ popped' = Append(popped, val[nodePtr[t]])
  /\ Goto(t, "idle")
  /\ UNCHANGED <<head, next, val, allocated, arg, nodePtr, nextPtr, pushes,
                 pops, pushed, stackNodes>>

(* old has no next: head is stored null with a plain store and old's      *)
(* value is returned.                                                     *)
PopClear(t) ==
  /\ pc[t] = "pop_clear"
  /\ head' = Null
  /\ stackNodes' = << >>
  /\ popped' = Append(popped, val[nodePtr[t]])
  /\ Goto(t, "idle")
  /\ UNCHANGED <<next, val, allocated, arg, nodePtr, nextPtr, pushes, pops,
                 pushed>>

(* Faulty variant of PopCas whose compare_exchange ignores the current    *)
(* head, to confirm HeadNeverMovesBack detects it.                        *)
PopCasNoCompare(t) ==
  /\ pc[t] = "pop_cas"
  /\ head' = nextPtr[t]
  /\ stackNodes' = Tail(stackNodes)
  /\ popped' = Append(popped, val[nodePtr[t]])
  /\ Goto(t, "idle")
  /\ UNCHANGED <<next, val, allocated, arg, nodePtr, nextPtr, pushes, pops,
                 pushed>>

(* compare_exchange(old, next_ptr): success returns old's value, failure  *)
(* goes round the loop again with the same old.                           *)
PopCas(t) ==
  /\ pc[t] = "pop_cas"
  /\ \/ /\ head = nodePtr[t]
        /\ head' = nextPtr[t]
        /\ stackNodes' = Tail(stackNodes)
        /\ popped' = Append(popped, val[nodePtr[t]])
        /\ Goto(t, "idle")
     \/ /\ head # nodePtr[t]
        /\ Goto(t, "pop_next")
        /\ UNCHANGED <<head, popped, stackNodes>>
  /\ UNCHANGED <<next, val, allocated, arg, nodePtr, nextPtr, pushes, pops,
                 pushed>>

Thread(t) ==
  \/ CallPush(t) \/ PushLoad(t) \/ PushStore(t) \/ PushCas(t)
  \/ CallPop(t) \/ PopLoad(t) \/ PopNext(t) \/ PopClear(t) \/ PopCas(t)

Next == \E t \in Threads : Thread(t)

\* Every thread is scheduled: a thread that can take a step eventually does.
Fairness == \A t \in Threads : WF_vars(Thread(t))

Spec == Init /\ [][Next]_vars /\ Fairness

-----------------------------------------------------------------------------
\* The values on the stack, top first: those of the nodes from head along
\* the next pointers.
StackSeq == [i \in 1..Len(stackNodes) |-> val[stackNodes[i]]]

\* A set of nodes that holds the next node of each of its nodes.
LinkClosed(S, nx) == \A m \in S : nx[m] # Null => nx[m] \in S

\* The nodes reachable from h along the next pointers nx: the least set of
\* nodes that holds h (unless h is null) and is closed under nx.
Reach(h, nx) ==
  {n \in Nodes : \A S \in SUBSET Nodes :
                    (h # Null => h \in S) /\ LinkClosed(S, nx) => n \in S}

PoppedSet == {popped[i] : i \in 1..Len(popped)}

\* The values on the stack: those of the nodes reachable from head.
OnStack == {val[n] : n \in Reach(head, next)}

(* Push and pop neither lose nor duplicate an item: whenever no call is   *)
(* in progress, every value whose push returned is either on the stack or *)
(* was returned by exactly one pop, never both.                           *)
NoLostOrDuplicatedValue ==
  (\A t \in Threads : pc[t] = "idle") =>
     /\ pushed = OnStack \cup PoppedSet
     /\ OnStack \cap PoppedSet = {}
     /\ Len(popped) = Cardinality(PoppedSet)

(* A popped item never comes back: no value a pop returned is on the      *)
(* stack, whatever stale head a delayed push or pop compares against.     *)
PoppedNeverOnStack == OnStack \cap PoppedSet = {}

(* head never moves back up the stack: each step leaves it on a node it  *)
(* reaches, clears it, or puts a freshly published node on top.  A pop's  *)
(* compare_exchange against the head it loaded before (nonblock.rs:121)   *)
(* must not reinstall a node that other pops have already removed.        *)
HeadNeverMovesBack ==
  [][head' \in {Null} \cup Reach(head, next) \cup ((1..allocated') \ (1..allocated))]_vars

AbstractStack == INSTANCE AbstractStack WITH stack <- StackSeq, out <- popped

(* The stack implements the Stack trait: every step pushes onto the top, *)
(* pops the top and returns exactly it, or changes neither.              *)
ImplementsStack == AbstractStack!Spec

(* A push call always returns (the stack is non-blocking). *)
PushReturns ==
  \A t \in Threads : pc[t] = "push_load" ~> pc[t] = "idle"

=============================================================================
