------------------------ MODULE NonBlockingStack_proofs ------------------------
(***************************************************************************)
(* Proofs about the non-blocking stack of stm/src/nonblock.rs: for every   *)
(* number of threads, pushes and pops, no value a pop returned is ever on  *)
(* the stack again.                                                        *)
(*                                                                         *)
(* The argument: nodes are never freed and a node's next pointer is an     *)
(* older node, written once before the node is published.  A successful   *)
(* pop moves head from old to old's next, and every node reachable from   *)
(* there is older than old, so old leaves the stack for good; pushes only *)
(* put a fresh node, with a value never used before, on top.              *)
(***************************************************************************)
EXTENDS NonBlockingStack, TLAPS

Published == 1..allocated
PushPCs == {"push_load", "push_store", "push_cas"}
PopPCs == {"pop_next", "pop_clear", "pop_cas"}
PublishedValues == {val[n] : n \in Published}

\* A published node's next is an older node, its value a started push's.
NodesOlder ==
  \A n \in Published : next[n] \in 0..(n - 1) /\ val[n] \in 1..pushes

\* Each push publishes one node, with its own value.
ValuesUnique == \A m, n \in Published : val[m] = val[n] => m = n

\* A push in progress holds a value neither published nor held by another.
PushFresh ==
  \A t \in Threads : pc[t] \in PushPCs =>
     arg[t] \in 1..pushes /\ arg[t] \notin PublishedValues
PushDistinct ==
  \A t, u \in Threads : t # u /\ pc[t] \in PushPCs /\ pc[u] \in PushPCs =>
     arg[t] # arg[u]

\* A pop in progress holds a published node and, before its CAS, that
\* node's next pointer.
PopHolds == \A t \in Threads : pc[t] \in PopPCs => nodePtr[t] \in Published
PopNextHeld == \A t \in Threads : pc[t] = "pop_cas" => nextPtr[t] = next[nodePtr[t]]

\* The history stackNodes is the list of published nodes from head along
\* next: its first node is head, each node's next is the following node, the
\* last one's next is null.
StackChain ==
  /\ stackNodes = << >> <=> head = Null
  /\ stackNodes # << >> => stackNodes[1] = head
  /\ \A i \in 1..Len(stackNodes) :
        /\ stackNodes[i] \in Published
        /\ next[stackNodes[i]] = IF i < Len(stackNodes) THEN stackNodes[i + 1] ELSE Null

\* The inductive strengthening of PoppedNeverOnStack.
IInv ==
  /\ TypeOK
  /\ head \in 0..allocated
  /\ NodesOlder
  /\ ValuesUnique
  /\ PoppedSet \subseteq PublishedValues
  /\ PushFresh
  /\ PushDistinct
  /\ PopHolds
  /\ PopNextHeld
  /\ StackChain
  /\ PoppedNeverOnStack

-----------------------------------------------------------------------------
(* Facts about Reach, the nodes reachable along next pointers.            *)

\* Reach(h, nx) lies inside every closed set of nodes that holds h.
LEMMA ReachLeast ==
  ASSUME NEW h, NEW nx, NEW S \in SUBSET Nodes,
         h # Null => h \in S, LinkClosed(S, nx)
  PROVE  Reach(h, nx) \subseteq S
BY DEF Reach

\* A node reaches itself.
LEMMA ReachHead ==
  ASSUME NEW h \in Nodes, NEW nx
  PROVE  h \in Reach(h, nx)
<1>1. h # Null
  BY DEF Nodes, Null
<1> QED
  BY <1>1 DEF Reach

\* The reachable nodes are closed under the next pointers.
LEMMA ReachClosed ==
  ASSUME NEW h, NEW nx \in [Nodes -> Nodes \cup {Null}]
  PROVE  LinkClosed(Reach(h, nx), nx)
<1> SUFFICES ASSUME NEW m \in Reach(h, nx), nx[m] # Null
             PROVE  nx[m] \in Reach(h, nx)
  BY DEF LinkClosed
<1>1. m \in Nodes
  BY DEF Reach
<1>2. nx[m] \in Nodes
  BY <1>1, Zenon
<1>3. \A S \in SUBSET Nodes : (h # Null => h \in S) /\ LinkClosed(S, nx) => nx[m] \in S
  BY <1>1 DEF Reach, LinkClosed
<1> QED
  BY <1>2, <1>3 DEF Reach

\* Nothing is reachable from the null pointer.
LEMMA ReachNull ==
  ASSUME NEW nx
  PROVE  Reach(Null, nx) = {}
<1>1. LinkClosed({}, nx)
  BY DEF LinkClosed
<1> QED
  BY <1>1, ReachLeast

\* When each of the nodes 1..k points to an older node, what a node of
\* 1..k (or null) reaches stays inside 1..k.
LEMMA ReachOlder ==
  ASSUME NEW k \in 0..MaxPush, NEW nx \in [Nodes -> Nodes \cup {Null}],
         \A n \in 1..k : nx[n] \in 0..(n - 1),
         NEW h \in 0..k
  PROVE  Reach(h, nx) \subseteq 1..k
<1>1. 1..k \in SUBSET Nodes
  BY StackAssumption DEF Nodes
<1>2. h # Null => h \in 1..k
  BY DEF Null
<1>3. LinkClosed(1..k, nx)
  BY DEF LinkClosed, Null
<1> QED
  BY <1>1, <1>2, <1>3, ReachLeast

\* What a node's next reaches, the node itself reaches.
LEMMA ReachStep ==
  ASSUME NEW o \in Nodes, NEW nx \in [Nodes -> Nodes \cup {Null}]
  PROVE  Reach(nx[o], nx) \subseteq Reach(o, nx)
<1>1. o \in Reach(o, nx)
  BY ReachHead
<1>2. LinkClosed(Reach(o, nx), nx)
  BY ReachClosed
<1>3. nx[o] # Null => nx[o] \in Reach(o, nx)
  BY <1>1, <1>2 DEF LinkClosed
<1>4. Reach(o, nx) \in SUBSET Nodes
  BY DEF Reach
<1> QED
  BY <1>2, <1>3, <1>4, ReachLeast

\* Publishing node k+1 in front of h adds k+1 and nothing else to what h
\* reaches.
LEMMA ReachPush ==
  ASSUME NEW k \in 0..(MaxPush - 1), NEW nx \in [Nodes -> Nodes \cup {Null}],
         \A n \in 1..k : nx[n] \in 0..(n - 1),
         NEW h \in 0..k
  PROVE  Reach(k + 1, [nx EXCEPT ![k + 1] = h]) \subseteq {k + 1} \cup Reach(h, nx)
<1> DEFINE nx2 == [nx EXCEPT ![k + 1] = h]
           R == Reach(h, nx)
<1>1. k + 1 \in Nodes /\ k \in 0..MaxPush
  BY StackAssumption DEF Nodes
<1>2. R \subseteq 1..k
  BY <1>1, ReachOlder
<1>3. LinkClosed(R, nx)
  BY ReachClosed
<1>4. h # Null => h \in R
  BY ReachHead, <1>1, StackAssumption DEF Nodes, Null
<1>5. LinkClosed({k + 1} \cup R, nx2)
  <2> SUFFICES ASSUME NEW m \in {k + 1} \cup R, nx2[m] # Null
               PROVE  nx2[m] \in {k + 1} \cup R
    BY DEF LinkClosed
  <2>1. CASE m = k + 1
    BY <2>1, <1>1, <1>4
  <2>2. CASE m \in R
    <3>1. m # k + 1 /\ m \in Nodes
      BY <2>2, <1>2, <1>1, StackAssumption DEF Nodes
    <3>2. nx2[m] = nx[m]
      BY <3>1
    <3> QED
      BY <3>2, <2>2, <1>3 DEF LinkClosed
  <2> QED
    BY <2>1, <2>2
<1>6. {k + 1} \cup R \in SUBSET Nodes
  BY <1>1, <1>2, StackAssumption DEF Nodes
<1>7. k + 1 # Null
  BY DEF Null
<1> QED
  BY <1>5, <1>6, <1>7, ReachLeast

\* The values a pop has returned, after one more is returned.
LEMMA PoppedAppend ==
  ASSUME NEW s \in Seq(Values), NEW x
  PROVE  {Append(s, x)[i] : i \in 1..Len(Append(s, x))} =
           {s[i] : i \in 1..Len(s)} \cup {x}
BY SMT

-----------------------------------------------------------------------------
(* The invariant holds initially and is kept by every step of a thread.   *)

\* A step that leaves the nodes, head and the returned values alone keeps
\* popped values off the stack.
LEMMA StackUnchanged ==
  ASSUME PoppedNeverOnStack, UNCHANGED <<head, next, val, popped>>
  PROVE  PoppedNeverOnStack'
BY DEF PoppedNeverOnStack, OnStack, PoppedSet, Reach, LinkClosed

\* A step that leaves head, the nodes and the history alone keeps the chain.
LEMMA ChainUnchanged ==
  ASSUME StackChain, UNCHANGED <<head, next, allocated, stackNodes>>
  PROVE  StackChain'
BY DEF StackChain, Published

LEMMA InitIInv == Init => IInv
<1> SUFFICES ASSUME Init PROVE IInv
  OBVIOUS
<1>1. TypeOK
  BY StackAssumption DEF Init, TypeOK, PCs, Nodes, Values, Null
<1>2. Published = {} /\ PoppedSet = {}
  BY DEF Init, Published, PoppedSet
<1>3. PoppedNeverOnStack
  BY <1>2 DEF PoppedNeverOnStack
<1>4. head \in 0..allocated
  BY DEF Init, Null
<1>5. NodesOlder /\ ValuesUnique /\ PoppedSet \subseteq PublishedValues
  BY <1>2 DEF NodesOlder, ValuesUnique
<1>6. PushFresh /\ PushDistinct /\ PopHolds /\ PopNextHeld
  BY DEF Init, PushFresh, PushDistinct, PopHolds, PopNextHeld, PushPCs, PopPCs
<1>7. StackChain
  BY DEF Init, StackChain, Null
<1> QED
  BY <1>1, <1>3, <1>4, <1>5, <1>6, <1>7 DEF IInv

(* The steps that move a thread between the phases of a call, and read  *)
(* shared memory without writing it, leave the nodes and head alone.     *)

LEMMA CallPushIInv ==
  ASSUME IInv, NEW t \in Threads, CallPush(t)
  PROVE  IInv'
<1>0. TypeOK /\ pushes \in Nat
  BY DEF IInv, TypeOK
<1>1. TypeOK'
  BY <1>0, StackAssumption DEF CallPush, TypeOK, Goto, PCs, Values
<1>2. Published' = Published /\ PublishedValues' = PublishedValues
  BY DEF CallPush, Published, PublishedValues
<1>3. PublishedValues \subseteq 1..pushes
  BY <1>0 DEF IInv, NodesOlder, PublishedValues
<1>4. (head \in 0..allocated)' /\ NodesOlder' /\ ValuesUnique'
  BY <1>0, <1>2 DEF IInv, CallPush, NodesOlder, ValuesUnique
<1>5. (PoppedSet \subseteq PublishedValues)'
  BY <1>2 DEF IInv, CallPush, PoppedSet
<1>6. PushFresh'
  <2> SUFFICES ASSUME NEW u \in Threads, pc'[u] \in PushPCs
               PROVE  arg'[u] \in 1..pushes' /\ arg'[u] \notin PublishedValues'
    BY DEF PushFresh
  <2>1. CASE u = t
    BY <2>1, <1>0, <1>2, <1>3 DEF CallPush, TypeOK
  <2>2. CASE u # t
    <3>1. pc[u] \in PushPCs /\ arg'[u] = arg[u]
      BY <2>2, <1>0 DEF CallPush, Goto, TypeOK
    <3> QED
      BY <3>1, <1>0, <1>2 DEF IInv, PushFresh, CallPush
  <2> QED
    BY <2>1, <2>2
<1>7. PushDistinct'
  <2> SUFFICES ASSUME NEW u \in Threads, NEW v \in Threads, u # v,
                      pc'[u] \in PushPCs, pc'[v] \in PushPCs
               PROVE  arg'[u] # arg'[v]
    BY DEF PushDistinct
  <2>1. \A w \in Threads : w # t => pc'[w] = pc[w] /\ arg'[w] = arg[w]
    BY <1>0 DEF CallPush, Goto, TypeOK
  <2>2. arg'[t] = pushes + 1
    BY <1>0 DEF CallPush, TypeOK
  <2>3. \A w \in Threads : w # t /\ pc[w] \in PushPCs => arg[w] \in 1..pushes
    BY DEF IInv, PushFresh
  <2>4. CASE u = t
    BY <2>4, <2>1, <2>2, <2>3, <1>0
  <2>5. CASE v = t
    BY <2>5, <2>1, <2>2, <2>3, <1>0
  <2>6. CASE u # t /\ v # t
    BY <2>6, <2>1 DEF IInv, PushDistinct
  <2> QED
    BY <2>4, <2>5, <2>6
<1>8. PopHolds' /\ PopNextHeld'
  BY <1>2 DEF IInv, PopHolds, PopNextHeld, CallPush, Goto, PopPCs
<1>9. PoppedNeverOnStack'
  BY StackUnchanged DEF IInv, CallPush
<1>10. StackChain'
  BY ChainUnchanged DEF IInv, CallPush
<1> QED
  BY <1>1, <1>4, <1>5, <1>6, <1>7, <1>8, <1>9, <1>10 DEF IInv

LEMMA PushLoadIInv ==
  ASSUME IInv, NEW t \in Threads, PushLoad(t)
  PROVE  IInv'
<1>0. TypeOK
  BY DEF IInv
<1>1. TypeOK'
  BY <1>0 DEF PushLoad, TypeOK, Goto, PCs
<1>2. Published' = Published /\ PublishedValues' = PublishedValues
  BY DEF PushLoad, Published, PublishedValues
<1>4. (head \in 0..allocated)' /\ NodesOlder' /\ ValuesUnique'
  BY <1>2 DEF IInv, PushLoad, NodesOlder, ValuesUnique
<1>5. (PoppedSet \subseteq PublishedValues)'
  BY <1>2 DEF IInv, PushLoad, PoppedSet
<1>6. PushFresh' /\ PushDistinct'
  BY <1>0, <1>2 DEF IInv, PushFresh, PushDistinct, PushLoad, Goto, PushPCs
<1>8. PopHolds' /\ PopNextHeld'
  BY <1>2 DEF IInv, PopHolds, PopNextHeld, PushLoad, Goto, PopPCs
<1>9. PoppedNeverOnStack'
  BY StackUnchanged DEF IInv, PushLoad
<1>10. StackChain'
  BY ChainUnchanged DEF IInv, PushLoad
<1> QED
  BY <1>1, <1>4, <1>5, <1>6, <1>8, <1>9, <1>10 DEF IInv

LEMMA CallPopIInv ==
  ASSUME IInv, NEW t \in Threads, CallPop(t)
  PROVE  IInv'
<1>0. TypeOK
  BY DEF IInv
<1>1. TypeOK'
  BY <1>0, StackAssumption DEF CallPop, TypeOK, Goto, PCs
<1>2. Published' = Published /\ PublishedValues' = PublishedValues
  BY DEF CallPop, Published, PublishedValues
<1>4. (head \in 0..allocated)' /\ NodesOlder' /\ ValuesUnique'
  BY <1>2 DEF IInv, CallPop, NodesOlder, ValuesUnique
<1>5. (PoppedSet \subseteq PublishedValues)'
  BY <1>2 DEF IInv, CallPop, PoppedSet
<1>6. PushFresh' /\ PushDistinct'
  BY <1>0, <1>2 DEF IInv, PushFresh, PushDistinct, CallPop, Goto, PushPCs
<1>8. PopHolds' /\ PopNextHeld'
  BY <1>2 DEF IInv, PopHolds, PopNextHeld, CallPop, Goto, PopPCs
<1>9. PoppedNeverOnStack'
  BY StackUnchanged DEF IInv, CallPop
<1>10. StackChain'
  BY ChainUnchanged DEF IInv, CallPop
<1> QED
  BY <1>1, <1>4, <1>5, <1>6, <1>8, <1>9, <1>10 DEF IInv

(* Publishing a pushed node, by the plain store of the null arm or by the  *)
(* CAS of the non-null arm: the new node points at null or at head, and    *)
(* holds the push's own value, which no pop has returned.                  *)
LEMMA PublishIInv ==
  ASSUME IInv, NEW t \in Threads, pc[t] \in {"push_store", "push_cas"},
         NEW h \in {Null, head}, NEW S,
         \/ h = Null /\ S = << >>
         \/ h = head /\ S = stackNodes,
         NewNode(arg[t], h), head' = allocated + 1, Goto(t, "idle"),
         stackNodes' = <<allocated + 1>> \o S,
         pushed' = pushed \cup {arg[t]},
         UNCHANGED <<arg, nodePtr, nextPtr, pushes, pops, popped>>
  PROVE  IInv'
<1> DEFINE a == allocated + 1
<1>0. /\ TypeOK /\ allocated \in 0..(MaxPush - 1) /\ a \in Nodes
      /\ arg[t] \in 1..pushes /\ arg[t] \notin PublishedValues
      /\ h \in 0..allocated /\ pushes \in 0..MaxPush
  BY StackAssumption DEF IInv, TypeOK, NewNode, PushFresh, PushPCs, Nodes, Null
<1>1. Published' = Published \cup {a} /\ a \notin Published
  BY <1>0 DEF NewNode, Published
<1>2. /\ \A n \in Published : next'[n] = next[n] /\ val'[n] = val[n]
      /\ next'[a] = h /\ val'[a] = arg[t]
  BY <1>0, <1>1, StackAssumption DEF NewNode, TypeOK, Published, Nodes
<1>3. PublishedValues' = PublishedValues \cup {arg[t]}
  BY <1>1, <1>2 DEF PublishedValues
<1>15. /\ S \in Seq(Nodes)
       /\ S = << >> <=> h = Null
       /\ S # << >> => S[1] = h
       /\ \A i \in 1..Len(S) :
             /\ S[i] \in Published
             /\ next[S[i]] = IF i < Len(S) THEN S[i + 1] ELSE Null
  <2>1. CASE h = Null /\ S = << >>
    BY <2>1
  <2>2. CASE h = head /\ S = stackNodes
    BY <2>2 DEF IInv, StackChain, TypeOK
  <2> QED
    BY <2>1, <2>2
<1>4. TypeOK'
  <2>1. h \in Nodes \cup {Null} /\ arg[t] \in Values
    BY <1>0, StackAssumption DEF Nodes, Values, Null
  <2>2. next' \in [Nodes -> Nodes \cup {Null}] /\ val' \in [Nodes -> Values \cup {Null}]
    BY <1>0, <2>1 DEF NewNode, TypeOK
  <2>3. head' \in Nodes \cup {Null} /\ allocated' \in 0..MaxPush
    BY <1>0, StackAssumption DEF NewNode, Nodes
  <2>4. pc' \in [Threads -> PCs] /\ pushed' \subseteq Values
    BY <1>0, <2>1 DEF Goto, TypeOK, PCs
  <2>5. stackNodes' \in Seq(Nodes)
    BY <1>0, <1>15
  <2> QED
    BY <1>0, <2>2, <2>3, <2>4, <2>5 DEF TypeOK
<1>5. (head \in 0..allocated)'
  BY <1>0 DEF NewNode
<1>6. NodesOlder'
  BY <1>0, <1>1, <1>2 DEF IInv, NodesOlder, NewNode
<1>7. ValuesUnique'
  BY <1>0, <1>1, <1>2 DEF IInv, ValuesUnique, PublishedValues
<1>8. (PoppedSet \subseteq PublishedValues)'
  BY <1>3 DEF IInv, PoppedSet
<1>9. \A w \in Threads : w # t => pc'[w] = pc[w]
  BY <1>0 DEF Goto, TypeOK
<1>10. pc'[t] = "idle"
  BY <1>0 DEF Goto, TypeOK
<1>11. PushFresh'
  <2> SUFFICES ASSUME NEW u \in Threads, pc'[u] \in PushPCs
               PROVE  arg[u] \in 1..pushes /\ arg[u] \notin PublishedValues'
    BY DEF PushFresh
  <2>1. u # t /\ pc[u] \in PushPCs
    BY <1>9, <1>10 DEF PushPCs
  <2>2. arg[u] # arg[t]
    BY <2>1 DEF IInv, PushDistinct, PushPCs
  <2> QED
    BY <2>1, <2>2, <1>3 DEF IInv, PushFresh
<1>12. PushDistinct'
  BY <1>9, <1>10 DEF IInv, PushDistinct, PushPCs
<1>13. PopHolds' /\ PopNextHeld'
  <2>1. PopHolds'
    BY <1>1, <1>9, <1>10 DEF IInv, PopHolds, PopPCs
  <2>2. PopNextHeld'
    BY <1>2, <1>9, <1>10 DEF IInv, PopHolds, PopNextHeld, PopPCs
  <2> QED
    BY <2>1, <2>2
<1>14. PoppedNeverOnStack'
  <2>1. \A n \in 1..allocated : next[n] \in 0..(n - 1)
    BY DEF IInv, NodesOlder, Published
  <2>0. /\ next \in [Nodes -> Nodes \cup {Null}]
        /\ allocated \in 0..(MaxPush - 1) /\ allocated \in 0..MaxPush
        /\ h \in 0..allocated
    BY <1>0 DEF TypeOK
  <2>2. Reach(a, next') \subseteq {a} \cup Reach(h, next)
    <3>1. next' = [next EXCEPT ![allocated + 1] = h]
      BY DEF NewNode
    <3>2. Reach(allocated + 1, [next EXCEPT ![allocated + 1] = h])
            \subseteq {allocated + 1} \cup Reach(h, next)
      BY <2>0, <2>1, ReachPush, Zenon
    <3> QED
      BY <3>1, <3>2, Zenon
  <2>3. Reach(h, next) \subseteq Published
    BY <2>0, <2>1, ReachOlder, Zenon DEF Published
  <2>4. \A n \in Reach(h, next) : val[n] \notin PoppedSet
    <3>1. CASE h = Null
      BY <3>1, ReachNull
    <3>2. CASE h = head
      BY <3>2 DEF IInv, PoppedNeverOnStack, OnStack
    <3> QED
      BY <3>1, <3>2
  <2>5. arg[t] \notin PoppedSet
    BY <1>0 DEF IInv
  <2>6. \A n \in Reach(a, next') : val'[n] \notin PoppedSet
    BY <2>2, <2>3, <2>4, <2>5, <1>2
  <2> QED
    BY <2>6, <1>0 DEF PoppedNeverOnStack, OnStack, PoppedSet
<1>16. StackChain'
  <2>1. /\ stackNodes' \in Seq(Nodes) /\ Len(stackNodes') = Len(S) + 1
        /\ stackNodes'[1] = a
        /\ \A i \in 2..(Len(S) + 1) : stackNodes'[i] = S[i - 1]
    BY <1>0, <1>15
  <2>2. (stackNodes = << >> <=> head = Null)' /\ (stackNodes # << >> => stackNodes[1] = head)'
    BY <1>0, <2>1 DEF Nodes, Null
  <2>3. ASSUME NEW i \in 1..Len(stackNodes')
        PROVE  /\ stackNodes'[i] \in Published'
               /\ next'[stackNodes'[i]] =
                    IF i < Len(stackNodes') THEN stackNodes'[i + 1] ELSE Null
    <3>1. CASE i = 1
      <4>1. next'[a] = h /\ a \in Published'
        BY <1>1, <1>2
      <4>2. h = IF Len(S) > 0 THEN S[1] ELSE Null
        BY <1>15
      <4> QED
        BY <3>1, <2>1, <4>1, <4>2, <1>15
    <3>2. CASE i > 1
      <4>1. i - 1 \in 1..Len(S) /\ stackNodes'[i] = S[i - 1]
        BY <3>2, <2>1
      <4>2. S[i - 1] \in Published /\ next'[S[i - 1]] = next[S[i - 1]]
        BY <4>1, <1>15, <1>2
      <4>3. next[S[i - 1]] = IF i - 1 < Len(S) THEN S[i] ELSE Null
        BY <4>1, <1>15
      <4>4. i < Len(stackNodes') => stackNodes'[i + 1] = S[i]
        BY <2>1, <3>2
      <4> QED
        BY <4>1, <4>2, <4>3, <4>4, <2>1, <1>1
    <3> QED
      BY <3>1, <3>2
  <2> QED
    BY <2>2, <2>3 DEF StackChain
<1> QED
  BY <1>4, <1>5, <1>6, <1>7, <1>8, <1>11, <1>12, <1>13, <1>14, <1>16 DEF IInv

LEMMA PushStoreIInv ==
  ASSUME IInv, NEW t \in Threads, PushStore(t)
  PROVE  IInv'
<1>1. <<allocated + 1>> \o << >> = <<allocated + 1>>
  OBVIOUS
<1> QED
  BY <1>1, PublishIInv DEF PushStore

LEMMA PushCasIInv ==
  ASSUME IInv, NEW t \in Threads, PushCas(t)
  PROVE  IInv'
BY PublishIInv DEF PushCas

LEMMA PopLoadIInv ==
  ASSUME IInv, NEW t \in Threads, PopLoad(t)
  PROVE  IInv'
<1>0. TypeOK /\ head \in 0..allocated
  BY DEF IInv
<1>1. TypeOK'
  BY <1>0 DEF PopLoad, TypeOK, Goto, PCs
<1>2. Published' = Published /\ PublishedValues' = PublishedValues
  BY DEF PopLoad, Published, PublishedValues
<1>3. (head \in 0..allocated)' /\ NodesOlder' /\ ValuesUnique'
  BY <1>2 DEF IInv, PopLoad, NodesOlder, ValuesUnique
<1>4. (PoppedSet \subseteq PublishedValues)'
  BY <1>2 DEF IInv, PopLoad, PoppedSet
<1>5. PushFresh' /\ PushDistinct'
  BY <1>0, <1>2 DEF IInv, PushFresh, PushDistinct, PopLoad, Goto, PushPCs
<1>6. PopHolds'
  <2>1. head # Null => head \in Published
    BY <1>0 DEF Published, Null
  <2> QED
    BY <1>0, <1>2, <2>1 DEF IInv, PopHolds, PopLoad, Goto, PopPCs, TypeOK
<1>7. PopNextHeld'
  BY <1>0 DEF IInv, PopNextHeld, PopLoad, Goto, TypeOK
<1>8. PoppedNeverOnStack'
  BY StackUnchanged DEF IInv, PopLoad
<1>9. StackChain'
  BY ChainUnchanged DEF IInv, PopLoad
<1> QED
  BY <1>1, <1>3, <1>4, <1>5, <1>6, <1>7, <1>8, <1>9 DEF IInv

LEMMA PopNextIInv ==
  ASSUME IInv, NEW t \in Threads, PopNext(t)
  PROVE  IInv'
<1>0. TypeOK /\ nodePtr[t] \in Published /\ Published \subseteq Nodes
  BY StackAssumption DEF IInv, PopNext, PopHolds, PopPCs, Published, TypeOK, Nodes
<1>1. TypeOK'
  BY <1>0 DEF PopNext, TypeOK, Goto, PCs
<1>2. Published' = Published /\ PublishedValues' = PublishedValues
  BY DEF PopNext, Published, PublishedValues
<1>3. (head \in 0..allocated)' /\ NodesOlder' /\ ValuesUnique'
  BY <1>2 DEF IInv, PopNext, NodesOlder, ValuesUnique
<1>4. (PoppedSet \subseteq PublishedValues)'
  BY <1>2 DEF IInv, PopNext, PoppedSet
<1>5. PushFresh' /\ PushDistinct'
  BY <1>0, <1>2 DEF IInv, PushFresh, PushDistinct, PopNext, Goto, PushPCs
<1>6. PopHolds'
  BY <1>0, <1>2 DEF IInv, PopHolds, PopNext, Goto, PopPCs, TypeOK
<1>7. PopNextHeld'
  BY <1>0 DEF IInv, PopNextHeld, PopNext, Goto, TypeOK
<1>8. PoppedNeverOnStack'
  BY StackUnchanged DEF IInv, PopNext
<1>9. StackChain'
  BY ChainUnchanged DEF IInv, PopNext
<1> QED
  BY <1>1, <1>3, <1>4, <1>5, <1>6, <1>7, <1>8, <1>9 DEF IInv

(* A pop returning the value of the node o it holds: whatever head         *)
(* becomes, when none of the nodes it reaches holds a returned value or   *)
(* o's value, popped values stay off the stack.                           *)
LEMMA ReturnIInv ==
  ASSUME IInv, NEW t \in Threads, pc[t] \in {"pop_clear", "pop_cas"},
         popped' = Append(popped, val[nodePtr[t]]), Goto(t, "idle"),
         head' \in 0..allocated,
         \A n \in Reach(head', next) : val[n] \notin PoppedSet \cup {val[nodePtr[t]]},
         \/ head' = Null /\ stackNodes' = << >>
         \/ /\ head = nodePtr[t] /\ head' = next[nodePtr[t]]
            /\ stackNodes' = Tail(stackNodes),
         UNCHANGED <<next, val, allocated, arg, nodePtr, nextPtr, pushes, pops, pushed>>
  PROVE  IInv'
<1>0. /\ TypeOK /\ nodePtr[t] \in Published
      /\ val[nodePtr[t]] \in 1..pushes /\ val[nodePtr[t]] \in PublishedValues
  BY DEF IInv, PopHolds, PopPCs, NodesOlder, PublishedValues
<1>1. PoppedSet' = PoppedSet \cup {val[nodePtr[t]]}
  <2>1. val[nodePtr[t]] \in Values /\ popped \in Seq(Values)
    BY <1>0, StackAssumption DEF TypeOK, Values
  <2> QED
    BY <2>1, PoppedAppend DEF PoppedSet
<1>2. Published' = Published /\ PublishedValues' = PublishedValues
  BY DEF Published, PublishedValues
<1>11. StackChain' /\ stackNodes' \in Seq(Nodes)
  <2>1. CASE head' = Null /\ stackNodes' = << >>
    BY <2>1 DEF StackChain
  <2>2. CASE /\ head = nodePtr[t] /\ head' = next[nodePtr[t]]
             /\ stackNodes' = Tail(stackNodes)
    <3> DEFINE s == stackNodes
    <3>1. s \in Seq(Nodes) /\ s # << >> /\ s[1] = nodePtr[t]
      BY <2>2, <1>0 DEF IInv, StackChain, TypeOK, Published, Null
    <3>2. /\ Tail(s) \in Seq(Nodes) /\ Len(Tail(s)) = Len(s) - 1
          /\ \A i \in 1..(Len(s) - 1) : Tail(s)[i] = s[i + 1]
      BY <3>1
    <3>3. \A i \in 1..Len(s) :
             /\ s[i] \in Published
             /\ next[s[i]] = IF i < Len(s) THEN s[i + 1] ELSE Null
      BY DEF IInv, StackChain
    <3>4. next[nodePtr[t]] = IF 1 < Len(s) THEN s[2] ELSE Null
      BY <3>1, <3>3
    <3>5. /\ (stackNodes = << >> <=> head = Null)'
          /\ (stackNodes # << >> => stackNodes[1] = head)'
      BY <2>2, <3>1, <3>2, <3>3, <3>4 DEF Published, Null
    <3>6. \A i \in 1..Len(stackNodes') :
             /\ stackNodes'[i] \in Published'
             /\ next'[stackNodes'[i]] =
                  IF i < Len(stackNodes') THEN stackNodes'[i + 1] ELSE Null
      BY <2>2, <3>2, <3>3, <1>2
    <3> QED
      BY <2>2, <3>2, <3>5, <3>6 DEF StackChain
  <2> QED
    BY <2>1, <2>2
<1>3. TypeOK'
  <2>1. val[nodePtr[t]] \in Values
    BY <1>0, StackAssumption DEF TypeOK, Values
  <2>2. head' \in Nodes \cup {Null}
    BY <1>0, StackAssumption DEF TypeOK, Nodes, Null
  <2>3. pc' \in [Threads -> PCs]
    BY <1>0 DEF Goto, TypeOK, PCs
  <2> QED
    BY <1>0, <1>11, <2>1, <2>2, <2>3 DEF TypeOK
<1>4. NodesOlder' /\ ValuesUnique'
  BY <1>2 DEF IInv, NodesOlder, ValuesUnique
<1>5. (PoppedSet \subseteq PublishedValues)'
  BY <1>0, <1>1, <1>2 DEF IInv
<1>6. \A w \in Threads : w # t => pc'[w] = pc[w]
  BY <1>0 DEF Goto, TypeOK
<1>7. pc'[t] = "idle"
  BY <1>0 DEF Goto, TypeOK
<1>8. PushFresh' /\ PushDistinct'
  BY <1>2, <1>6, <1>7 DEF IInv, PushFresh, PushDistinct, PushPCs
<1>9. PopHolds' /\ PopNextHeld'
  BY <1>2, <1>6, <1>7 DEF IInv, PopHolds, PopNextHeld, PopPCs
<1>10. PoppedNeverOnStack'
  BY <1>1 DEF PoppedNeverOnStack, OnStack
<1> QED
  BY <1>3, <1>4, <1>5, <1>8, <1>9, <1>10, <1>11 DEF IInv

LEMMA PopClearIInv ==
  ASSUME IInv, NEW t \in Threads, PopClear(t)
  PROVE  IInv'
<1>1. Reach(head', next) = {}
  BY ReachNull DEF PopClear
<1>2. head' \in 0..allocated
  BY DEF PopClear, IInv, TypeOK, Null
<1> QED
  BY <1>1, <1>2, ReturnIInv DEF PopClear

LEMMA PopCasIInv ==
  ASSUME IInv, NEW t \in Threads, PopCas(t)
  PROVE  IInv'
<1>0. TypeOK /\ nodePtr[t] \in Published /\ nextPtr[t] = next[nodePtr[t]]
  BY DEF IInv, PopCas, PopHolds, PopNextHeld, PopPCs
<1>1. CASE head = nodePtr[t] /\ head' = nextPtr[t]
  <2> DEFINE o == nodePtr[t]
  <2>1. o \in Nodes /\ allocated \in 0..MaxPush /\ o - 1 \in 0..MaxPush
    BY <1>0, StackAssumption DEF Published, TypeOK, Nodes
  <2>2. \A n \in 1..allocated : next[n] \in 0..(n - 1)
    BY DEF IInv, NodesOlder, Published
  <2>3. next[o] \in 0..(o - 1) /\ \A n \in 1..(o - 1) : next[n] \in 0..(n - 1)
    <3>1. o \in 1..allocated /\ allocated \in Nat
      BY <1>0 DEF Published, TypeOK
    <3> QED
      BY <3>1, <2>2
  <2>4. Reach(next[o], next) \subseteq 1..(o - 1)
    <3>1. next \in [Nodes -> Nodes \cup {Null}]
      BY <1>0 DEF TypeOK
    <3> QED
      BY <2>1, <2>3, <3>1, ReachOlder
  <2>5. Reach(next[o], next) \subseteq Reach(o, next)
    <3>1. next \in [Nodes -> Nodes \cup {Null}]
      BY <1>0 DEF TypeOK
    <3> QED
      BY <2>1, <3>1, ReachStep
  <2>6. \A n \in Reach(next[o], next) : val[n] \notin PoppedSet
    <3>1. \A n \in Reach(head, next) : val[n] \notin PoppedSet
      BY DEF IInv, PoppedNeverOnStack, OnStack
    <3> QED
      BY <3>1, <1>1, <2>5
  <2>7. \A n \in Reach(next[o], next) : val[n] # val[o]
    <3>1. \A n \in Reach(next[o], next) : n \in Published /\ n # o
      BY <2>4, <1>0 DEF Published, TypeOK
    <3> QED
      BY <3>1, <1>0 DEF IInv, ValuesUnique
  <2>8. head' \in 0..allocated
    BY <1>0, <1>1, <2>3 DEF Published, TypeOK
  <2> QED
    BY <1>0, <1>1, <2>6, <2>7, <2>8, ReturnIInv DEF PopCas
<1>2. CASE ~(head = nodePtr[t] /\ head' = nextPtr[t])
  <2>1. head # nodePtr[t] /\ Goto(t, "pop_next") /\ UNCHANGED <<head, popped>>
    BY <1>2 DEF PopCas
  <2>2. TypeOK'
    BY <1>0, <2>1 DEF PopCas, TypeOK, Goto, PCs
  <2>3. Published' = Published /\ PublishedValues' = PublishedValues
    BY DEF PopCas, Published, PublishedValues
  <2>4. (head \in 0..allocated)' /\ NodesOlder' /\ ValuesUnique'
    BY <2>1, <2>3 DEF IInv, PopCas, NodesOlder, ValuesUnique
  <2>5. (PoppedSet \subseteq PublishedValues)'
    BY <2>1, <2>3 DEF IInv, PoppedSet
  <2>6. PushFresh' /\ PushDistinct'
    BY <1>0, <2>1, <2>3 DEF IInv, PushFresh, PushDistinct, PopCas, Goto, PushPCs
  <2>7. PopHolds' /\ PopNextHeld'
    BY <1>0, <2>1, <2>3 DEF IInv, PopHolds, PopNextHeld, PopCas, Goto, PopPCs, TypeOK
  <2>8. PoppedNeverOnStack'
    BY <2>1, StackUnchanged DEF IInv, PopCas
  <2>9. StackChain'
    BY <2>1, ChainUnchanged DEF IInv, PopCas
  <2> QED
    BY <2>2, <2>4, <2>5, <2>6, <2>7, <2>8, <2>9 DEF IInv
<1> QED
  BY <1>1, <1>2

LEMMA NextIInv == IInv /\ [Next]_vars => IInv'
<1> SUFFICES ASSUME IInv, [Next]_vars PROVE IInv'
  OBVIOUS
<1>1. CASE UNCHANGED vars
  <2>1. TypeOK' /\ (head \in 0..allocated)'
    BY <1>1 DEF IInv, vars, TypeOK
  <2>2. Published' = Published /\ PublishedValues' = PublishedValues /\ PoppedSet' = PoppedSet
    BY <1>1 DEF vars, Published, PublishedValues, PoppedSet
  <2>3. NodesOlder' /\ ValuesUnique' /\ PushFresh' /\ PushDistinct'
    BY <1>1, <2>2 DEF IInv, vars, NodesOlder, ValuesUnique, PushFresh, PushDistinct
  <2>4. PopHolds' /\ PopNextHeld'
    BY <1>1, <2>2 DEF IInv, vars, PopHolds, PopNextHeld
  <2>5. PoppedNeverOnStack'
    BY <1>1, StackUnchanged DEF IInv, vars
  <2>6. StackChain'
    BY <1>1, ChainUnchanged DEF IInv, vars
  <2> QED
    BY <2>1, <2>2, <2>3, <2>4, <2>5, <2>6 DEF IInv
<1>2. CASE Next
  <2> PICK t \in Threads : Thread(t)
    BY <1>2 DEF Next
  <2> QED
    BY CallPushIInv, PushLoadIInv, PushStoreIInv, PushCasIInv, CallPopIInv,
       PopLoadIInv, PopNextIInv, PopClearIInv, PopCasIInv DEF Thread
<1> QED
  BY <1>1, <1>2

-----------------------------------------------------------------------------
(* Every reachable state of the stack is well typed, for every number of  *)
(* threads, pushes and pops.                                              *)
THEOREM TypeCorrect == Spec => []TypeOK
<1>1. Init => IInv
  BY InitIInv
<1>2. IInv /\ [Next]_vars => IInv'
  BY NextIInv
<1>3. IInv => TypeOK
  BY DEF IInv
<1> QED
  BY <1>1, <1>2, <1>3, PTL DEF Spec

(* push and pop never bring back a popped item: for any number of threads *)
(* and calls, whatever stale head a delayed push compares against or a    *)
(* delayed pop's plain store writes, no value a pop returned is on the    *)
(* stack again.                                                           *)
THEOREM PoppedNeverOnStackCorrect == Spec => []PoppedNeverOnStack
<1>1. Init => IInv
  BY InitIInv
<1>2. IInv /\ [Next]_vars => IInv'
  BY NextIInv
<1>3. IInv => PoppedNeverOnStack
  BY DEF IInv
<1> QED
  BY <1>1, <1>2, <1>3, PTL DEF Spec

-----------------------------------------------------------------------------
(* Where a step may move head. *)

HeadStep == head' \in {Null} \cup Reach(head, next) \cup ((1..allocated') \ (1..allocated))

\* A step that keeps head keeps it on a node it reaches (or null).
LEMMA HeadStays ==
  ASSUME TypeOK, head' = head, next' = next
  PROVE  HeadStep
<1>1. CASE head = Null
  BY <1>1 DEF HeadStep
<1>2. CASE head # Null
  <2>1. head \in Nodes
    BY <1>2 DEF TypeOK
  <2> QED
    BY <2>1, ReachHead DEF HeadStep
<1> QED
  BY <1>1, <1>2

LEMMA NextHeadStep == IInv /\ [Next]_vars => HeadStep
<1> SUFFICES ASSUME IInv, [Next]_vars PROVE HeadStep
  OBVIOUS
<1>0. TypeOK /\ allocated \in Nat
  BY StackAssumption DEF IInv, TypeOK
<1>1. CASE UNCHANGED vars
  BY <1>0, <1>1, HeadStays DEF vars
<1>2. CASE Next
  <2> PICK t \in Threads : Thread(t)
    BY <1>2 DEF Next
  <2>1. CASE CallPush(t) \/ PushLoad(t) \/ CallPop(t) \/ PopLoad(t) \/ PopNext(t)
    BY <1>0, <2>1, HeadStays DEF CallPush, PushLoad, CallPop, PopLoad, PopNext
  <2>2. CASE PushStore(t) \/ PushCas(t)
    BY <1>0, <2>2 DEF PushStore, PushCas, NewNode, HeadStep
  <2>3. CASE PopClear(t)
    BY <2>3 DEF PopClear, HeadStep
  <2>4. CASE PopCas(t)
    <3>1. CASE head = nodePtr[t] /\ head' = nextPtr[t]
      <4> DEFINE o == nodePtr[t]
      <4>1. o \in Nodes /\ nextPtr[t] = next[o] /\ next \in [Nodes -> Nodes \cup {Null}]
        BY <1>0, <2>4, StackAssumption DEF IInv, PopCas, PopHolds, PopNextHeld, PopPCs,
                                     Published, TypeOK, Nodes
      <4>2. Reach(next[o], next) \subseteq Reach(o, next)
        BY <4>1, ReachStep
      <4>3. next[o] # Null => next[o] \in Reach(next[o], next)
        BY <4>1, ReachHead
      <4> QED
        BY <3>1, <4>1, <4>2, <4>3 DEF HeadStep
    <3>2. CASE ~(head = nodePtr[t] /\ head' = nextPtr[t])
      BY <1>0, <2>4, <3>2, HeadStays DEF PopCas
    <3> QED
      BY <3>1, <3>2
  <2> QED
    BY <2>1, <2>2, <2>3, <2>4 DEF Thread
<1> QED
  BY <1>1, <1>2

(* A pop's compare_exchange against a stale head never reinstalls a node  *)
(* that was already removed: for any number of threads and calls, head    *)
(* only moves down the stack, to null, or to a freshly pushed node.       *)
THEOREM HeadNeverMovesBackCorrect == Spec => HeadNeverMovesBack
<1>1. Init => IInv
  BY InitIInv
<1>2. IInv /\ [Next]_vars => IInv'
  BY NextIInv
<1>3. IInv /\ [Next]_vars => [HeadStep]_vars
  BY NextHeadStep
<1> QED
  BY <1>1, <1>2, <1>3, PTL DEF Spec, HeadNeverMovesBack, HeadStep

=============================================================================
