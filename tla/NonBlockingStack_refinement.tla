--------------------- MODULE NonBlockingStack_refinement ---------------------
(***************************************************************************)
(* The non-blocking stack of stm/src/nonblock.rs, used by a single thread  *)
(* as test_stack uses it, implements the Stack trait of AbstractStack      *)
(* under the mapping stack <- StackSeq, out <- popped.                     *)
(*                                                                         *)
(* With one thread nothing moves head between the thread's load of head   *)
(* and its store or compare_exchange: the value it loaded is still head,   *)
(* so every push's CAS and every pop's CAS succeeds, and a pop that found  *)
(* no next node takes the last node.  PushStore and PushCas are a Push of  *)
(* arg, PopClear and the successful PopCas are a Pop, every other step     *)
(* leaves the stack and the returned values alone.  With two threads the   *)
(* plain store of the push's null arm and of PopClear lose items (the     *)
(* stack_lost run), so the theorem needs its hypothesis.                   *)
(***************************************************************************)
EXTENDS NonBlockingStack_proofs, SequenceTheorems

\* What a lone thread knows about head at each point of its call: the head
\* it loaded is still head, and a pop heading for the plain store of null
\* holds the last node.
SeqInv(t) ==
  /\ pc[t] = "push_store" => head = Null
  /\ pc[t] = "push_cas" => nodePtr[t] = head
  /\ pc[t] \in PopPCs => nodePtr[t] = head /\ head # Null
  /\ pc[t] = "pop_clear" => next[head] = Null

-----------------------------------------------------------------------------
(* Pushing node a, fresh and holding v, onto stackNodes puts v on top of   *)
(* the stack and leaves the values under it alone.                        *)
LEMMA PushStackSeq ==
  ASSUME IInv, NEW v, allocated < MaxPush,
         val' = [val EXCEPT ![allocated + 1] = v],
         stackNodes' = <<allocated + 1>> \o stackNodes
  PROVE  StackSeq' = <<v>> \o StackSeq
<1> DEFINE a == allocated + 1
           s == stackNodes
<1>1. /\ s \in Seq(Nodes) /\ val \in [Nodes -> Values \cup {Null}]
      /\ a \in Nodes /\ a \notin Published /\ allocated \in Nat
      /\ \A i \in 1..Len(s) : s[i] \in Published
  BY StackAssumption DEF IInv, TypeOK, StackChain, Nodes, Published
<1>2. \A i \in 1..Len(s) : s[i] \in Nodes /\ s[i] # a
  BY <1>1 DEF Published
<1>3. /\ Len(stackNodes') = Len(s) + 1
      /\ stackNodes'[1] = a
      /\ \A i \in 2..(Len(s) + 1) : stackNodes'[i] = s[i - 1]
  BY <1>1
<1>4. /\ val'[a] = v
      /\ \A i \in 1..Len(s) : val'[s[i]] = val[s[i]]
  BY <1>1, <1>2
<1>5. Len(<<v>> \o StackSeq) = Len(s) + 1
  BY <1>1 DEF StackSeq
<1>6. \A i \in 1..(Len(s) + 1) :
        (<<v>> \o StackSeq)[i] = IF i = 1 THEN v ELSE val[s[i - 1]]
  BY <1>1 DEF StackSeq
<1>7. StackSeq' = [i \in 1..(Len(s) + 1) |-> IF i = 1 THEN v ELSE val[s[i - 1]]]
  BY <1>3, <1>4 DEF StackSeq
<1> QED
  BY <1>1, <1>5, <1>6, <1>7 DEF StackSeq

(* Removing the top node of stackNodes removes the top value of the stack, *)
(* which is the top node's value.                                          *)
LEMMA PopStackSeq ==
  ASSUME IInv, stackNodes # << >>, stackNodes' = Tail(stackNodes), val' = val
  PROVE  /\ StackSeq # << >>
         /\ StackSeq' = Tail(StackSeq)
         /\ Head(StackSeq) = val[stackNodes[1]]
<1> DEFINE s == stackNodes
<1>1. s \in Seq(Nodes) /\ Len(s) >= 1
  BY DEF IInv, TypeOK
<1>2. Len(StackSeq) = Len(s) /\ \A i \in 1..Len(s) : StackSeq[i] = val[s[i]]
  BY <1>1 DEF StackSeq
<1>3. StackSeq # << >> /\ Head(StackSeq) = val[s[1]]
  BY <1>1, <1>2
<1>4. StackSeq' = [i \in 1..(Len(s) - 1) |-> val[s[i + 1]]]
  BY <1>1 DEF StackSeq
<1>5. Tail(StackSeq) = [i \in 1..(Len(s) - 1) |-> val[s[i + 1]]]
  BY <1>1, <1>2 DEF StackSeq
<1> QED
  BY <1>3, <1>4, <1>5

-----------------------------------------------------------------------------
(* A lone thread starts idle, and no step of its own moves head away from *)
(* the value it loaded.                                                   *)
LEMMA SeqInvInit ==
  ASSUME NEW t0 \in Threads, Init
  PROVE  SeqInv(t0)
BY DEF Init, SeqInv, PopPCs

LEMMA SeqInvNext ==
  ASSUME NEW t0, Threads = {t0}, IInv, SeqInv(t0), [Next]_vars
  PROVE  SeqInv(t0)'
<1>0. /\ pc \in [Threads -> PCs] /\ t0 \in Threads
      /\ nodePtr \in [Threads -> Nodes \cup {Null}]
  BY DEF IInv, TypeOK
<1>1. CASE UNCHANGED vars
  BY <1>1 DEF vars, SeqInv
<1>2. CASE Next
  <2>1. Thread(t0)
    BY <1>2 DEF Next
  <2>2. CASE CallPush(t0) \/ CallPop(t0) \/ PushStore(t0) \/ PushCas(t0)
    BY <2>2, <1>0 DEF CallPush, CallPop, PushStore, PushCas, Goto, SeqInv, PopPCs
  <2>3. CASE PushLoad(t0)
    <3>1. nodePtr'[t0] = head /\ head' = head
      BY <2>3, <1>0 DEF PushLoad
    <3>2. pc'[t0] = IF head = Null THEN "push_store" ELSE "push_cas"
      BY <2>3, <1>0 DEF PushLoad, Goto
    <3> QED
      BY <3>1, <3>2 DEF SeqInv, PopPCs
  <2>4. CASE PopLoad(t0)
    <3>1. nodePtr'[t0] = head /\ head' = head
      BY <2>4, <1>0 DEF PopLoad
    <3>2. pc'[t0] = IF head = Null THEN "idle" ELSE "pop_next"
      BY <2>4, <1>0 DEF PopLoad, Goto
    <3> QED
      BY <3>1, <3>2 DEF SeqInv, PopPCs
  <2>5. CASE PopNext(t0)
    BY <2>5, <1>0 DEF PopNext, Goto, SeqInv, PopPCs
  <2>6. CASE PopClear(t0)
    BY <2>6, <1>0 DEF PopClear, Goto, SeqInv, PopPCs
  <2>7. CASE PopCas(t0)
    <3>1. head = nodePtr[t0]
      BY <2>7 DEF PopCas, SeqInv, PopPCs
    <3> QED
      BY <2>7, <3>1, <1>0 DEF PopCas, Goto, SeqInv, PopPCs
  <2> QED
    BY <2>1, <2>2, <2>3, <2>4, <2>5, <2>6, <2>7 DEF Thread
<1> QED
  BY <1>1, <1>2

(* The steps that leave stackNodes, val and popped alone are stutters of  *)
(* the abstract stack.                                                    *)
LEMMA StackStutter ==
  ASSUME UNCHANGED <<val, stackNodes, popped>>
  PROVE  UNCHANGED <<StackSeq, popped>>
BY DEF StackSeq

(* A push's store or successful CAS pushes its value. *)
LEMMA PushRefines ==
  ASSUME NEW t0, Threads = {t0}, IInv, SeqInv(t0),
         PushStore(t0) \/ PushCas(t0)
  PROVE  AbstractStack!Push(arg[t0])
<1>1. allocated < MaxPush /\ val' = [val EXCEPT ![allocated + 1] = arg[t0]]
  BY DEF PushStore, PushCas, NewNode
<1>2. stackNodes' = <<allocated + 1>> \o stackNodes
  <2>1. CASE PushStore(t0)
    <3>1. stackNodes = << >>
      BY <2>1 DEF PushStore, SeqInv, IInv, StackChain
    <3> QED
      BY <2>1, <3>1 DEF PushStore
  <2>2. CASE PushCas(t0)
    BY <2>2 DEF PushCas
  <2> QED
    BY <2>1, <2>2
<1>3. UNCHANGED popped
  BY DEF PushStore, PushCas
<1> QED
  BY <1>1, <1>2, <1>3, PushStackSeq DEF AbstractStack!Push

(* A pop's plain store of null, or its successful CAS, pops the top value *)
(* and returns it.                                                        *)
LEMMA PopRefines ==
  ASSUME NEW t0, Threads = {t0}, IInv, SeqInv(t0),
         PopClear(t0) \/ (PopCas(t0) /\ head = nodePtr[t0])
  PROVE  AbstractStack!Pop
<1>0. /\ stackNodes \in Seq(Nodes) /\ stackNodes # << >>
      /\ stackNodes[1] = head /\ nodePtr[t0] = head
      /\ val' = val /\ popped' = Append(popped, val[nodePtr[t0]])
  <2>1. pc[t0] \in PopPCs
    BY DEF PopClear, PopCas, PopPCs
  <2>2. head # Null /\ nodePtr[t0] = head
    BY <2>1 DEF SeqInv
  <2> QED
    BY <2>2 DEF IInv, TypeOK, StackChain, PopClear, PopCas
<1>1. stackNodes' = Tail(stackNodes)
  <2>1. CASE PopClear(t0)
    <3>1. next[head] = Null
      BY <2>1 DEF PopClear, SeqInv
    <3>2. \A i \in 1..Len(stackNodes) :
             /\ stackNodes[i] \in Published
             /\ next[stackNodes[i]] =
                  IF i < Len(stackNodes) THEN stackNodes[i + 1] ELSE Null
      BY DEF IInv, StackChain
    <3>3. Len(stackNodes) = 1
      <4>1. Len(stackNodes) \in Nat /\ Len(stackNodes) >= 1
        BY <1>0
      <4>2. ~(1 < Len(stackNodes))
        <5>1. SUFFICES ASSUME 1 < Len(stackNodes) PROVE FALSE
          OBVIOUS
        <5>2. 1 \in 1..Len(stackNodes) /\ 2 \in 1..Len(stackNodes)
          BY <4>1, <5>1
        <5>3. next[stackNodes[1]] = stackNodes[2] /\ stackNodes[2] \in Published
          BY <5>1, <5>2, <3>2
        <5> QED
          BY <1>0, <3>1, <5>3 DEF Published, Null
      <4> QED
        BY <4>1, <4>2
    <3>4. Tail(stackNodes) = << >>
      <4>1. Tail(stackNodes) \in Seq(Nodes) /\ Len(Tail(stackNodes)) = 0
        BY <1>0, <3>3
      <4> QED
        BY <4>1, EmptySeq
    <3> QED
      BY <2>1, <3>4 DEF PopClear
  <2>2. CASE PopCas(t0) /\ head = nodePtr[t0]
    BY <2>2 DEF PopCas
  <2> QED
    BY <2>1, <2>2
<1> QED
  BY <1>0, <1>1, PopStackSeq DEF AbstractStack!Pop

(* Every step of a lone thread is a step of the abstract stack, or leaves *)
(* it alone.                                                              *)
LEMMA StepRefines ==
  ASSUME NEW t0, Threads = {t0}, IInv, SeqInv(t0), [Next]_vars
  PROVE  [AbstractStack!Next]_<<StackSeq, popped>>
<1>1. CASE UNCHANGED vars
  BY <1>1, StackStutter DEF vars
<1>2. CASE Next
  <2>1. Thread(t0)
    BY <1>2 DEF Next
  <2>2. CASE CallPush(t0) \/ PushLoad(t0) \/ CallPop(t0) \/ PopLoad(t0)
             \/ PopNext(t0)
    BY <2>2, StackStutter DEF CallPush, PushLoad, CallPop, PopLoad, PopNext
  <2>3. CASE PushStore(t0) \/ PushCas(t0)
    <3>1. arg[t0] \in Values
      <4>1. pc[t0] \in PushPCs
        BY <2>3 DEF PushStore, PushCas, PushPCs
      <4>2. arg[t0] \in 1..pushes /\ pushes \in 0..MaxPush
        BY <4>1 DEF IInv, PushFresh, TypeOK
      <4> QED
        BY <4>2, StackAssumption DEF Values
    <3> QED
      BY <2>3, <3>1, PushRefines DEF AbstractStack!Next
  <2>4. CASE PopClear(t0) \/ (PopCas(t0) /\ head = nodePtr[t0])
    BY <2>4, PopRefines DEF AbstractStack!Next
  <2>5. CASE PopCas(t0) /\ head # nodePtr[t0]
    BY <2>5, StackStutter DEF PopCas
  <2> QED
    BY <2>1, <2>2, <2>3, <2>4, <2>5 DEF Thread
<1> QED
  BY <1>1, <1>2

-----------------------------------------------------------------------------
(* A single thread's pushes and pops behave as the Stack trait promises:  *)
(* the stack implements AbstractStack, for every number of pushes and     *)
(* pops (the property ImplementsStack the stack_sequential run checks).   *)
THEOREM StackRefinement ==
  ASSUME NEW t0, Threads = {t0}
  PROVE  Spec => ImplementsStack
<1>1. Init => IInv /\ SeqInv(t0)
  BY InitIInv, SeqInvInit
<1>2. IInv /\ SeqInv(t0) /\ [Next]_vars => (IInv /\ SeqInv(t0))'
  BY NextIInv, SeqInvNext
<1>3. Init => AbstractStack!Init
  BY DEF Init, AbstractStack!Init, StackSeq
<1>4. IInv /\ SeqInv(t0) /\ [Next]_vars => [AbstractStack!Next]_<<StackSeq, popped>>
  BY StepRefines
<1> QED
  BY <1>1, <1>2, <1>3, <1>4, PTL DEF Spec, ImplementsStack, AbstractStack!Spec

=============================================================================
