---------------------------- MODULE AbstractQueue ----------------------------
(***************************************************************************)
(* What the Queue trait of stm/src/nonblock.rs promises: put appends an    *)
(* item at the back; poll removes the front item and returns it, or        *)
(* returns None when the queue is empty.  out is the sequence of items     *)
(* polls have returned.                                                    *)
(***************************************************************************)
EXTENDS Sequences

CONSTANT Values

VARIABLES queue, out

Init == queue = << >> /\ out = << >>

Put(v) == queue' = Append(queue, v) /\ UNCHANGED out

Poll ==
  /\ queue # << >>
  /\ queue' = Tail(queue)
  /\ out' = Append(out, Head(queue))

Next == (\E v \in Values : Put(v)) \/ Poll

Spec == Init /\ [][Next]_<<queue, out>>

=============================================================================
