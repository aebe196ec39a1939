---------------------------- MODULE AbstractStack ----------------------------
(***************************************************************************)
(* What the Stack trait of stm/src/nonblock.rs promises: push puts an item *)
(* on top of the stack; pop removes the top item and returns it, or        *)
(* returns None when no item is present.  The top of the stack is the head *)
(* of the sequence; out is the sequence of items pops have returned.       *)
(***************************************************************************)
EXTENDS Sequences

CONSTANT Values

VARIABLES stack, out

Init == stack = << >> /\ out = << >>

Push(v) == stack' = <<v>> \o stack /\ UNCHANGED out

Pop ==
  /\ stack # << >>
  /\ stack' = Tail(stack)
  /\ out' = Append(out, Head(stack))

Next == (\E v \in Values : Push(v)) \/ Pop

Spec == Init /\ [][Next]_<<stack, out>>

=============================================================================
