------------------------------ MODULE LifoStack ------------------------------
(***************************************************************************)
(* What a stack shared by threads promises: a value is put on top once,    *)
(* and a value that leaves is the one on top.                              *)
(***************************************************************************)
EXTENDS Sequences, SequencesExt

CONSTANT Values

VARIABLES
  stack,        \* the values in the stack, the top first
  out           \* the values that have left it

Init == stack = <<>> /\ out = {}

Push(v) ==
  /\ v \notin out \cup ToSet(stack)
  /\ stack' = Cons(v, stack)
  /\ UNCHANGED out

Pop ==
  /\ stack # <<>>
  /\ out' = out \cup {Head(stack)}
  /\ stack' = Tail(stack)

Next == Pop \/ \E v \in Values : Push(v)

Spec == Init /\ [][Next]_<<stack, out>>
=============================================================================
