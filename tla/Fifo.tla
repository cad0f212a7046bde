-------------------------------- MODULE Fifo ---------------------------------
(***************************************************************************)
(* What a Queue promises: values leave in the order in which they came,    *)
(* each of them once, and only a pop takes one out.                        *)
(***************************************************************************)
EXTENDS Sequences

CONSTANTS Values

VARIABLES queue, popped

Init == queue = <<>> /\ popped = {}

Push(v) == queue' = Append(queue, v) /\ UNCHANGED popped

Pop ==
  /\ queue # <<>>
  /\ queue' = Tail(queue)
  /\ popped' = popped \cup {Head(queue)}

Next == Pop \/ \E v \in Values : Push(v)

Spec == Init /\ [][Next]_<<queue, popped>>
=============================================================================
