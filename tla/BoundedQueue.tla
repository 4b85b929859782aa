---------------------------- MODULE BoundedQueue ----------------------------
(***************************************************************************)
(* What the primary worker and a worker thread rely on when they hand      *)
(* frames over: a first-in first-out queue of bounded capacity.  A frame   *)
(* is accepted only while there is room, refused only when there is none,  *)
(* and the frames come out whole, each once, in the order they went in.    *)
(***************************************************************************)
EXTENDS Naturals, Sequences

CONSTANTS Frame,      \* what is handed over
          Capacity    \* how many accepted frames may wait

VARIABLES queue,      \* the frames accepted and not yet handled
          refused,    \* flips with every frame turned away
          handled     \* the last frame handled; <<>> before the first

vars == <<queue, refused, handled>>

Init ==
  /\ queue = << >>
  /\ refused = FALSE
  /\ handled = << >>

Accept(f) ==
  /\ Len(queue) < Capacity
  /\ queue' = Append(queue, f)
  /\ UNCHANGED <<refused, handled>>

Refuse ==
  /\ Len(queue) = Capacity
  /\ refused' = ~refused
  /\ UNCHANGED <<queue, handled>>

Handle ==
  /\ queue # << >>
  /\ handled' = <<Head(queue)>>
  /\ queue' = Tail(queue)
  /\ UNCHANGED refused

Next == Refuse \/ Handle \/ \E f \in Frame : Accept(f)

Spec == Init /\ [][Next]_vars
=============================================================================
