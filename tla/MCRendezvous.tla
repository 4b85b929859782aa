---------------------------- MODULE MCRendezvous ----------------------------
(***************************************************************************)
(* Two nodes, of which a has two places, and up to two index nodes.  Node  *)
(* a may run gnb_es, which takes the second for its own.                   *)
(***************************************************************************)
EXTENDS Rendezvous

CONSTANTS a, b, x, y, a1, a2, b1, j, nowhere

TwoNodes == {a, b}
ThreePlaces == {a1, a2, b1}
PoolOf == [n \in TwoNodes |-> IF n = a THEN {a1, a2} ELSE {b1}]
OneService == <<x>>
TwoServices == <<x, y>>
OneKey == {j}
BothKinds ==
  [n \in TwoNodes |-> IF n = a THEN "fault-tolerant" ELSE "load-balance"]
ToAll == [n \in TwoNodes |-> "full"]
NoIdea == [n \in TwoNodes |-> {nowhere}]
OldIdea == [n \in TwoNodes |-> IF n = a THEN {a2} ELSE {nowhere}]
OldOrNone == [n \in TwoNodes |-> IF n = a THEN {a2, nowhere} ELSE {nowhere}]
Plain ==
  [safe_index |-> FALSE, multi_index_type |-> BothKinds, wan6 |-> OldIdea]
PlainOldOrNone == [Plain EXCEPT !.wan6 = OldOrNone]
Safe ==
  [safe_index |-> TRUE, multi_index_type |-> BothKinds, wan6 |-> NoIdea]
SafeToAll == [Safe EXCEPT !.multi_index_type = ToAll]
PlainOrSafe == {Plain, Safe}
PlainOrSafeToAll == {PlainOldOrNone, SafeToAll}
OnlySafe == {Safe}
=============================================================================
