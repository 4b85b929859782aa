------------------------------- MODULE MCKeys -------------------------------
(***************************************************************************)
(* Two nodes that reach each other, and a third one which a sends through  *)
(* and which may send back what it is to pass on.                          *)
(***************************************************************************)
EXTENDS Keys

CONSTANTS a, b, c

TwoNodes == {a, b}
Through ==
  [n \in {a, b, c} |-> [m \in TwoNodes |->
     CASE n = a /\ m = b -> {b, c}
       [] n = c /\ m = b -> {b, a}
       [] n = b /\ m = a -> {a}
       [] OTHER -> {}]]

(* Application frames only with xor, where the node worker's keys are the  *)
(* ones that count.                                                        *)
OneWithXor == [x \in Ciphers |-> IF x = "xor" THEN 1 ELSE 0]
One == [x \in Ciphers |-> 1]
None == [x \in Ciphers |-> 0]
=============================================================================
