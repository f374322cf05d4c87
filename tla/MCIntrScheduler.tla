--------------------------- MODULE MCIntrScheduler --------------------------
(* Instances of IntrScheduler for TLC: levels and calls of each request.   *)
EXTENDS IntrScheduler

(* slots 1 and 2 share a level, slot 3 has another *)
TwoOnLevel0 == [r \in IntrSlots |-> IF r = 3 THEN 1 ELSE 0]
AllOnLevel0 == [r \in IntrSlots |-> 0]

OneRaise == [r \in IntrSlots |-> 1]
=============================================================================
