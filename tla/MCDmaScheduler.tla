--------------------------- MODULE MCDmaScheduler ---------------------------
(* Instances of DmaScheduler for TLC: what each slot asks for.             *)
EXTENDS DmaScheduler

(* slot 1: two chunks, no deadline; slot 2: one chunk, or nothing at all   *)
ChunkedAndTimed == [s \in Slots |-> IF s = 1 THEN {2} ELSE {0, 1}]

(* every slot transfers single words                                       *)
SingleWords == [s \in Slots |-> {1}]

(* slot 1 single words, slot 2 two chunks                                  *)
SecondIsLong == [s \in Slots |-> IF s = 2 THEN {2} ELSE {1}]

(* calls per slot                                                          *)
OneCall == [s \in Slots |-> 1]
TwoCalls == [s \in Slots |-> 2]
ThreeCalls == [s \in Slots |-> 3]
SecondCallsTwice == [s \in Slots |-> IF s = 2 THEN 2 ELSE 1]
=============================================================================
