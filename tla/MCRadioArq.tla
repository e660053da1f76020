------------------------------ MODULE MCRadioArq ------------------------------
(* The keyboard and the dongle of RadioArq with a few key events each. *)
EXTENDS RadioArq

FewSwitches == [n \in Nodes |-> IF n = "keyboard" THEN {1, 2} ELSE {1}]
FewCalls == [n \in Nodes |-> IF n = "keyboard" THEN 2 ELSE 1]
==============================================================================
