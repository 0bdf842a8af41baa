------------------------------ MODULE MCAuHub ------------------------------
(* Two subscribers of the hub with capacities 1 and 2, so that a full      *)
(* queue, a gone receiver and an idle slot meet in one write pass.         *)
EXTENDS AuHubSlot

CONSTANTS s1, s2

Subs == {s1, s2}
Caps == [s \in Subs |-> IF s = s1 THEN 1 ELSE 2]
=============================================================================
