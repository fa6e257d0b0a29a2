---------------------------- MODULE MCSwitchboard ----------------------------
(* Small gateways for TLC. *)
EXTENDS Switchboard

CONSTANTS m1, m2, m3, r1, r2, c1, c2

(* Requests for a model that is not the primary; all but one name no model. *)
AskOther == [r \in Requests |-> m2]
AskFirst == [r \in Requests |-> IF r = r1 THEN m2 ELSE Any]
Uneven == [m \in Models |-> IF m = m3 THEN 2 ELSE 1]
=============================================================================
