------------------------- MODULE MCResidencyLedger -------------------------
(* An interactive gateway with an elastic context and a batch one with a   *)
(* second model to switch to and a warm model beside it: both fit as they  *)
(* start, neither fits beside the other once it has grown or switched.     *)
EXTENDS ResidencyLedger

CONSTANTS small, mid

MCProcs == {small, mid}
MCFootprint == [p \in MCProcs |-> IF p = small THEN 2 ELSE 3]
MCOther == [p \in MCProcs |-> IF p = small THEN 0 ELSE 4]
MCGrowth == [p \in MCProcs |-> IF p = small THEN 2 ELSE 0]
MCExtra == [p \in MCProcs |-> IF p = small THEN 0 ELSE 1]
MCPrio == [p \in MCProcs |-> IF p = mid THEN 1 ELSE 0]
MCMoves == [p \in MCProcs |-> 1]
MCAvail == {5}
MCPressure == {"normal", "pressed"}
=============================================================================
