---------------------------- MODULE MCEventViews ----------------------------
(* Instances of EventViews: one environment, two interchangeable shapes. *)
EXTENDS EventViews

CONSTANTS ShapeA, ShapeB

MCArrivals == {[env |-> "prod", shape |-> s, status |-> "quarantined"] : s \in {ShapeA, ShapeB}}
Shapes == Permutations({ShapeA, ShapeB})
All == [env |-> "prod", statuses |-> {}, batch |-> 0]
HeldOnly == [All EXCEPT !.statuses = {"quarantined"}]
MCFilters == {HeldOnly, [All EXCEPT !.batch = 1]}
MCPinned == {<<2, 1, 3>>}
MCLimits == {NoLimit, 1}
=============================================================================
