------------------------- MODULE PriorityShapingMC -------------------------
(* Int32 is -8 .. 7; one policy boosts past it, one has bounds of its own. *)
EXTENDS PriorityShaping

Policy(protection, boost, minRuntime, offset, min, max, failOpen) ==
    [protection |-> protection, minRuntime |-> minRuntime, freshness |-> 1, maxYields |-> 1,
     yieldWindow |-> 4, boost |-> boost, cooldown |-> 1, offset |-> offset, min |-> min, max |-> max,
     failOpen |-> failOpen]

MCPolicies == {Policy(2, 3, 1, -4, {}, {}, FALSE), Policy(1, 2, 2, -20, {-8}, {7}, TRUE)}
MCMinInt == -8
=============================================================================
