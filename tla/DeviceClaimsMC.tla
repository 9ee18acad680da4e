--------------------------- MODULE DeviceClaimsMC ----------------------------
(* Two pod sets, of which only the workers' has the container of claim 1. *)
EXTENDS DeviceClaims

MCContainers == [p \in {"leader", "worker"} |-> IF p = "leader" THEN {"main"} ELSE {"main", "trainer"}]
MCTargets == [c \in Claims |-> IF c = 1 THEN {"trainer"} ELSE {}]
=============================================================================
