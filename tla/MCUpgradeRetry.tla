--------------------------- MODULE MCUpgradeRetry ---------------------------
(* Values of the constants of UpgradeRetry for TLC. *)
EXTENDS UpgradeRetry, TLC

(* Faults that may each cost a run. *)
CostlyFaults ==
  [k \in FaultKinds |-> IF k \in {"lost", "duplicate"} THEN 1 ELSE 0]
=============================================================================
