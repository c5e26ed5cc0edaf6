--------------------------- MODULE MCUpgradeProc ---------------------------
(* Values of the constants of UpgradeProc for TLC. *)
EXTENDS UpgradeProc, TLC

NoFaults == [k \in FaultKinds |-> 0]

MCFaults(lost, corrupt, duplicate, foreign, residual, refusal, wild, ioError) ==
  [lost |-> lost, corrupt |-> corrupt, duplicate |-> duplicate,
   foreign |-> foreign, residual |-> residual, refusal |-> refusal,
   wild |-> wild, ioError |-> ioError]

AnyOneFault == MCFaults(1, 1, 1, 1, 1, 1, 1, 1)
StaleReplies == MCFaults(0, 0, 2, 0, 1, 0, 0, 0)
OneRefusal == MCFaults(0, 0, 0, 0, 0, 1, 0, 0)
OneForeign == MCFaults(0, 0, 0, 1, 0, 0, 0, 0)
=============================================================================
