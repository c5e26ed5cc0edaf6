------------------------------ MODULE MCBaudFit ------------------------------
(* Values of the constants of BaudFit for TLC. *)
EXTENDS BaudFit, TLC

TwoRates == <<115200, 3000000>>
ThreeRates == <<115200, 3000000, 921600>>

AnyOneFault == [k \in FaultKinds |-> 1]
FaultsOf(kinds, n) == [k \in FaultKinds |-> IF k \in kinds THEN n ELSE 0]

Faulty == {[limit |-> AnyOneFault, timely |-> FALSE, killed |-> FALSE]}

(* Every kind of fault, once each, and answers that may be late; a session
   killed before, over a line that loses; answers in time, with nothing but the
   module's own messages to disturb them. *)
FaultyKilledOrTimely ==
  Faulty \cup
  {[limit |-> FaultsOf({"lost", "refusal", "talk"}, 1), timely |-> FALSE, killed |-> TRUE],
   [limit |-> FaultsOf({"talk"}, 2), timely |-> TRUE, killed |-> FALSE]}
=============================================================================
